--------------------------- MODULE CollectivesProofs ---------------------------
(***************************************************************************)
(* Collectives for any number of ranks and any programs: the ranks' calls  *)
(* of MPI match one another, stay inside their arrays and leave what they  *)
(* are documented to, however far apart the ranks are.                     *)
(***************************************************************************)
EXTENDS Collectives, PackagesProofs
-----------------------------------------------------------------------------
(* Recursive functions and sums.                                           *)

\* The values of f each depend on the one before.
Follows(f, base, next, N) == f[0] = base /\ \A n \in 1 .. N : f[n] = next[n][f[n - 1]]

LEMMA RecursionExists ==
    ASSUME NEW N \in Nat, NEW S, NEW base \in S, NEW next \in [1 .. N -> [S -> S]]
    PROVE  \E f \in [0 .. N -> S] : Follows(f, base, next, N)
<1> DEFINE T == {M \in 0 .. N : \E f \in [0 .. M -> S] : Follows(f, base, next, M)}
<1>1. 0 \in T
  <2>1. PICK f : f = [n \in 0 .. 0 |-> base]
    OBVIOUS
  <2>2. f \in [0 .. 0 -> S] /\ Follows(f, base, next, 0)
    BY <2>1 DEF Follows
  <2> QED BY <2>2
<1>2. ASSUME NEW M \in T, M \in 0 .. N - 1 PROVE M + 1 \in T
  <2>1. PICK f \in [0 .. M -> S] : Follows(f, base, next, M)
    OBVIOUS
  <2>2. PICK x \in S : x = next[M + 1][f[M]]
    <3>1. M + 1 \in 1 .. N /\ f[M] \in S
      BY <1>2
    <3>2. next[M + 1] \in [S -> S]
      BY <3>1
    <3> QED BY <3>1, <3>2
  <2>3. PICK g : g = [n \in 0 .. M + 1 |-> IF n = M + 1 THEN x ELSE f[n]]
    OBVIOUS
  <2>4. g \in [0 .. M + 1 -> S] /\ g[0] = base
    BY <1>2, <2>1, <2>2, <2>3 DEF Follows
  <2>5. ASSUME NEW n \in 1 .. M + 1 PROVE g[n] = next[n][g[n - 1]]
    <3>1. CASE n = M + 1
      BY <1>2, <2>2, <2>3, <3>1
    <3>2. CASE n # M + 1
      <4>1. n \in 1 .. M /\ n - 1 \in 0 .. M
        BY <1>2, <3>2
      <4>2. g[n] = f[n] /\ g[n - 1] = f[n - 1]
        BY <1>2, <2>3, <4>1
      <4> QED BY <2>1, <4>1, <4>2 DEF Follows
    <3> QED BY <3>1, <3>2
  <2>6. Follows(g, base, next, M + 1)
    BY <2>4, <2>5 DEF Follows
  <2>7. M + 1 \in 0 .. N
    BY <1>2
  <2> QED BY <2>4, <2>6, <2>7
<1>3. N \in T
  <2>1. 0 .. N \subseteq T
    <3> HIDE DEF T
    <3> QED BY <1>1, <1>2, UpTo
  <2> HIDE DEF T
  <2> QED BY <2>1
<1> QED BY <1>3

\* The sums are numbers, each the one before and one size more.
LEMMA SumsAre ==
    ASSUME NEW sizes \in Seq(Nat)
    PROVE  /\ Sums(sizes) \in [0 .. Len(sizes) -> Nat] /\ Sums(sizes)[0] = 0
           /\ \A i \in 1 .. Len(sizes) : Sums(sizes)[i] = Sums(sizes)[i - 1] + sizes[i]
<1>0. PICK N \in Nat : N = Len(sizes)
  OBVIOUS
<1>1. PICK next : next = [n \in 1 .. N |-> [x \in Nat |-> x + sizes[n]]]
  OBVIOUS
<1>2. next \in [1 .. N -> [Nat -> Nat]]
  <2>1. ASSUME NEW n \in 1 .. N PROVE [x \in Nat |-> x + sizes[n]] \in [Nat -> Nat]
    <3>1. sizes[n] \in Nat
      BY <1>0
    <3> QED BY <3>1
  <2> QED BY <1>1, <2>1
<1>3. PICK f \in [0 .. N -> Nat] : Follows(f, 0, next, N)
  <2>1. 0 \in Nat
    OBVIOUS
  <2> QED BY <1>2, <2>1, RecursionExists
<1>4. ASSUME NEW n \in 1 .. N PROVE f[n] = f[n - 1] + sizes[n]
  <2>1. f[n - 1] \in Nat
    OBVIOUS
  <2>2. next[n][f[n - 1]] = f[n - 1] + sizes[n]
    BY <1>1, <2>1
  <2> QED BY <1>3, <2>2 DEF Follows
<1>5. f = [i \in 0 .. N |-> IF i = 0 THEN 0 ELSE f[i - 1] + sizes[i]]
  BY <1>3, <1>4 DEF Follows
<1>6. PICK sum : sum = CHOOSE h : h = [i \in 0 .. Len(sizes) |-> IF i = 0 THEN 0 ELSE h[i - 1] + sizes[i]]
  OBVIOUS
<1>7. sum = [i \in 0 .. Len(sizes) |-> IF i = 0 THEN 0 ELSE sum[i - 1] + sizes[i]]
  BY <1>0, <1>5, <1>6
<1>8. Sums(sizes) = sum
  BY Zenon, <1>6 DEF Sums
<1>9. sum[0] = 0 /\ \A i \in 1 .. N : sum[i] = sum[i - 1] + sizes[i]
  BY <1>0, <1>7
<1> DEFINE T == {n \in 0 .. N : sum[n] \in Nat}
<1>10. 0 \in T
  BY <1>9
<1>11. ASSUME NEW n \in T, n \in 0 .. N - 1 PROVE n + 1 \in T
  <2>1. n + 1 \in 1 .. N /\ (n + 1) - 1 = n /\ sum[n] \in Nat
    BY <1>11
  <2>2. sizes[n + 1] \in Nat
    BY <1>0, <2>1
  <2>3. sum[n + 1] = sum[n] + sizes[n + 1]
    BY <1>9, <2>1
  <2>4. sum[n + 1] \in Nat /\ n + 1 \in 0 .. N
    BY <2>1, <2>2, <2>3
  <2> QED BY <2>4
<1>12. 0 .. N \subseteq T
  <2> HIDE DEF T
  <2> QED BY <1>10, <1>11, UpTo
<1>13. sum \in [0 .. N -> Nat]
  BY <1>0, <1>7, <1>12
<1> QED BY <1>0, <1>8, <1>9, <1>13

\* The sums never fall.
LEMMA SumsGrow ==
    ASSUME NEW sizes \in Seq(Nat), NEW i \in 0 .. Len(sizes), NEW j \in 0 .. Len(sizes), i <= j
    PROVE  Sums(sizes)[i] <= Sums(sizes)[j]
<1>0. PICK N \in Nat : N = Len(sizes)
  OBVIOUS
<1>1. PICK s \in [0 .. N -> Nat] :
          N = Len(sizes) /\ i \in 0 .. N /\ j \in 0 .. N /\ s = Sums(sizes) /\ \A n \in 1 .. N : s[n] = s[n - 1] + sizes[n]
  BY <1>0, SumsAre
<1> DEFINE T == {k \in 0 .. N - i : s[i] <= s[i + k]}
<1>2. 0 \in T
  <2>1. PICK k \in 0 .. N : k = i
    BY <1>1
  <2>2. s[k] \in Nat /\ k + 0 = k /\ 0 \in 0 .. N - k
    OBVIOUS
  <2> QED BY <2>1, <2>2
<1>3. ASSUME NEW k \in T, k \in 0 .. (N - i) - 1 PROVE k + 1 \in T
  <2>1. i + (k + 1) \in 1 .. N /\ (i + (k + 1)) - 1 = i + k
    BY <1>1, <1>3
  <2>2. s[i + (k + 1)] = s[i + k] + sizes[i + (k + 1)] /\ sizes[i + (k + 1)] \in Nat
    BY <1>1, <2>1
  <2>3. s[i] \in Nat /\ s[i + k] \in Nat /\ s[i + (k + 1)] \in Nat
    <3>1. i \in 0 .. N /\ i + k \in 0 .. N /\ i + (k + 1) \in 0 .. N
      BY <1>1, <1>3
    <3> QED BY <3>1
  <2>4. s[i] <= s[i + (k + 1)]
    BY <1>3, <2>2, <2>3
  <2> QED BY <1>1, <1>3, <2>4
<1>4. N - i \in Nat
  BY <1>1
<1>5. 0 .. N - i \subseteq T
  <2> HIDE DEF T
  <2> QED BY <1>2, <1>3, <1>4, UpTo
<1>6. j - i \in 0 .. N - i /\ i + (j - i) = j
  BY <1>1
<1> QED BY <1>1, <1>5, <1>6

-----------------------------------------------------------------------------
(* What every rank does, told by its place in the program alone.           *)

\* The calls of two collectives of MPI, and how many collectives a call is.
OfTwoRounds ==
    {"broadcast_value", "scatterv", "scatterv_n_from", "gatherv_told", "gather_package",
     "all_gather_package", "all_gatherv", "all_gatherv_output"}
Rounds(c) == IF c.op \in OfTwoRounds THEN 2 ELSE 1

\* The collectives of the calls before a call, and those of the calls up to it.
RoundsOf(p) == [i \in 1 .. Len(p) |-> Rounds(p[i])]
Before(p) == Sums(RoundsOf(p))

\* What rank r is brought by a collective, when rank q takes part with mems[q] as its memory.
Exchanged(c, r, mems) ==
    LET mine == NextOperation(c, r, mems[r])
    IN  Delivered(mine, [q \in DOMAIN mine.want |-> NextOperation(c, q, mems[q]).give[r]])

\* The memory of rank r at step s of call c, the collective that it starts there, what
\* that brings, and what it has when the call has returned.
Begun(c) == [r \in Ranks |-> Start(c, r)]
Going(c) == [r \in Ranks |-> AfterOperation(c, r, Start(c, r), Exchanged(c, r, Begun(c)))]
Recalled(c, s) == IF s = 1 THEN Begun(c) ELSE Going(c)
Collective(c, r, s) == NextOperation(c, r, Recalled(c, s)[r])
Brought(c, r, s) == Exchanged(c, r, Recalled(c, s))
Outcome(c, r) ==
    IF Immediate(c) THEN [Memory(Brought(c, r, 1)) EXCEPT !.step = Done]
    ELSE AfterOperation(c, r, Recalled(c, Rounds(c))[r], Brought(c, r, Rounds(c)))

\* Every variable has a value for each rank.
Shape ==
    /\ program \in Programs /\ blocked \subseteq Ranks
    /\ call \in [Ranks -> 1 .. Len(program) + 1]
    /\ DOMAIN mem = Ranks /\ DOMAIN posted = Ranks /\ DOMAIN requests = Ranks
    /\ DOMAIN results = Ranks
    /\ \A r \in Ranks : IsSeq(posted[r])

\* A rank in call i has started the collectives of the calls before i and, of those of i,
\* as many as its step says; it remembers what any rank would there.
Placed(r) ==
    /\ mem[r].step \in Nat \ {0}
    /\ Len(posted[r]) = Before(program)[call[r] - 1] + mem[r].step - (IF r \in blocked THEN 0 ELSE 1)
    /\ r \in blocked => call[r] <= Len(program) /\ ~Immediate(program[call[r]])
    /\ IF call[r] <= Len(program)
       THEN /\ mem[r].step <= Rounds(program[call[r]])
            /\ mem[r] = Recalled(program[call[r]], mem[r].step)[r]
       ELSE mem[r] = Memory(<<>>)

\* What was started at each place is what the program says.
Planned(r) ==
    \A k \in 1 .. Len(posted[r]) :
        \E i \in 1 .. Len(program) : \E s \in 1 .. Rounds(program[i]) :
            k = Before(program)[i - 1] + s /\ posted[r][k] = Collective(program[i], r, s)

\* Requests are those of immediate calls, and results those that their calls have.
Remembered(r) ==
    /\ \A q \in requests[r] : \E i \in 1 .. Len(program) :
           /\ q = <<Before(program)[i - 1] + 1, i>> /\ Immediate(program[i])
           /\ q[1] <= Len(posted[r]) /\ i < call[r]
    /\ \A i \in DOMAIN results[r] :
           /\ i \in 1 .. Len(program) /\ i < call[r]
           /\ results[r][i] = Outcome(program[i], r)

CInv == Shape /\ \A r \in Ranks : Placed(r) /\ Planned(r) /\ Remembered(r)

-----------------------------------------------------------------------------
(* The collectives of MPI match, one by one.                               *)

\* Two ranks' operations are one collective, and what the second gives is what the first
\* expects from it.
Matches(mine, other, r, q) ==
    /\ mine.kind = other.kind /\ mine.root = other.root
    /\ q \in DOMAIN mine.want <=> r \in DOMAIN other.give
    /\ q \in DOMAIN mine.want => mine.want[q] = Len(other.give[r])

LEMMA SliceIs ==
    ASSUME NEW a, NEW from \in Nat, NEW n \in Nat
    PROVE  Len(Slice(a, from, n)) = n /\ DOMAIN Slice(a, from, n) = 1 .. n
BY DEF Slice

LEMMA ArraysAre ==
    ASSUME NEW r, NEW n \in Nat
    PROVE  /\ Len(Own(r, n)) = n /\ DOMAIN Own(r, n) = 1 .. n
           /\ \A i \in 1 .. n : Own(r, n)[i] = <<r, i>>
           /\ Len(Blanks(n)) = n /\ DOMAIN Blanks(n) = 1 .. n
           /\ \A i \in 1 .. n : Blanks(n)[i] = Blank
BY DEF Own, Blanks

\* The parts of an operation.
LEMMA BcastIs ==
    ASSUME NEW kind, NEW r, NEW root, NEW a, NEW n, NEW o, o = Bcast(kind, r, root, a, n)
    PROVE  /\ o.kind = kind /\ o.root = root /\ o.into = a
           /\ r = root => /\ DOMAIN o.give = Ranks \ {r} /\ DOMAIN o.want = {}
                          /\ \A q \in Ranks \ {r} : o.give[q] = Slice(a, 0, n)
           /\ r # root => /\ DOMAIN o.give = {} /\ DOMAIN o.want = {root}
                          /\ o.want[root] = n /\ o.place[root] = 0
BY DEF Bcast, Operation, If

LEMMA GatherIs ==
    ASSUME NEW kind, NEW r, NEW root, NEW a, NEW counts, NEW displs, NEW into,
           NEW o, o = Gather(kind, r, root, a, counts, displs, into)
    PROVE  /\ o.kind = kind /\ o.root = root /\ o.into = into
           /\ DOMAIN o.give = {root} /\ o.give[root] = a
           /\ r # root => DOMAIN o.want = {}
           /\ r = root => /\ DOMAIN o.want = Ranks
                          /\ \A q \in Ranks : o.want[q] = counts[q + 1] /\ o.place[q] = displs[q + 1]
BY DEF Gather, Operation, If

LEMMA AllGatherIs ==
    ASSUME NEW kind, NEW a, NEW counts, NEW displs, NEW into,
           NEW o, o = AllGather(kind, a, counts, displs, into)
    PROVE  /\ o.kind = kind /\ o.root = 0 /\ o.into = into
           /\ DOMAIN o.give = Ranks /\ DOMAIN o.want = Ranks
           /\ \A q \in Ranks : /\ o.give[q] = a
                               /\ o.want[q] = counts[q + 1] /\ o.place[q] = displs[q + 1]
BY DEF AllGather, Operation

LEMMA ScatterIs ==
    ASSUME NEW kind, NEW r, NEW root, NEW a, NEW counts, NEW displs, NEW n, NEW into,
           NEW o, o = Scatter(kind, r, root, a, counts, displs, n, into)
    PROVE  /\ o.kind = kind /\ o.root = root /\ o.into = into
           /\ DOMAIN o.want = {root} /\ o.want[root] = n /\ o.place[root] = 0
           /\ r # root => DOMAIN o.give = {}
           /\ r = root => /\ DOMAIN o.give = Ranks
                          /\ \A q \in Ranks : o.give[q] = Slice(a, displs[q + 1], counts[q + 1])
BY DEF Scatter, Operation, If

LEMMA AlltoallIs ==
    ASSUME NEW a, NEW n, NEW into, NEW o, o = Alltoall(a, n, into)
    PROVE  /\ o.kind = "alltoall" /\ o.root = 0 /\ o.into = into
           /\ DOMAIN o.give = Ranks /\ DOMAIN o.want = Ranks
           /\ \A q \in Ranks : /\ o.give[q] = Slice(a, q * n, n)
                               /\ o.want[q] = n /\ o.place[q] = q * n
BY DEF Alltoall, Operation

LEMMA ReduceIs ==
    ASSUME NEW r, NEW root, NEW a, NEW into, NEW o, o = Reduce(r, root, a, into)
    PROVE  /\ o.kind = "reduce" /\ o.root = root /\ o.into = into
           /\ DOMAIN o.give = {root} /\ o.give[root] = a
           /\ r # root => DOMAIN o.want = {} /\ o.want = <<>>
           /\ r = root => /\ DOMAIN o.want = Ranks
                          /\ \A q \in Ranks : o.want[q] = Len(a) /\ o.place[q] = 0
BY DEF Reduce, Operation, If

LEMMA AllreduceIs ==
    ASSUME NEW kind, NEW a, NEW into, NEW o, o = Allreduce(kind, a, into)
    PROVE  /\ o.kind = kind /\ o.root = 0 /\ o.into = into
           /\ DOMAIN o.give = Ranks /\ DOMAIN o.want = Ranks
           /\ \A q \in Ranks : o.give[q] = a /\ o.want[q] = Len(a) /\ o.place[q] = 0
BY DEF Allreduce, Operation

LEMMA BarrierMatches ==
    ASSUME NEW r \in Ranks, NEW q \in Ranks
    PROVE  Matches(Barrier, Barrier, r, q)
BY DEF Matches, Barrier, Operation

LEMMA BcastMatches ==
    ASSUME NEW kind, NEW root \in Ranks, NEW r \in Ranks, NEW q \in Ranks, NEW a, NEW b, NEW n \in Nat
    PROVE  Matches(Bcast(kind, r, root, a, n), Bcast(kind, q, root, b, n), r, q)
<1>1. Len(Slice(b, 0, n)) = n
  BY SliceIs
<1>2. PICK given : given = Slice(b, 0, n)
  OBVIOUS
<1> QED BY <1>1, <1>2 DEF Matches, Bcast, Operation, If

LEMMA GatherMatches ==
    ASSUME NEW kind, NEW root \in Ranks, NEW r \in Ranks, NEW q \in Ranks, NEW a, NEW b,
           NEW mineC, NEW mineD, NEW mineI, NEW otherC, NEW otherD, NEW otherI,
           r = root => mineC[q + 1] = Len(b)
    PROVE  Matches(Gather(kind, r, root, a, mineC, mineD, mineI),
                   Gather(kind, q, root, b, otherC, otherD, otherI), r, q)
BY DEF Matches, Gather, Operation, If

LEMMA AllGatherMatches ==
    ASSUME NEW kind, NEW r \in Ranks, NEW q \in Ranks, NEW a, NEW b,
           NEW mineC, NEW mineD, NEW mineI, NEW otherC, NEW otherD, NEW otherI,
           mineC[q + 1] = Len(b)
    PROVE  Matches(AllGather(kind, a, mineC, mineD, mineI),
                   AllGather(kind, b, otherC, otherD, otherI), r, q)
BY DEF Matches, AllGather, Operation, If

LEMMA ScatterMatches ==
    ASSUME NEW kind, NEW root \in Ranks, NEW r \in Ranks, NEW q \in Ranks, NEW a, NEW b,
           NEW mineC, NEW mineD, NEW mineN \in Nat, NEW mineI,
           NEW otherC, NEW otherD, NEW otherN, NEW otherI,
           q = root => otherC[r + 1] = mineN /\ otherD[r + 1] \in Nat
    PROVE  Matches(Scatter(kind, r, root, a, mineC, mineD, mineN, mineI),
                   Scatter(kind, q, root, b, otherC, otherD, otherN, otherI), r, q)
<1>1. q = root => Len(Slice(b, otherD[r + 1], otherC[r + 1])) = mineN
  BY SliceIs
<1>2. PICK given : given = Slice(b, otherD[r + 1], otherC[r + 1])
  OBVIOUS
<1> QED BY <1>1, <1>2 DEF Matches, Scatter, Operation, If

LEMMA AlltoallMatches ==
    ASSUME NEW r \in Ranks, NEW q \in Ranks, NEW a, NEW b, NEW n \in Nat, NEW mineI, NEW otherI
    PROVE  Matches(Alltoall(a, n, mineI), Alltoall(b, n, otherI), r, q)
<1>1. Len(Slice(b, r * n, n)) = n
  <2>1. PICK from \in Nat : from = r * n
    BY SizeAssumption DEF Ranks
  <2> QED BY <2>1, SliceIs
<1>2. PICK given : given = Slice(b, r * n, n)
  OBVIOUS
<1> QED BY <1>1, <1>2 DEF Matches, Alltoall, Operation, If

LEMMA ReduceMatches ==
    ASSUME NEW root \in Ranks, NEW r \in Ranks, NEW q \in Ranks, NEW a, NEW b,
           NEW mineI, NEW otherI, Len(a) = Len(b)
    PROVE  Matches(Reduce(r, root, a, mineI), Reduce(q, root, b, otherI), r, q)
BY DEF Matches, Reduce, Operation, If

LEMMA AllreduceMatches ==
    ASSUME NEW kind, NEW r \in Ranks, NEW q \in Ranks, NEW a, NEW b,
           NEW mineI, NEW otherI, Len(a) = Len(b)
    PROVE  Matches(Allreduce(kind, a, mineI), Allreduce(kind, b, otherI), r, q)
BY DEF Matches, Allreduce, Operation, If

-----------------------------------------------------------------------------
(* Which operation a call is made of.                                      *)

LEMMA NextOperationIs ==
    ASSUME NEW c, NEW r, NEW m
    PROVE  /\ c.op = "barrier" => NextOperation(c, r, m) = Barrier
           /\ c.op = "broadcast_value" => NextOperation(c, r, m) = BroadcastValue(c, r, m)
           /\ c.op \in {"broadcast", "ibroadcast"} => NextOperation(c, r, m) = BroadcastN(c, r, m)
           /\ c.op \in {"reduce", "reduce_in_place"} => NextOperation(c, r, m) = ReduceN(c, r, m)
           /\ c.op \in {"all_reduce", "all_reduce_in_place"} => NextOperation(c, r, m) = AllReduceN(c, r, m)
           /\ c.op = "reduce_value" => NextOperation(c, r, m) = ReduceValue(c, r, m)
           /\ c.op = "all_reduce_value" => NextOperation(c, r, m) = AllReduceValue(c, r, m)
           /\ c.op \in {"max", "min"} => NextOperation(c, r, m) = Extremum(c, r, m)
           /\ c.op \in {"and", "or"} => NextOperation(c, r, m) = Truth(c, r, m)
           /\ c.op \in {"max_element", "max_location", "max_location_other"} => NextOperation(c, r, m) = MaxLoc(c, r, m)
           /\ c.op \in {"scatter_n", "scatter", "scatter_list"} => NextOperation(c, r, m) = ScatterN(c, r, m)
           /\ c.op = "scatterv" => NextOperation(c, r, m) = Scatterv(c, r, m)
           /\ c.op = "scatterv_n_from" => NextOperation(c, r, m) = ScattervFrom(c, r, m)
           /\ c.op \in {"gather", "igather"} => NextOperation(c, r, m) = GatherN(c, r, m)
           /\ c.op = "gather_value" => NextOperation(c, r, m) = GatherValue(c, r, m)
           /\ c.op = "all_gather_value" => NextOperation(c, r, m) = AllGatherValue(c, r, m)
           /\ c.op = "gatherv" => NextOperation(c, r, m) = GathervN(c, r, m)
           /\ c.op = "gatherv_told" => NextOperation(c, r, m) = GathervTold(c, r, m)
           /\ c.op = "gather_package" => NextOperation(c, r, m) = GatherPackage(c, r, m)
           /\ c.op \in {"all_gather", "iall_gather"} => NextOperation(c, r, m) = AllGatherN(c, r, m)
           /\ c.op = "all_gather_package" => NextOperation(c, r, m) = AllGatherPackage(c, r, m)
           /\ c.op \in {"all_gatherv", "all_gatherv_output"} => NextOperation(c, r, m) = AllGatherv(c, r, m)
           /\ c.op \in {"all_to_all_n", "all_to_all_in_place", "all_to_all"} => NextOperation(c, r, m) = AllToAllN(c, r, m)
<1>1. ASSUME c.op = "barrier" PROVE NextOperation(c, r, m) = Barrier
  BY <1>1 DEF NextOperation
<1>2. ASSUME c.op = "broadcast_value" PROVE NextOperation(c, r, m) = BroadcastValue(c, r, m)
  BY <1>2 DEF NextOperation
<1>3. ASSUME c.op \in {"broadcast", "ibroadcast"} PROVE NextOperation(c, r, m) = BroadcastN(c, r, m)
  BY <1>3 DEF NextOperation
<1>4. ASSUME c.op \in {"reduce", "reduce_in_place"} PROVE NextOperation(c, r, m) = ReduceN(c, r, m)
  BY <1>4 DEF NextOperation
<1>5. ASSUME c.op \in {"all_reduce", "all_reduce_in_place"} PROVE NextOperation(c, r, m) = AllReduceN(c, r, m)
  BY <1>5 DEF NextOperation
<1>6. ASSUME c.op = "reduce_value" PROVE NextOperation(c, r, m) = ReduceValue(c, r, m)
  BY <1>6 DEF NextOperation
<1>7. ASSUME c.op = "all_reduce_value" PROVE NextOperation(c, r, m) = AllReduceValue(c, r, m)
  BY <1>7 DEF NextOperation
<1>8. ASSUME c.op \in {"max", "min"} PROVE NextOperation(c, r, m) = Extremum(c, r, m)
  BY <1>8 DEF NextOperation
<1>9. ASSUME c.op \in {"and", "or"} PROVE NextOperation(c, r, m) = Truth(c, r, m)
  BY <1>9 DEF NextOperation
<1>10. ASSUME c.op \in {"max_element", "max_location", "max_location_other"} PROVE NextOperation(c, r, m) = MaxLoc(c, r, m)
  BY <1>10 DEF NextOperation
<1>11. ASSUME c.op \in {"scatter_n", "scatter", "scatter_list"} PROVE NextOperation(c, r, m) = ScatterN(c, r, m)
  BY <1>11 DEF NextOperation
<1>12. ASSUME c.op = "scatterv" PROVE NextOperation(c, r, m) = Scatterv(c, r, m)
  BY <1>12 DEF NextOperation
<1>13. ASSUME c.op = "scatterv_n_from" PROVE NextOperation(c, r, m) = ScattervFrom(c, r, m)
  BY <1>13 DEF NextOperation
<1>14. ASSUME c.op \in {"gather", "igather"} PROVE NextOperation(c, r, m) = GatherN(c, r, m)
  BY <1>14 DEF NextOperation
<1>15. ASSUME c.op = "gather_value" PROVE NextOperation(c, r, m) = GatherValue(c, r, m)
  BY <1>15 DEF NextOperation
<1>16. ASSUME c.op = "all_gather_value" PROVE NextOperation(c, r, m) = AllGatherValue(c, r, m)
  BY <1>16 DEF NextOperation
<1>17. ASSUME c.op = "gatherv" PROVE NextOperation(c, r, m) = GathervN(c, r, m)
  BY <1>17 DEF NextOperation
<1>18. ASSUME c.op = "gatherv_told" PROVE NextOperation(c, r, m) = GathervTold(c, r, m)
  BY <1>18 DEF NextOperation
<1>19. ASSUME c.op = "gather_package" PROVE NextOperation(c, r, m) = GatherPackage(c, r, m)
  BY <1>19 DEF NextOperation
<1>20. ASSUME c.op \in {"all_gather", "iall_gather"} PROVE NextOperation(c, r, m) = AllGatherN(c, r, m)
  BY <1>20 DEF NextOperation
<1>21. ASSUME c.op = "all_gather_package" PROVE NextOperation(c, r, m) = AllGatherPackage(c, r, m)
  BY <1>21 DEF NextOperation
<1>22. ASSUME c.op \in {"all_gatherv", "all_gatherv_output"} PROVE NextOperation(c, r, m) = AllGatherv(c, r, m)
  BY <1>22 DEF NextOperation
<1>23. ASSUME c.op \in {"all_to_all_n", "all_to_all_in_place", "all_to_all"} PROVE NextOperation(c, r, m) = AllToAllN(c, r, m)
  BY <1>23 DEF NextOperation
<1> QED BY <1>1, <1>2, <1>3, <1>4, <1>5, <1>6, <1>7, <1>8, <1>9, <1>10, <1>11, <1>12, <1>13, <1>14, <1>15, <1>16, <1>17, <1>18, <1>19, <1>20, <1>21, <1>22, <1>23

LEMMA StartIs ==
    ASSUME NEW c, NEW r
    PROVE  /\ Start(c, r) = Memory(Start(c, r).out)
           /\ Start(c, r).step = 1 /\ Start(c, r).sizes = <<>> /\ Start(c, r).displs = <<>>
           /\ Start(c, r).end = 0 /\ Start(c, r).inside = TRUE
<1>1. PICK a : Start(c, r) = Memory(a)
  BY DEF Start
<1> QED BY <1>1 DEF Memory

\* The caller's array.
LEMMA StartOut ==
    ASSUME NEW c, NEW r
    PROVE  /\ c.op \in {"broadcast_value", "broadcast", "ibroadcast", "reduce_in_place", "all_reduce_in_place"}
                 => Start(c, r).out = Own(r, c.n[r])
           /\ c.op = "all_to_all_in_place" => Start(c, r).out = Own(r, Size * c.n[r])
           /\ c.op \in {"gather", "igather"}
                 => Start(c, r).out = Blanks(AtRoot(c, r, Size * c.n[r]))
           /\ c.op \in {"all_gather", "iall_gather", "all_to_all_n"}
                 => Start(c, r).out = Blanks(Size * c.n[r])
           /\ c.op = "all_to_all" => Start(c, r).out = Blanks(Size)
           /\ c.op = "all_gatherv" => Start(c, r).out = Blanks(Total(Sizes(c)))
           /\ c.op \in {"reduce", "all_reduce", "scatter_n", "scatterv_n_from"}
                 => Start(c, r).out = Blanks(c.n[r])
           /\ c.op = "gatherv" => Start(c, r).out = Blanks(AtRoot(c, r, Total(Sizes(c))))
           /\ c.op = "gatherv_told"
                 => Start(c, r).out = Blanks(IF r = 0 THEN Total(Sizes(c)) ELSE 0)
           /\ c.op \in {"max_element", "max_location", "max_location_other", "scatter", "scatter_list", "max", "min", "and", "or", "reduce_value", "all_reduce_value"}
                 => Start(c, r).out = Blanks(1)
           /\ c.op \in {"gather_value", "all_gather_value", "barrier", "scatterv", "gather_package", "all_gather_package", "all_gatherv_output"}
                 => Start(c, r).out = <<>>
<1>1. ASSUME c.op \in {"broadcast_value", "broadcast", "ibroadcast", "reduce_in_place", "all_reduce_in_place"} PROVE Start(c, r).out = Own(r, c.n[r])
  BY <1>1 DEF Start, Memory
<1>2. ASSUME c.op = "all_to_all_in_place" PROVE Start(c, r).out = Own(r, Size * c.n[r])
  BY <1>2 DEF Start, Memory
<1>3. ASSUME c.op \in {"gather", "igather"} PROVE Start(c, r).out = Blanks(AtRoot(c, r, Size * c.n[r]))
  BY <1>3 DEF Start, Memory
<1>4. ASSUME c.op \in {"all_gather", "iall_gather", "all_to_all_n"} PROVE Start(c, r).out = Blanks(Size * c.n[r])
  BY <1>4 DEF Start, Memory
<1>5. ASSUME c.op = "all_to_all" PROVE Start(c, r).out = Blanks(Size)
  BY <1>5 DEF Start, Memory
<1>6. ASSUME c.op = "all_gatherv" PROVE Start(c, r).out = Blanks(Total(Sizes(c)))
  BY <1>6 DEF Start, Memory
<1>7. ASSUME c.op \in {"reduce", "all_reduce", "scatter_n", "scatterv_n_from"} PROVE Start(c, r).out = Blanks(c.n[r])
  BY <1>7 DEF Start, Memory
<1>8. ASSUME c.op = "gatherv" PROVE Start(c, r).out = Blanks(AtRoot(c, r, Total(Sizes(c))))
  BY <1>8 DEF Start, Memory
<1>9. ASSUME c.op = "gatherv_told" PROVE Start(c, r).out = Blanks(IF r = 0 THEN Total(Sizes(c)) ELSE 0)
  BY <1>9 DEF Start, Memory
<1>10. ASSUME c.op \in {"max_element", "max_location", "max_location_other", "scatter", "scatter_list", "max", "min", "and", "or", "reduce_value", "all_reduce_value"} PROVE Start(c, r).out = Blanks(1)
  BY <1>10 DEF Start, Memory
<1>11. ASSUME c.op \in {"gather_value", "all_gather_value", "barrier", "scatterv", "gather_package", "all_gather_package", "all_gatherv_output"} PROVE Start(c, r).out = <<>>
  BY <1>11 DEF Start, Memory
<1> QED BY <1>1, <1>2, <1>3, <1>4, <1>5, <1>6, <1>7, <1>8, <1>9, <1>10, <1>11

-----------------------------------------------------------------------------
(* What is delivered.                                                      *)

LEMMA DeliveredDomain ==
    ASSUME NEW o, NEW gave, o.kind \notin Reductions
    PROVE  /\ DOMAIN Delivered(o, gave) = DOMAIN o.into
           /\ Delivered(o, gave) = [i \in DOMAIN Delivered(o, gave) |-> Delivered(o, gave)[i]]
BY DEF Delivered

\* An element of which one rank sends the value, or none does.
Covers(o, gave, q, i) == o.place[q] < i /\ i <= o.place[q] + Len(gave[q])
OnlyFrom(o, gave, q, i) ==
    q \in DOMAIN gave /\ Covers(o, gave, q, i) /\ \A p \in DOMAIN gave : Covers(o, gave, p, i) => p = q

LEMMA DeliveredFrom ==
    ASSUME NEW o, NEW gave, o.kind \notin Reductions, NEW i \in DOMAIN o.into,
           NEW q, OnlyFrom(o, gave, q, i)
    PROVE  Delivered(o, gave)[i] = gave[q][i - o.place[q]]
<1>1. PICK From : From = {p \in DOMAIN gave : o.place[p] < i /\ i <= o.place[p] + Len(gave[p])}
  OBVIOUS
<1>2. From = {q}
  BY <1>1 DEF OnlyFrom, Covers
<1>3. (CHOOSE p \in From : TRUE) = q
  BY <1>2
<1>4. Delivered(o, gave)[i] = IF From = {} THEN o.into[i]
                              ELSE gave[CHOOSE p \in From : TRUE][i - o.place[CHOOSE p \in From : TRUE]]
  BY <1>1 DEF Delivered
<1> QED BY <1>2, <1>3, <1>4

LEMMA DeliveredNone ==
    ASSUME NEW o, NEW gave, o.kind \notin Reductions, NEW i \in DOMAIN o.into,
           \A p \in DOMAIN gave : ~Covers(o, gave, p, i)
    PROVE  Delivered(o, gave)[i] = o.into[i]
<1>1. PICK From : From = {p \in DOMAIN gave : o.place[p] < i /\ i <= o.place[p] + Len(gave[p])}
  OBVIOUS
<1>2. From = {}
  BY <1>1 DEF Covers
<1>3. Delivered(o, gave)[i] = IF From = {} THEN o.into[i]
                              ELSE gave[CHOOSE p \in From : TRUE][i - o.place[CHOOSE p \in From : TRUE]]
  BY <1>1 DEF Delivered
<1> QED BY <1>2, <1>3

LEMMA RanksAre ==
    /\ Size \in Nat /\ Size > 0 /\ 0 \in Ranks
    /\ \A r \in Ranks : r \in Nat /\ r + 1 \in 1 .. Size
    /\ \A i \in 1 .. Size : i - 1 \in Ranks /\ (i - 1) + 1 = i
BY SizeAssumption DEF Ranks

\* The values of a function of the ranks, in their order.
Listed(told) == [i \in 1 .. Size |-> told[i - 1]]

LEMMA ListedIs ==
    ASSUME NEW told \in [Ranks -> Nat]
    PROVE  /\ Listed(told) \in Seq(Nat) /\ Len(Listed(told)) = Size
           /\ \A q \in Ranks : Listed(told)[q + 1] = told[q]
BY RanksAre DEF Listed

LEMMA CountsAre ==
    ASSUME NEW a, DOMAIN a = 1 .. Size, NEW told \in [Ranks -> Nat],
           \A i \in 1 .. Size : a[i] = <<told[i - 1]>>
    PROVE  Counts(a) = Listed(told)
<1>1. \A i \in 1 .. Size : a[i][1] = told[i - 1]
  OBVIOUS
<1> QED BY <1>1 DEF Counts, Listed

\* One number of every rank, put together in the order of the ranks.
OneOfEach(o, gave, told) ==
    /\ DOMAIN o.into = 1 .. Size /\ DOMAIN gave = Ranks
    /\ \A q \in Ranks : o.place[q] = q /\ gave[q] = <<<<told[q]>>>>

LEMMA NumbersTogether ==
    ASSUME NEW o, o.kind \notin Reductions, NEW gave, NEW told \in [Ranks -> Nat],
           OneOfEach(o, gave, told)
    PROVE  /\ DOMAIN Delivered(o, gave) = 1 .. Size
           /\ Len(Delivered(o, gave)) = Size
           /\ Counts(Delivered(o, gave)) = Listed(told)
<1>1. PICK got : got = Delivered(o, gave)
  OBVIOUS
<1>2. DOMAIN got = 1 .. Size /\ got = [i \in 1 .. Size |-> got[i]]
  <2>1. DOMAIN got = 1 .. Size /\ got = [i \in DOMAIN got |-> got[i]]
    BY <1>1, DeliveredDomain DEF OneOfEach
  <2> QED BY Zenon, <2>1
<1>3. Len(got) = Size
  BY <1>2, RanksAre
<1>4. ASSUME NEW i \in 1 .. Size PROVE got[i] = <<told[i - 1]>>
  <2>1. PICK q \in Ranks : q = i - 1 /\ q \in Nat /\ i = q + 1
    BY RanksAre
  <2>2. \A p \in Ranks : o.place[p] = p /\ Len(gave[p]) = 1 /\ p \in Nat
    BY RanksAre DEF OneOfEach
  <2>3. Covers(o, gave, q, i)
    <3>1. o.place[q] = q /\ Len(gave[q]) = 1 /\ q < i /\ i <= q + 1
      BY <2>1, <2>2
    <3> QED BY <3>1 DEF Covers
  <2>4. ASSUME NEW p \in DOMAIN gave, Covers(o, gave, p, i)
        PROVE  p = q
    <3>1. p \in Nat /\ o.place[p] = p /\ Len(gave[p]) = 1
      BY <2>2 DEF OneOfEach
    <3>2. p < i /\ i <= p + 1
      BY <2>4, <3>1 DEF Covers
    <3> QED BY <2>1, <3>1, <3>2
  <2>5. got[i] = gave[q][i - o.place[q]]
    <3>1. OnlyFrom(o, gave, q, i)
      BY <2>3, <2>4 DEF OnlyFrom, OneOfEach
    <3>2. i \in DOMAIN o.into
      BY DEF OneOfEach
    <3> QED BY <1>1, <3>1, <3>2, DeliveredFrom
  <2>6. i - o.place[q] = 1
    BY <2>1, <2>2
  <2> QED BY <2>1, <2>5, <2>6 DEF OneOfEach
<1>5. Counts(got) = Listed(told)
  BY <1>2, <1>4, CountsAre
<1> QED BY <1>1, <1>2, <1>3, <1>5

-----------------------------------------------------------------------------
(* The first of two collectives: what a rank remembers after it.           *)

LEMMA TextIs ==
    ASSUME NEW r \in Nat, NEW i \in Nat
    PROVE  Text(r, i) \in Strings
<1>1. (r + i) % 3 \in Nat /\ 10 * r + i \in Nat
  OBVIOUS
<1>2. PICK n \in Nat, x \in Nat : n = (r + i) % 3 /\ x = 10 * r + i
  BY <1>1
<1>3. [k \in 1 .. n |-> x] \in Seq(Nat)
  OBVIOUS
<1> QED BY <1>2, <1>3 DEF Text, Strings

LEMMA PackageIs ==
    ASSUME NEW r \in Nat, NEW n \in Nat
    PROVE  Package(r, n) \in Seq(Byte) /\ Len(Package(r, n)) \in Nat
<1>1. PICK vs : vs = [i \in 1 .. n |-> Text(r, i)]
  OBVIOUS
<1>2. \A i \in 1 .. n : Text(r, i) \in Serialized
  BY TextIs DEF Serialized
<1>3. vs \in Seq(Serialized)
  BY <1>1, <1>2
<1>4. SaveAll(vs) \in Seq(Byte)
  BY <1>3, SaveAllSteps
<1> QED BY <1>1, <1>4 DEF Package

\* The number that each rank tells the others first.
Packed == {"gather_package", "all_gather_package"}
Told(c) == [q \in Ranks |-> IF c.op \in Packed THEN Len(Package(q, c.n[q])) ELSE c.n[q]]

LEMMA CallableIs ==
    ASSUME NEW c, Callable(c)
    PROVE  /\ c.root \in Ranks /\ c.root \in Nat
           /\ \A r \in Ranks : c.n[r] \in Nat
           /\ c.n \in [Ranks -> Nat]
BY RanksAre DEF Callable

LEMMA ToldIs ==
    ASSUME NEW c, Callable(c)
    PROVE  /\ Told(c) \in [Ranks -> Nat]
           /\ c.op \notin Packed => Told(c) = c.n
           /\ \A q \in Ranks : c.op \in Packed => Told(c)[q] = Len(Package(q, c.n[q]))
<1>1. ASSUME NEW q \in Ranks
      PROVE  c.n[q] \in Nat /\ Len(Package(q, c.n[q])) \in Nat
  BY RanksAre, CallableIs, PackageIs
<1> QED BY <1>1, CallableIs DEF Told

TellAll == {"all_gather_package", "all_gatherv", "all_gatherv_output", "gatherv_told"}
TellRoot == {"gather_package", "scatterv_n_from"}

LEMMA TellingIs ==
    ASSUME NEW c, Callable(c), NEW r \in Ranks, NEW m, m.step = 1
    PROVE  /\ c.op \in TellAll =>
                  NextOperation(c, r, m)
                  = AllGather("allgather", <<<<Told(c)[r]>>>>, Ones, Steps(1), Blanks(Size))
           /\ c.op = "gather_package" =>
                  NextOperation(c, r, m)
                  = Gather("gather", r, c.root, <<<<Told(c)[r]>>>>, Ones, Steps(1),
                           Blanks(AtRoot(c, r, Size)))
           /\ c.op = "scatterv_n_from" =>
                  NextOperation(c, r, m)
                  = Gather("gather", r, c.root, <<<<Told(c)[r]>>>>, Ones, Steps(1),
                           [i \in 1 .. Size |-> <<0>>])
<1>1. c.op \in Packed => Told(c)[r] = Len(Package(r, c.n[r]))
  BY ToldIs
<1>2. c.op \notin Packed => Told(c)[r] = c.n[r]
  BY ToldIs
<1>3. CASE c.op = "all_gather_package"
  <2>1. NextOperation(c, r, m) = AllGatherPackage(c, r, m)
    BY <1>3, NextOperationIs
  <2>2. AllGatherPackage(c, r, m)
        = AllGather("allgather", <<<<Len(Package(r, c.n[r]))>>>>, Ones, Steps(1), Blanks(Size))
    BY Zenon DEF AllGatherPackage
  <2>3. Told(c)[r] = Len(Package(r, c.n[r]))
    BY <1>1, <1>2, <1>3 DEF Packed
  <2> QED BY <1>3, <2>1, <2>2, <2>3 DEF TellAll
<1>4. CASE c.op \in {"all_gatherv", "all_gatherv_output"}
  <2>1. NextOperation(c, r, m) = AllGatherv(c, r, m)
    BY <1>4, NextOperationIs
  <2>2. AllGatherv(c, r, m)
        = AllGather("allgather", <<<<c.n[r]>>>>, Ones, Steps(1), Blanks(Size))
    BY Zenon DEF AllGatherv
  <2>3. Told(c)[r] = c.n[r]
    BY <1>1, <1>2, <1>4 DEF Packed
  <2> QED BY <1>4, <2>1, <2>2, <2>3 DEF TellAll
<1>5. CASE c.op = "gatherv_told"
  <2>1. NextOperation(c, r, m) = GathervTold(c, r, m)
    BY <1>5, NextOperationIs
  <2>2. GathervTold(c, r, m)
        = AllGather("allgather", <<<<c.n[r]>>>>, Ones, Steps(1), Blanks(Size))
    BY Zenon DEF GathervTold
  <2>3. Told(c)[r] = c.n[r]
    BY <1>1, <1>2, <1>5 DEF Packed
  <2> QED BY <1>5, <2>1, <2>2, <2>3 DEF TellAll
<1>6. CASE c.op = "gather_package"
  <2>1. NextOperation(c, r, m) = GatherPackage(c, r, m)
    BY <1>6, NextOperationIs
  <2>2. GatherPackage(c, r, m)
        = Gather("gather", r, c.root, <<<<Len(Package(r, c.n[r]))>>>>, Ones, Steps(1),
                 Blanks(AtRoot(c, r, Size)))
    BY Zenon DEF GatherPackage
  <2>3. Told(c)[r] = Len(Package(r, c.n[r]))
    BY <1>1, <1>2, <1>6 DEF Packed
  <2> QED BY <1>6, <2>1, <2>2, <2>3 DEF TellAll
<1>7. CASE c.op = "scatterv_n_from"
  <2>1. NextOperation(c, r, m) = ScattervFrom(c, r, m)
    BY <1>7, NextOperationIs
  <2>2. ScattervFrom(c, r, m)
        = Gather("gather", r, c.root, <<<<c.n[r]>>>>, Ones, Steps(1),
                 [i \in 1 .. Size |-> <<0>>])
    BY Zenon DEF ScattervFrom
  <2>3. Told(c)[r] = c.n[r]
    BY <1>1, <1>2, <1>7 DEF Packed
  <2> QED BY <1>7, <2>1, <2>2, <2>3 DEF TellAll
<1> QED BY <1>3, <1>4, <1>5, <1>6, <1>7 DEF TellAll

LEMMA BegunIs ==
    ASSUME NEW c, NEW r \in Ranks
    PROVE  Begun(c)[r] = Start(c, r) /\ Begun(c)[r].step = 1
BY StartIs DEF Begun

\* The numbers are there, in the order of the ranks, where they are told.
LEMMA NumbersTold ==
    ASSUME NEW c, Callable(c), NEW r \in Ranks, NEW got, got = Exchanged(c, r, Begun(c)),
           c.op \in TellAll \/ (c.op \in TellRoot /\ r = c.root)
    PROVE  DOMAIN got = 1 .. Size /\ Len(got) = Size /\ Counts(got) = Listed(Told(c))
<1>1. PICK mine : mine = NextOperation(c, r, Begun(c)[r])
  OBVIOUS
<1>2. PICK gave : gave = [q \in DOMAIN mine.want |-> NextOperation(c, q, Begun(c)[q]).give[r]]
  OBVIOUS
<1>3. got = Delivered(mine, gave)
  BY <1>1, <1>2 DEF Exchanged
<1>4. Size \in Nat /\ \A q \in Ranks : q \in Nat /\ Ones[q + 1] = 1 /\ Steps(1)[q + 1] = q
  BY RanksAre DEF Ones, Steps
<1>5. mine.kind \notin Reductions /\ OneOfEach(mine, gave, Told(c))
  <2>1. CASE c.op \in TellAll
    <3>1. ASSUME NEW q \in Ranks
          PROVE  NextOperation(c, q, Begun(c)[q])
                 = AllGather("allgather", <<<<Told(c)[q]>>>>, Ones, Steps(1), Blanks(Size))
      BY <2>1, BegunIs, TellingIs
    <3>2. mine = AllGather("allgather", <<<<Told(c)[r]>>>>, Ones, Steps(1), Blanks(Size))
      BY <1>1, <3>1
    <3>3. /\ mine.kind = "allgather" /\ DOMAIN mine.want = Ranks /\ mine.into = Blanks(Size)
          /\ \A q \in Ranks : mine.place[q] = q
      BY <1>4, <3>2, AllGatherIs
    <3>4. ASSUME NEW q \in Ranks PROVE gave[q] = <<<<Told(c)[q]>>>>
      <4>1. gave[q] = NextOperation(c, q, Begun(c)[q]).give[r]
        BY <1>2, <3>3
      <4>2. PICK o : o = NextOperation(c, q, Begun(c)[q])
        OBVIOUS
      <4>3. o = AllGather("allgather", <<<<Told(c)[q]>>>>, Ones, Steps(1), Blanks(Size))
        BY <3>1, <4>2
      <4>4. o.give[r] = <<<<Told(c)[q]>>>>
        BY <4>3, AllGatherIs
      <4> QED BY <4>1, <4>2, <4>4
    <3>5. DOMAIN gave = Ranks /\ DOMAIN mine.into = 1 .. Size
      BY <1>2, <1>4, <3>3, ArraysAre
    <3> QED BY <3>3, <3>4, <3>5 DEF OneOfEach, Reductions
  <2>2. CASE c.op \in TellRoot /\ r = c.root
    <3>1. ASSUME NEW q \in Ranks
          PROVE  \E into : /\ NextOperation(c, q, Begun(c)[q])
                              = Gather("gather", q, c.root, <<<<Told(c)[q]>>>>, Ones, Steps(1), into)
                           /\ q = r => DOMAIN into = 1 .. Size
      <4>1. CASE c.op = "gather_package"
        <5>1. NextOperation(c, q, Begun(c)[q])
              = Gather("gather", q, c.root, <<<<Told(c)[q]>>>>, Ones, Steps(1), Blanks(AtRoot(c, q, Size)))
          BY <4>1, BegunIs, TellingIs
        <5>2. q = r => DOMAIN Blanks(AtRoot(c, q, Size)) = 1 .. Size
          BY <1>4, <2>2, ArraysAre DEF AtRoot
        <5> QED BY <5>1, <5>2
      <4>2. CASE c.op = "scatterv_n_from"
        <5>1. PICK into : into = [i \in 1 .. Size |-> <<0>>]
          OBVIOUS
        <5>2. NextOperation(c, q, Begun(c)[q])
              = Gather("gather", q, c.root, <<<<Told(c)[q]>>>>, Ones, Steps(1), into)
          BY <4>2, <5>1, BegunIs, TellingIs
        <5> QED BY <5>1, <5>2
      <4> QED BY <2>2, <4>1, <4>2 DEF TellRoot
    <3>2. PICK into : /\ mine = Gather("gather", r, c.root, <<<<Told(c)[r]>>>>, Ones, Steps(1), into)
                      /\ DOMAIN into = 1 .. Size
      BY <1>1, <3>1
    <3>3. /\ mine.kind = "gather" /\ DOMAIN mine.want = Ranks /\ mine.into = into
          /\ \A q \in Ranks : mine.place[q] = q
      BY <1>4, <2>2, <3>2, GatherIs
    <3>4. ASSUME NEW q \in Ranks PROVE gave[q] = <<<<Told(c)[q]>>>>
      <4>1. gave[q] = NextOperation(c, q, Begun(c)[q]).give[r]
        BY <1>2, <3>3
      <4>2. PICK o : o = NextOperation(c, q, Begun(c)[q])
        OBVIOUS
      <4>3. PICK put : o = Gather("gather", q, c.root, <<<<Told(c)[q]>>>>, Ones, Steps(1), put)
        BY <3>1, <4>2
      <4>4. o.give[r] = <<<<Told(c)[q]>>>>
        BY <2>2, <4>3, GatherIs
      <4> QED BY <4>1, <4>2, <4>4
    <3>5. DOMAIN gave = Ranks /\ DOMAIN mine.into = 1 .. Size
      BY <1>2, <3>2, <3>3
    <3> QED BY <3>3, <3>4, <3>5 DEF OneOfEach, Reductions
  <2> QED BY <2>1, <2>2
<1> QED BY <1>3, <1>5, ToldIs, NumbersTogether

\* The calls of which nothing is computed but the position they return.
PlainAfter(c, r) ==
    /\ c.op \notin OfTwoRounds \cup {"max_element", "scatter_list"}
    /\ c.op = "reduce_in_place" => r = c.root

LEMMA AfterOperationIs ==
    ASSUME NEW c, NEW r, NEW m, NEW got
    PROVE  /\ c.op = "broadcast_value" =>
                 AfterOperation(c, r, m, got) = BroadcastValueAfter(c, r, m, got)
           /\ c.op = "max_element" => AfterOperation(c, r, m, got) = MaxElementAfter(c, r, m, got)
           /\ c.op = "scatterv" => AfterOperation(c, r, m, got) = ScattervAfter(c, r, m, got)
           /\ c.op = "scatterv_n_from" =>
                 AfterOperation(c, r, m, got) = ScattervFromAfter(c, r, m, got)
           /\ c.op = "gather_package" =>
                 AfterOperation(c, r, m, got) = GatherPackageAfter(c, r, m, got)
           /\ c.op = "all_gather_package" =>
                 AfterOperation(c, r, m, got) = AllGatherPackageAfter(c, r, m, got)
           /\ c.op \in {"all_gatherv", "all_gatherv_output"} =>
                 AfterOperation(c, r, m, got) = AllGathervAfter(c, r, m, got)
           /\ c.op = "gatherv_told" =>
                 AfterOperation(c, r, m, got) = GathervToldAfter(c, r, m, got)
           /\ c.op = "reduce_in_place" /\ r # c.root =>
                 AfterOperation(c, r, m, got) = [m EXCEPT !.step = Done]
           /\ c.op = "scatter_list" =>
                 AfterOperation(c, r, m, got) = [m EXCEPT !.step = Done, !.out = got, !.end = 1, !.inside = ListHolds(c, r)]
           /\ PlainAfter(c, r) =>
                 AfterOperation(c, r, m, got) = [m EXCEPT !.step = Done, !.out = got, !.end = ReturnedEnd(c, r, m)]
<1>1. ASSUME c.op = "broadcast_value"
      PROVE AfterOperation(c, r, m, got) = BroadcastValueAfter(c, r, m, got)
  BY <1>1 DEF AfterOperation
<1>2. ASSUME c.op = "max_element"
      PROVE AfterOperation(c, r, m, got) = MaxElementAfter(c, r, m, got)
  BY <1>2 DEF AfterOperation
<1>3. ASSUME c.op = "scatterv"
      PROVE AfterOperation(c, r, m, got) = ScattervAfter(c, r, m, got)
  BY <1>3 DEF AfterOperation
<1>4. ASSUME c.op = "scatterv_n_from"
      PROVE AfterOperation(c, r, m, got) = ScattervFromAfter(c, r, m, got)
  BY <1>4 DEF AfterOperation
<1>5. ASSUME c.op = "gather_package"
      PROVE AfterOperation(c, r, m, got) = GatherPackageAfter(c, r, m, got)
  BY <1>5 DEF AfterOperation
<1>6. ASSUME c.op = "all_gather_package"
      PROVE AfterOperation(c, r, m, got) = AllGatherPackageAfter(c, r, m, got)
  BY <1>6 DEF AfterOperation
<1>7. ASSUME c.op \in {"all_gatherv", "all_gatherv_output"}
      PROVE AfterOperation(c, r, m, got) = AllGathervAfter(c, r, m, got)
  BY <1>7 DEF AfterOperation
<1>8. ASSUME c.op = "gatherv_told"
      PROVE AfterOperation(c, r, m, got) = GathervToldAfter(c, r, m, got)
  BY <1>8 DEF AfterOperation
<1>9. ASSUME c.op = "reduce_in_place" /\ r # c.root
      PROVE AfterOperation(c, r, m, got) = [m EXCEPT !.step = Done]
  BY <1>9 DEF AfterOperation
<1>10. ASSUME c.op = "scatter_list"
      PROVE AfterOperation(c, r, m, got) = [m EXCEPT !.step = Done, !.out = got, !.end = 1, !.inside = ListHolds(c, r)]
  BY <1>10 DEF AfterOperation
<1>11. ASSUME PlainAfter(c, r)
      PROVE AfterOperation(c, r, m, got) = [m EXCEPT !.step = Done, !.out = got, !.end = ReturnedEnd(c, r, m)]
  BY <1>11 DEF AfterOperation, PlainAfter, OfTwoRounds
<1> QED BY <1>1, <1>2, <1>3, <1>4, <1>5, <1>6, <1>7, <1>8, <1>9, <1>10, <1>11

\* A memory is changed part by part.
IsMemory(m) ==
    m = [step |-> m.step, sizes |-> m.sizes, displs |-> m.displs, out |-> m.out, end |-> m.end,
         inside |-> m.inside]

LEMMA StartIsMemory ==
    ASSUME NEW c, NEW r
    PROVE  IsMemory(Start(c, r))
<1>1. PICK a : Start(c, r) = Memory(a)
  BY StartIs
<1> QED BY <1>1 DEF IsMemory, Memory

LEMMA MemoryChanges ==
    ASSUME NEW m, IsMemory(m), NEW a, NEW b, NEW d, NEW e, NEW f
    PROVE  /\ LET n == [m EXCEPT !.step = a, !.sizes = b, !.displs = d]
              IN  n.step = a /\ n.sizes = b /\ n.displs = d /\ n.out = m.out /\ n.inside = m.inside /\ n.end = m.end
           /\ LET n == [m EXCEPT !.step = a, !.sizes = b, !.displs = d, !.inside = e]
              IN  n.step = a /\ n.sizes = b /\ n.displs = d /\ n.out = m.out /\ n.inside = e
           /\ LET n == [m EXCEPT !.step = a, !.sizes = b, !.out = d]
              IN  n.step = a /\ n.sizes = b /\ n.out = d /\ n.inside = m.inside /\ n.end = m.end
           /\ LET n == [m EXCEPT !.step = a, !.sizes = b, !.inside = d]
              IN  n.step = a /\ n.sizes = b /\ n.out = m.out /\ n.inside = d
           /\ LET n == [m EXCEPT !.step = a, !.out = b, !.end = d]
              IN  n.step = a /\ n.out = b /\ n.end = d /\ n.inside = m.inside
           /\ LET n == [m EXCEPT !.step = a, !.out = b]
              IN  n.step = a /\ n.out = b /\ n.inside = m.inside /\ n.end = m.end
           /\ LET n == [m EXCEPT !.step = a, !.out = b, !.end = d, !.inside = e]
              IN  n.step = a /\ n.out = b /\ n.end = d /\ n.inside = e
           /\ LET n == [m EXCEPT !.step = a]
              IN  n.step = a /\ n.out = m.out /\ n.end = m.end /\ n.inside = m.inside
BY DEF IsMemory

\* The displacements that are computed of the numbers, for displs of a length.
Room(c) == IF c.op \in {"all_gather_package", "scatterv_n_from"} THEN Size ELSE Size + 1

LEMMA GoingOn ==
    ASSUME NEW c, NEW r \in Ranks
    PROVE  Going(c)[r] = AfterOperation(c, r, Start(c, r), Exchanged(c, r, Begun(c)))
BY DEF Going

\* What is remembered of the numbers that were told.
LEMMA GoingTold ==
    ASSUME NEW c, Callable(c), NEW r \in Ranks, NEW g, g = Going(c)[r], c.op \in TellAll \cup TellRoot
    PROVE  /\ g.step = 2 /\ g.out = Start(c, r).out
           /\ g.inside = (c.op \notin {"all_gather_package", "scatterv_n_from"})
           /\ c.op \in TellAll \/ r = c.root =>
                 g.sizes = Listed(Told(c)) /\ g.displs = PartialSums(Listed(Told(c)), Room(c))
<1>1. PICK m : m = Start(c, r)
  OBVIOUS
<1>2. PICK got : got = Exchanged(c, r, Begun(c))
  OBVIOUS
<1>3. IsMemory(m) /\ m.step = 1 /\ m.inside = TRUE
  BY <1>1, StartIs, StartIsMemory
<1>4. g = AfterOperation(c, r, m, got)
  BY <1>1, <1>2, GoingOn
<1>5. c.op \in TellAll \/ r = c.root => Len(got) = Size /\ Counts(got) = Listed(Told(c))
  BY <1>2, NumbersTold
<1> DEFINE Kept(room, in) == /\ g.step = 2 /\ g.out = m.out /\ g.inside = in
                             /\ g.sizes = Counts(got) /\ g.displs = PartialSums(Counts(got), room)
<1>6. CASE c.op = "gather_package"
  <2>1. AfterOperation(c, r, m, got) = GatherPackageAfter(c, r, m, got)
    BY <1>6 DEF AfterOperation
  <2>2. GatherPackageAfter(c, r, m, got)
        = [m EXCEPT !.step = 2, !.sizes = Counts(got), !.displs = PartialSums(Counts(got), Len(got) + 1)]
    BY Zenon, <1>3 DEF GatherPackageAfter
  <2>3. Kept(Len(got) + 1, TRUE)
    BY <1>3, <1>4, <2>1, <2>2, MemoryChanges
  <2>4. c.op \in TellAll \/ r = c.root => Len(got) + 1 = Room(c)
    BY <1>5, <1>6 DEF Room
  <2> QED BY <1>1, <1>5, <1>6, <2>3, <2>4
<1>7. CASE c.op = "all_gather_package"
  <2>1. AfterOperation(c, r, m, got) = AllGatherPackageAfter(c, r, m, got)
    BY <1>7 DEF AfterOperation
  <2>2. AllGatherPackageAfter(c, r, m, got)
        = [m EXCEPT !.step = 2, !.sizes = Counts(got), !.displs = PartialSums(Counts(got), Size), !.inside = FALSE]
    BY Zenon, <1>3 DEF AllGatherPackageAfter
  <2>3. Kept(Size, FALSE)
    BY <1>3, <1>4, <2>1, <2>2, MemoryChanges
  <2>4. c.op \in TellAll \/ r = c.root => Size = Room(c)
    BY <1>5, <1>7 DEF Room
  <2> QED BY <1>1, <1>5, <1>7, <2>3, <2>4
<1>8. CASE c.op \in {"all_gatherv", "all_gatherv_output"}
  <2>1. AfterOperation(c, r, m, got) = AllGathervAfter(c, r, m, got)
    BY <1>8 DEF AfterOperation
  <2>2. AllGathervAfter(c, r, m, got)
        = [m EXCEPT !.step = 2, !.sizes = Counts(got), !.displs = PartialSums(Counts(got), Size + 1)]
    BY Zenon, <1>3 DEF AllGathervAfter
  <2>3. Kept(Size + 1, TRUE)
    BY <1>3, <1>4, <2>1, <2>2, MemoryChanges
  <2>4. c.op \in TellAll \/ r = c.root => Size + 1 = Room(c)
    BY <1>5, <1>8 DEF Room
  <2> QED BY <1>1, <1>5, <1>8, <2>3, <2>4
<1>9. CASE c.op = "gatherv_told"
  <2>1. AfterOperation(c, r, m, got) = GathervToldAfter(c, r, m, got)
    BY <1>9 DEF AfterOperation
  <2>2. GathervToldAfter(c, r, m, got)
        = [m EXCEPT !.step = 2, !.sizes = Counts(got), !.displs = PartialSums(Counts(got), Size + 1)]
    BY Zenon, <1>3 DEF GathervToldAfter
  <2>3. Kept(Size + 1, TRUE)
    BY <1>3, <1>4, <2>1, <2>2, MemoryChanges
  <2>4. c.op \in TellAll \/ r = c.root => Size + 1 = Room(c)
    BY <1>5, <1>9 DEF Room
  <2> QED BY <1>1, <1>5, <1>9, <2>3, <2>4
<1>10. CASE c.op = "scatterv_n_from"
  <2>1. AfterOperation(c, r, m, got) = ScattervFromAfter(c, r, m, got)
    BY <1>10 DEF AfterOperation
  <2>2. ScattervFromAfter(c, r, m, got)
        = [m EXCEPT !.step = 2, !.sizes = Counts(got), !.displs = PartialSums(Counts(got), Size), !.inside = FALSE]
    BY Zenon, <1>3 DEF ScattervFromAfter
  <2>3. Kept(Size, FALSE)
    BY <1>3, <1>4, <2>1, <2>2, MemoryChanges
  <2>4. c.op \in TellAll \/ r = c.root => Size = Room(c)
    BY <1>5, <1>10 DEF Room
  <2> QED BY <1>1, <1>5, <1>10, <2>3, <2>4
<1> QED BY <1>6, <1>7, <1>8, <1>9, <1>10 DEF TellAll, TellRoot

\* What a rank is brought, from what the others give it.
LEMMA ExchangedIs ==
    ASSUME NEW c, NEW r, NEW mems, NEW mine, mine = NextOperation(c, r, mems[r])
    PROVE  \E gave : /\ Exchanged(c, r, mems) = Delivered(mine, gave)
                     /\ DOMAIN gave = DOMAIN mine.want
                     /\ \A q \in DOMAIN mine.want : gave[q] = NextOperation(c, q, mems[q]).give[r]
<1>1. PICK gave : gave = [q \in DOMAIN mine.want |-> NextOperation(c, q, mems[q]).give[r]]
  OBVIOUS
<1>2. Exchanged(c, r, mems) = Delivered(mine, gave)
  BY <1>1 DEF Exchanged
<1>3. DOMAIN gave = DOMAIN mine.want
  BY <1>1
<1>4. \A q \in DOMAIN mine.want : gave[q] = NextOperation(c, q, mems[q]).give[r]
  BY <1>1
<1> QED BY Zenon, <1>2, <1>3, <1>4

\* One rank sends all of it, or nothing is sent.
FromOne(o, gave, q, n) ==
    /\ o.kind \notin Reductions /\ DOMAIN o.into = 1 .. n
    /\ DOMAIN gave = {q} /\ o.place[q] = 0 /\ Len(gave[q]) = n
FromNone(o, gave) == o.kind \notin Reductions /\ DOMAIN gave = {}

LEMMA AllFromOne ==
    ASSUME NEW o, NEW gave, NEW q, NEW n \in Nat, FromOne(o, gave, q, n)
    PROVE  /\ Delivered(o, gave) = [i \in 1 .. n |-> Delivered(o, gave)[i]]
           /\ \A i \in 1 .. n : Delivered(o, gave)[i] = gave[q][i]
<1>1. PICK got : got = Delivered(o, gave)
  OBVIOUS
<1>2. DOMAIN got = 1 .. n /\ got = [i \in DOMAIN got |-> got[i]]
  BY <1>1, DeliveredDomain DEF FromOne
<1>3. ASSUME NEW i \in 1 .. n PROVE got[i] = gave[q][i]
  <2>1. OnlyFrom(o, gave, q, i)
    BY DEF OnlyFrom, Covers, FromOne
  <2>2. got[i] = gave[q][i - o.place[q]]
    BY <1>1, <2>1, DeliveredFrom DEF FromOne
  <2>3. i - o.place[q] = i
    BY DEF FromOne
  <2> QED BY <2>2, <2>3
<1>4. got = [i \in 1 .. n |-> got[i]]
  BY Zenon, <1>2
<1> QED BY <1>1, <1>3, <1>4

LEMMA NothingSent ==
    ASSUME NEW o, NEW gave, FromNone(o, gave)
    PROVE  /\ Delivered(o, gave) = [i \in DOMAIN o.into |-> Delivered(o, gave)[i]]
           /\ \A i \in DOMAIN o.into : Delivered(o, gave)[i] = o.into[i]
<1>1. PICK got : got = Delivered(o, gave)
  OBVIOUS
<1>2. DOMAIN got = DOMAIN o.into /\ got = [i \in DOMAIN got |-> got[i]]
  BY <1>1, DeliveredDomain DEF FromNone
<1>3. ASSUME NEW i \in DOMAIN o.into PROVE got[i] = o.into[i]
  <2>1. \A p \in DOMAIN gave : ~Covers(o, gave, p, i)
    BY DEF FromNone
  <2> QED BY <1>1, <2>1, DeliveredNone DEF FromNone
<1>4. got = [i \in DOMAIN o.into |-> got[i]]
  BY Zenon, <1>2
<1> QED BY <1>1, <1>3, <1>4

\* broadcast_value: every rank is told how many values the root has.
LEMMA SizeBroadcast ==
    ASSUME NEW c, Callable(c), NEW r \in Ranks, NEW got, got = Exchanged(c, r, Begun(c)),
           c.op = "broadcast_value"
    PROVE  got[1] = <<c.n[c.root]>> /\ Counts(got)[1] = c.n[c.root]
<1>1. ASSUME NEW q \in Ranks
      PROVE  NextOperation(c, q, Begun(c)[q]) = Bcast("bcast", q, c.root, <<<<c.n[q]>>>>, 1)
  <2>1. PICK m : m = Begun(c)[q]
    OBVIOUS
  <2>2. m.step = 1 /\ m.out = Own(q, c.n[q])
    BY <2>1, BegunIs, StartOut
  <2>3. Len(m.out) = c.n[q]
    <3>1. c.n[q] \in Nat
      BY CallableIs
    <3> QED BY <2>2, <3>1, ArraysAre
  <2>4. BroadcastValue(c, q, m) = Bcast("bcast", q, c.root, <<<<Len(m.out)>>>>, 1)
    BY Zenon, <2>2 DEF BroadcastValue
  <2>5. NextOperation(c, q, m) = BroadcastValue(c, q, m)
    BY NextOperationIs
  <2> QED BY <2>1, <2>3, <2>4, <2>5
<1>2. PICK mine : mine = NextOperation(c, r, Begun(c)[r])
  OBVIOUS
<1>3. PICK gave : /\ got = Delivered(mine, gave) /\ DOMAIN gave = DOMAIN mine.want
                  /\ \A q \in DOMAIN mine.want : gave[q] = NextOperation(c, q, Begun(c)[q]).give[r]
  BY <1>2, ExchangedIs
<1>4. mine = Bcast("bcast", r, c.root, <<<<c.n[r]>>>>, 1)
  BY <1>1, <1>2
<1>5. mine.kind = "bcast" /\ mine.into = <<<<c.n[r]>>>> /\ mine.kind \notin Reductions
  BY <1>4, BcastIs DEF Reductions
<1>6. DOMAIN mine.into = 1 .. 1 /\ 1 \in DOMAIN mine.into
  BY <1>5
<1>7. got[1] = <<c.n[c.root]>> /\ got = [i \in 1 .. 1 |-> got[i]]
  <2>1. CASE r = c.root
    <3>1. DOMAIN mine.want = {}
      BY <1>4, <2>1, BcastIs
    <3>2. FromNone(mine, gave)
      BY <1>3, <1>5, <3>1 DEF FromNone
    <3>3. got = [i \in DOMAIN mine.into |-> got[i]] /\ got[1] = mine.into[1]
      BY <1>3, <1>6, <3>2, NothingSent
    <3> QED BY <1>5, <1>6, <2>1, <3>3
  <2>2. CASE r # c.root
    <3>1. c.root \in Ranks
      BY CallableIs
    <3>2. DOMAIN mine.want = {c.root} /\ mine.place[c.root] = 0
      BY <1>4, <2>2, BcastIs
    <3>3. PICK o : o = NextOperation(c, c.root, Begun(c)[c.root])
      OBVIOUS
    <3>4. o = Bcast("bcast", c.root, c.root, <<<<c.n[c.root]>>>>, 1)
      BY <1>1, <3>1, <3>3
    <3>5. gave[c.root] = Slice(<<<<c.n[c.root]>>>>, 0, 1)
      <4>1. o.give[r] = Slice(<<<<c.n[c.root]>>>>, 0, 1)
        BY <2>2, <3>4, BcastIs
      <4> QED BY <1>3, <3>2, <3>3, <4>1
    <3>6. Len(gave[c.root]) = 1 /\ gave[c.root][1] = <<c.n[c.root]>>
      BY <3>5 DEF Slice
    <3>7. FromOne(mine, gave, c.root, 1)
      BY <1>3, <1>5, <1>6, <3>2, <3>6 DEF FromOne
    <3>8. got = [i \in 1 .. 1 |-> got[i]] /\ got[1] = gave[c.root][1]
      <4>1. PICK n \in Nat : n = 1 /\ 1 \in 1 .. n
        OBVIOUS
      <4>2. FromOne(mine, gave, c.root, n)
        BY <3>7, <4>1
      <4>3. /\ Delivered(mine, gave) = [i \in 1 .. n |-> Delivered(mine, gave)[i]]
            /\ \A i \in 1 .. n : Delivered(mine, gave)[i] = gave[c.root][i]
        BY <4>2, AllFromOne
      <4>4. got = [i \in 1 .. n |-> got[i]] /\ \A i \in 1 .. n : got[i] = gave[c.root][i]
        BY Zenon, <1>3, <4>3
      <4> QED BY <4>1, <4>4
    <3> QED BY <3>6, <3>8
  <2> QED BY <2>1, <2>2
<1>8. Counts(got)[1] = c.n[c.root]
  BY <1>7 DEF Counts
<1> QED BY <1>7, <1>8

LEMMA BroadcastGoing ==
    ASSUME NEW c, Callable(c), NEW r \in Ranks, NEW g, g = Going(c)[r], c.op = "broadcast_value"
    PROVE  /\ g.step = 2 /\ g.inside = TRUE /\ g.sizes[1] = c.n[c.root]
           /\ g.out = Resized(Own(r, c.n[r]), c.n[c.root])
<1>1. PICK m : m = Start(c, r)
  OBVIOUS
<1>2. PICK got : got = Exchanged(c, r, Begun(c))
  OBVIOUS
<1>3. IsMemory(m) /\ m.step = 1 /\ m.inside = TRUE /\ m.out = Own(r, c.n[r])
  BY <1>1, StartIs, StartIsMemory, StartOut
<1>4. g = AfterOperation(c, r, m, got)
  BY <1>1, <1>2, GoingOn
<1>5. got[1] = <<c.n[c.root]>> /\ Counts(got)[1] = c.n[c.root] /\ got[1][1] = c.n[c.root]
  <2>1. got[1] = <<c.n[c.root]>> /\ Counts(got)[1] = c.n[c.root]
    BY <1>2, SizeBroadcast
  <2> QED BY <2>1
<1>6. AfterOperation(c, r, m, got) = BroadcastValueAfter(c, r, m, got)
  BY DEF AfterOperation
<1>7. BroadcastValueAfter(c, r, m, got)
      = [m EXCEPT !.step = 2, !.sizes = Counts(got), !.out = Resized(m.out, got[1][1])]
  BY Zenon, <1>3 DEF BroadcastValueAfter
<1>8. /\ g.step = 2 /\ g.sizes = Counts(got) /\ g.out = Resized(m.out, got[1][1])
      /\ g.inside = m.inside
  BY <1>3, <1>4, <1>6, <1>7, MemoryChanges
<1> QED BY <1>3, <1>5, <1>8

\* scatterv: every rank is told how many values it gets.
LEMMA SizesScatter ==
    ASSUME NEW c, Callable(c), NEW r \in Ranks, NEW got, got = Exchanged(c, r, Begun(c)),
           c.op = "scatterv"
    PROVE  Counts(got)[1] = c.n[r]
<1>0. c.root = 0 /\ 0 \in Ranks /\ r \in Nat /\ r + 1 \in 1 .. Size /\ (r + 1) - 1 = r
  BY RanksAre DEF Callable
<1>1. PICK n \in Nat : n = 1 /\ 1 \in 1 .. n
  OBVIOUS
<1>2. PICK a : a = [i \in 1 .. Size |-> <<c.n[i - 1]>>]
  OBVIOUS
<1>3. PICK mine : mine = NextOperation(c, r, Begun(c)[r])
  OBVIOUS
<1>4. PICK gave : /\ got = Delivered(mine, gave) /\ DOMAIN gave = DOMAIN mine.want
                  /\ \A q \in DOMAIN mine.want : gave[q] = NextOperation(c, q, Begun(c)[q]).give[r]
  BY <1>3, ExchangedIs
<1>5. ASSUME NEW q \in Ranks
      PROVE  \E all : /\ NextOperation(c, q, Begun(c)[q])
                         = Scatter("scatter", q, 0, all, Ones, Steps(1), 1, Blanks(1))
                      /\ q = 0 => all = a
  <2>1. PICK m : m = Begun(c)[q]
    OBVIOUS
  <2>2. m.step = 1
    BY <2>1, BegunIs
  <2>3. NextOperation(c, q, m) = Scatterv(c, q, m)
    BY NextOperationIs
  <2>4. PICK all : all = IF q = c.root THEN [i \in 1 .. Size |-> <<c.n[i - 1]>>] ELSE <<>>
    OBVIOUS
  <2>5. Scatterv(c, q, m) = Scatter("scatter", q, 0, all, Ones, Steps(1), 1, Blanks(1))
    BY Zenon, <2>2, <2>4 DEF Scatterv
  <2>6. q = 0 => all = a
    BY <1>0, <1>2, <2>4
  <2> QED BY <2>1, <2>3, <2>5, <2>6
<1>6. mine.kind \notin Reductions /\ mine.into = Blanks(1) /\ DOMAIN mine.want = {0} /\ mine.place[0] = 0
  <2>1. PICK all : mine = Scatter("scatter", r, 0, all, Ones, Steps(1), 1, Blanks(1))
    BY <1>3, <1>5
  <2>2. mine.kind = "scatter" /\ mine.into = Blanks(1) /\ DOMAIN mine.want = {0} /\ mine.place[0] = 0
    BY <2>1, ScatterIs
  <2> QED BY <2>2 DEF Reductions
<1>7. gave[0] = Slice(a, r, 1)
  <2>1. PICK o : o = NextOperation(c, 0, Begun(c)[0])
    OBVIOUS
  <2>2. o = Scatter("scatter", 0, 0, a, Ones, Steps(1), 1, Blanks(1))
    BY <1>0, <1>5, <2>1
  <2>3. o.give[r] = Slice(a, Steps(1)[r + 1], Ones[r + 1])
    BY <2>2, ScatterIs
  <2>4. Steps(1)[r + 1] = r /\ Ones[r + 1] = 1
    BY <1>0 DEF Steps, Ones
  <2> QED BY <1>4, <1>6, <2>1, <2>3, <2>4
<1>8. Len(gave[0]) = n /\ gave[0][1] = <<c.n[r]>>
  <2>1. Len(Slice(a, r, n)) = n
    BY <1>0, SliceIs
  <2>2. Len(a) = Size /\ a[r + 1] = <<c.n[r]>>
    BY <1>0, <1>2, RanksAre
  <2>3. Slice(a, r, n)[1] = IF r + 1 <= Len(a) THEN a[r + 1] ELSE Outside
    BY <1>1 DEF Slice
  <2>4. r + 1 <= Size
    BY <1>0, RanksAre
  <2> QED BY <1>1, <1>7, <2>1, <2>2, <2>3, <2>4
<1>9. FromOne(mine, gave, 0, n)
  <2>1. DOMAIN mine.into = 1 .. n
    BY <1>1, <1>6, ArraysAre
  <2> QED BY <1>4, <1>6, <1>8, <2>1 DEF FromOne
<1>10. got = [i \in 1 .. n |-> got[i]] /\ \A i \in 1 .. n : got[i] = gave[0][i]
  <2>1. /\ Delivered(mine, gave) = [i \in 1 .. n |-> Delivered(mine, gave)[i]]
        /\ \A i \in 1 .. n : Delivered(mine, gave)[i] = gave[0][i]
    BY <1>9, AllFromOne
  <2> QED BY Zenon, <1>4, <2>1
<1>11. 1 \in DOMAIN got /\ got[1] = <<c.n[r]>> /\ got[1][1] = c.n[r]
  BY <1>1, <1>8, <1>10
<1> QED BY <1>11 DEF Counts

LEMMA ScattervGoing ==
    ASSUME NEW c, Callable(c), NEW r \in Ranks, NEW g, g = Going(c)[r], c.op = "scatterv"
    PROVE  /\ g.step = 2 /\ g.inside = (r = 0) /\ g.sizes[1] = c.n[r]
           /\ g.out = <<>>
<1>1. PICK m : m = Start(c, r)
  OBVIOUS
<1>2. PICK got : got = Exchanged(c, r, Begun(c))
  OBVIOUS
<1>3. IsMemory(m) /\ m.step = 1 /\ m.out = <<>>
  BY <1>1, StartIs, StartIsMemory, StartOut
<1>4. g = AfterOperation(c, r, m, got)
  BY <1>1, <1>2, GoingOn
<1>5. Counts(got)[1] = c.n[r]
  BY <1>2, SizesScatter
<1>6. AfterOperation(c, r, m, got) = ScattervAfter(c, r, m, got)
  BY DEF AfterOperation
<1>7. ScattervAfter(c, r, m, got) = [m EXCEPT !.step = 2, !.sizes = Counts(got), !.inside = (r = c.root)]
  BY Zenon, <1>3 DEF ScattervAfter
<1>8. g.step = 2 /\ g.sizes = Counts(got) /\ g.out = m.out /\ g.inside = (r = c.root)
  BY <1>3, <1>4, <1>6, <1>7, MemoryChanges
<1>9. c.root = 0
  BY DEF Callable
<1> QED BY <1>3, <1>5, <1>8, <1>9

\* A call of two collectives is at the second after the first.
LEMMA GoingSteps ==
    ASSUME NEW c, Callable(c), NEW r \in Ranks, c.op \in OfTwoRounds
    PROVE  Going(c)[r].step = 2
<1>1. c.op \in TellAll \cup TellRoot \/ c.op = "broadcast_value" \/ c.op = "scatterv"
  BY DEF OfTwoRounds, TellAll, TellRoot
<1>2. PICK g : g = Going(c)[r]
  OBVIOUS
<1>3. CASE c.op \in TellAll \cup TellRoot
  BY <1>2, <1>3, GoingTold
<1>4. CASE c.op = "broadcast_value"
  BY <1>2, <1>4, BroadcastGoing
<1>5. CASE c.op = "scatterv"
  BY <1>2, <1>5, ScattervGoing
<1> QED BY <1>1, <1>2, <1>3, <1>4, <1>5

LEMMA CollectiveIs ==
    ASSUME NEW c, NEW r \in Ranks
    PROVE  /\ Collective(c, r, 1) = NextOperation(c, r, Start(c, r))
           /\ Collective(c, r, 2) = NextOperation(c, r, Going(c)[r])
<1>1. Recalled(c, 1) = Begun(c) /\ Recalled(c, 2) = Going(c)
  BY DEF Recalled
<1> QED BY <1>1, BegunIs DEF Collective

\* The calls of one collective.
LEMMA FormsOfOne ==
    ASSUME NEW c, Callable(c), NEW r \in Ranks, NEW o, o = Collective(c, r, 1)
    PROVE  /\ c.op = "barrier" =>
                  o = Barrier
           /\ c.op = "broadcast" =>
                  o = Bcast("bcast", r, c.root, Own(r, c.n[r]), c.n[r])
           /\ c.op = "ibroadcast" =>
                  o = Bcast("ibcast", r, c.root, Own(r, c.n[r]), c.n[r])
           /\ c.op = "reduce" =>
                  o = Reduce(r, c.root, Own(r, c.n[r]), Blanks(c.n[r]))
           /\ c.op = "reduce_in_place" =>
                  o = Reduce(r, c.root, Own(r, c.n[r]), IF r = c.root THEN Own(r, c.n[r]) ELSE <<>>)
           /\ c.op = "all_reduce" =>
                  o = Allreduce("allreduce", Own(r, c.n[r]), Blanks(c.n[r]))
           /\ c.op = "all_reduce_in_place" =>
                  o = Allreduce("allreduce", Own(r, c.n[r]), Own(r, c.n[r]))
           /\ c.op = "reduce_value" =>
                  o = Reduce(r, c.root, Own(r, 1), Blanks(1))
           /\ c.op = "all_reduce_value" =>
                  o = Allreduce("allreduce", Own(r, 1), Blanks(1))
           /\ c.op \in {"max", "min"} =>
                  o = Allreduce(c.op, <<<<c.n[r]>>>>, Blanks(1))
           /\ c.op \in {"and", "or"} =>
                  o = Allreduce(c.op, <<<<IF c.n[r] > 0 THEN 1 ELSE 0>>>>, Blanks(1))
           /\ c.op \in {"max_element", "max_location", "max_location_other"} =>
                  o = Allreduce(Located(c), <<<<c.n[r], r>>>>, Blanks(1))
           /\ c.op = "gather" =>
                  o = Gather("gather", r, c.root, Own(r, c.n[r]), Each(c.n[r]), Steps(c.n[r]),
                           Blanks(AtRoot(c, r, Size * c.n[r])))
           /\ c.op = "igather" =>
                  o = Gather("igather", r, c.root, Own(r, c.n[r]), Each(c.n[r]), Steps(c.n[r]),
                           Blanks(AtRoot(c, r, Size * c.n[r])))
           /\ c.op = "gather_value" =>
                  o = Gather("gather", r, c.root, Own(r, 1), Ones, Steps(1), Blanks(AtRoot(c, r, Size)))
           /\ c.op = "all_gather_value" =>
                  o = AllGather("allgather", Own(r, 1), Ones, Steps(1), Blanks(Size))
           /\ c.op = "gatherv" =>
                  o = Gather("gatherv", r, c.root, Own(r, c.n[r]), Sizes(c), PartialSums(Sizes(c), Size),
                           Blanks(AtRoot(c, r, Total(Sizes(c)))))
           /\ c.op = "all_gather" =>
                  o = AllGather("allgather", Own(r, c.n[r]), Each(c.n[r]), Steps(c.n[r]), Blanks(Size * c.n[r]))
           /\ c.op = "iall_gather" =>
                  o = AllGather("iallgather", Own(r, c.n[r]), Each(c.n[r]), Steps(c.n[r]), Blanks(Size * c.n[r]))
           /\ c.op = "all_to_all_n" =>
                  o = Alltoall(Own(r, Size * c.n[r]), c.n[r], Blanks(Size * c.n[r]))
           /\ c.op = "all_to_all_in_place" =>
                  o = Alltoall(Own(r, Size * c.n[r]), c.n[r], Own(r, Size * c.n[r]))
           /\ c.op = "all_to_all" =>
                  o = Alltoall(Own(r, c.n[r]), Size, Blanks(Size))
<1>1. PICK m : m = Start(c, r)
  OBVIOUS
<1>2. o = NextOperation(c, r, m)
  BY <1>1, CollectiveIs
<1>3. ASSUME c.op = "barrier" PROVE o = Barrier
  BY <1>2, <1>3, NextOperationIs
<1>4. ASSUME c.op = "broadcast" PROVE o = Bcast("bcast", r, c.root, Own(r, c.n[r]), c.n[r])
  <2>1. o = BroadcastN(c, r, m)
    BY <1>2, <1>4, NextOperationIs
  <2>2. BroadcastN(c, r, m) = Bcast("bcast", r, c.root, Own(r, c.n[r]), c.n[r])
    <3>1. m.out = Own(r, c.n[r])
      BY <1>1, <1>4, StartOut
    <3>2. Len(m.out) = c.n[r]
      BY <3>1, CallableIs, ArraysAre
    <3> QED BY <1>4, <3>1, <3>2 DEF BroadcastN, Immediate
  <2> QED BY <2>1, <2>2
<1>5. ASSUME c.op = "ibroadcast" PROVE o = Bcast("ibcast", r, c.root, Own(r, c.n[r]), c.n[r])
  <2>1. o = BroadcastN(c, r, m)
    BY <1>2, <1>5, NextOperationIs
  <2>2. BroadcastN(c, r, m) = Bcast("ibcast", r, c.root, Own(r, c.n[r]), c.n[r])
    <3>1. m.out = Own(r, c.n[r])
      BY <1>1, <1>5, StartOut
    <3>2. Len(m.out) = c.n[r]
      BY <3>1, CallableIs, ArraysAre
    <3> QED BY <1>5, <3>1, <3>2 DEF BroadcastN, Immediate
  <2> QED BY <2>1, <2>2
<1>6. ASSUME c.op = "reduce" PROVE o = Reduce(r, c.root, Own(r, c.n[r]), Blanks(c.n[r]))
  <2>1. o = ReduceN(c, r, m)
    BY <1>2, <1>6, NextOperationIs
  <2>2. ReduceN(c, r, m) = Reduce(r, c.root, Own(r, c.n[r]), Blanks(c.n[r]))
    <3>1. m.out = Blanks(c.n[r])
      BY <1>1, <1>6, StartOut
    <3> QED BY <1>6, <3>1 DEF ReduceN
  <2> QED BY <2>1, <2>2
<1>7. ASSUME c.op = "reduce_in_place" PROVE o = Reduce(r, c.root, Own(r, c.n[r]), IF r = c.root THEN Own(r, c.n[r]) ELSE <<>>)
  <2>1. o = ReduceN(c, r, m)
    BY <1>2, <1>7, NextOperationIs
  <2>2. ReduceN(c, r, m) = Reduce(r, c.root, Own(r, c.n[r]), IF r = c.root THEN Own(r, c.n[r]) ELSE <<>>)
    <3>1. m.out = Own(r, c.n[r])
      BY <1>1, <1>7, StartOut
    <3> QED BY <1>7, <3>1 DEF ReduceN
  <2> QED BY <2>1, <2>2
<1>8. ASSUME c.op = "all_reduce" PROVE o = Allreduce("allreduce", Own(r, c.n[r]), Blanks(c.n[r]))
  <2>1. o = AllReduceN(c, r, m)
    BY <1>2, <1>8, NextOperationIs
  <2>2. AllReduceN(c, r, m) = Allreduce("allreduce", Own(r, c.n[r]), Blanks(c.n[r]))
    <3>1. m.out = Blanks(c.n[r])
      BY <1>1, <1>8, StartOut
    <3> QED BY <1>8, <3>1 DEF AllReduceN
  <2> QED BY <2>1, <2>2
<1>9. ASSUME c.op = "all_reduce_in_place" PROVE o = Allreduce("allreduce", Own(r, c.n[r]), Own(r, c.n[r]))
  <2>1. o = AllReduceN(c, r, m)
    BY <1>2, <1>9, NextOperationIs
  <2>2. AllReduceN(c, r, m) = Allreduce("allreduce", Own(r, c.n[r]), Own(r, c.n[r]))
    <3>1. m.out = Own(r, c.n[r])
      BY <1>1, <1>9, StartOut
    <3> QED BY <1>9, <3>1 DEF AllReduceN
  <2> QED BY <2>1, <2>2
<1>10. ASSUME c.op = "reduce_value" PROVE o = Reduce(r, c.root, Own(r, 1), Blanks(1))
  <2>1. o = ReduceValue(c, r, m)
    BY <1>2, <1>10, NextOperationIs
  <2>2. ReduceValue(c, r, m) = Reduce(r, c.root, Own(r, 1), Blanks(1))
    <3>1. m.out = Blanks(1)
      BY <1>1, <1>10, StartOut
    <3> QED BY <1>10, <3>1 DEF ReduceValue
  <2> QED BY <2>1, <2>2
<1>11. ASSUME c.op = "all_reduce_value" PROVE o = Allreduce("allreduce", Own(r, 1), Blanks(1))
  <2>1. o = AllReduceValue(c, r, m)
    BY <1>2, <1>11, NextOperationIs
  <2>2. AllReduceValue(c, r, m) = Allreduce("allreduce", Own(r, 1), Blanks(1))
    <3>1. m.out = Blanks(1)
      BY <1>1, <1>11, StartOut
    <3> QED BY <1>11, <3>1 DEF AllReduceValue
  <2> QED BY <2>1, <2>2
<1>12. ASSUME c.op \in {"max", "min"} PROVE o = Allreduce(c.op, <<<<c.n[r]>>>>, Blanks(1))
  <2>1. o = Extremum(c, r, m)
    BY <1>2, <1>12, NextOperationIs
  <2>2. Extremum(c, r, m) = Allreduce(c.op, <<<<c.n[r]>>>>, Blanks(1))
    <3>1. m.out = Blanks(1)
      BY <1>1, <1>12, StartOut
    <3> QED BY <1>12, <3>1 DEF Extremum
  <2> QED BY <2>1, <2>2
<1>13. ASSUME c.op \in {"and", "or"} PROVE o = Allreduce(c.op, <<<<IF c.n[r] > 0 THEN 1 ELSE 0>>>>, Blanks(1))
  <2>1. o = Truth(c, r, m)
    BY <1>2, <1>13, NextOperationIs
  <2>2. Truth(c, r, m) = Allreduce(c.op, <<<<IF c.n[r] > 0 THEN 1 ELSE 0>>>>, Blanks(1))
    <3>1. m.out = Blanks(1)
      BY <1>1, <1>13, StartOut
    <3> QED BY <1>13, <3>1 DEF Truth
  <2> QED BY <2>1, <2>2
<1>14. ASSUME c.op \in {"max_element", "max_location", "max_location_other"} PROVE o = Allreduce(Located(c), <<<<c.n[r], r>>>>, Blanks(1))
  <2>1. o = MaxLoc(c, r, m)
    BY <1>2, <1>14, NextOperationIs
  <2>2. MaxLoc(c, r, m) = Allreduce(Located(c), <<<<c.n[r], r>>>>, Blanks(1))
    <3>1. m.out = Blanks(1)
      BY <1>1, <1>14, StartOut
    <3> QED BY <1>14, <3>1 DEF MaxLoc
  <2> QED BY <2>1, <2>2
<1>15. ASSUME c.op = "gather" PROVE o = Gather("gather", r, c.root, Own(r, c.n[r]), Each(c.n[r]), Steps(c.n[r]),
                           Blanks(AtRoot(c, r, Size * c.n[r])))
  <2>1. o = GatherN(c, r, m)
    BY <1>2, <1>15, NextOperationIs
  <2>2. GatherN(c, r, m) = Gather("gather", r, c.root, Own(r, c.n[r]), Each(c.n[r]), Steps(c.n[r]),
                           Blanks(AtRoot(c, r, Size * c.n[r])))
    <3>1. m.out = Blanks(AtRoot(c, r, Size * c.n[r]))
      BY <1>1, <1>15, StartOut
    <3> QED BY <1>15, <3>1 DEF GatherN, Immediate
  <2> QED BY <2>1, <2>2
<1>16. ASSUME c.op = "igather" PROVE o = Gather("igather", r, c.root, Own(r, c.n[r]), Each(c.n[r]), Steps(c.n[r]),
                           Blanks(AtRoot(c, r, Size * c.n[r])))
  <2>1. o = GatherN(c, r, m)
    BY <1>2, <1>16, NextOperationIs
  <2>2. GatherN(c, r, m) = Gather("igather", r, c.root, Own(r, c.n[r]), Each(c.n[r]), Steps(c.n[r]),
                           Blanks(AtRoot(c, r, Size * c.n[r])))
    <3>1. m.out = Blanks(AtRoot(c, r, Size * c.n[r]))
      BY <1>1, <1>16, StartOut
    <3> QED BY <1>16, <3>1 DEF GatherN, Immediate
  <2> QED BY <2>1, <2>2
<1>17. ASSUME c.op = "gather_value" PROVE o = Gather("gather", r, c.root, Own(r, 1), Ones, Steps(1), Blanks(AtRoot(c, r, Size)))
  <2>1. o = GatherValue(c, r, m)
    BY <1>2, <1>17, NextOperationIs
  <2>2. GatherValue(c, r, m) = Gather("gather", r, c.root, Own(r, 1), Ones, Steps(1), Blanks(AtRoot(c, r, Size)))
    BY DEF GatherValue
  <2> QED BY <2>1, <2>2
<1>18. ASSUME c.op = "all_gather_value" PROVE o = AllGather("allgather", Own(r, 1), Ones, Steps(1), Blanks(Size))
  <2>1. o = AllGatherValue(c, r, m)
    BY <1>2, <1>18, NextOperationIs
  <2>2. AllGatherValue(c, r, m) = AllGather("allgather", Own(r, 1), Ones, Steps(1), Blanks(Size))
    BY DEF AllGatherValue
  <2> QED BY <2>1, <2>2
<1>19. ASSUME c.op = "gatherv" PROVE o = Gather("gatherv", r, c.root, Own(r, c.n[r]), Sizes(c), PartialSums(Sizes(c), Size),
                           Blanks(AtRoot(c, r, Total(Sizes(c)))))
  <2>1. o = GathervN(c, r, m)
    BY <1>2, <1>19, NextOperationIs
  <2>2. GathervN(c, r, m) = Gather("gatherv", r, c.root, Own(r, c.n[r]), Sizes(c), PartialSums(Sizes(c), Size),
                           Blanks(AtRoot(c, r, Total(Sizes(c)))))
    <3>1. m.out = Blanks(AtRoot(c, r, Total(Sizes(c))))
      BY <1>1, <1>19, StartOut
    <3> QED BY <1>19, <3>1 DEF GathervN
  <2> QED BY <2>1, <2>2
<1>20. ASSUME c.op = "all_gather" PROVE o = AllGather("allgather", Own(r, c.n[r]), Each(c.n[r]), Steps(c.n[r]), Blanks(Size * c.n[r]))
  <2>1. o = AllGatherN(c, r, m)
    BY <1>2, <1>20, NextOperationIs
  <2>2. AllGatherN(c, r, m) = AllGather("allgather", Own(r, c.n[r]), Each(c.n[r]), Steps(c.n[r]), Blanks(Size * c.n[r]))
    <3>1. m.out = Blanks(Size * c.n[r])
      BY <1>1, <1>20, StartOut
    <3> QED BY <1>20, <3>1 DEF AllGatherN, Immediate
  <2> QED BY <2>1, <2>2
<1>21. ASSUME c.op = "iall_gather" PROVE o = AllGather("iallgather", Own(r, c.n[r]), Each(c.n[r]), Steps(c.n[r]), Blanks(Size * c.n[r]))
  <2>1. o = AllGatherN(c, r, m)
    BY <1>2, <1>21, NextOperationIs
  <2>2. AllGatherN(c, r, m) = AllGather("iallgather", Own(r, c.n[r]), Each(c.n[r]), Steps(c.n[r]), Blanks(Size * c.n[r]))
    <3>1. m.out = Blanks(Size * c.n[r])
      BY <1>1, <1>21, StartOut
    <3> QED BY <1>21, <3>1 DEF AllGatherN, Immediate
  <2> QED BY <2>1, <2>2
<1>22. ASSUME c.op = "all_to_all_n" PROVE o = Alltoall(Own(r, Size * c.n[r]), c.n[r], Blanks(Size * c.n[r]))
  <2>1. o = AllToAllN(c, r, m)
    BY <1>2, <1>22, NextOperationIs
  <2>2. AllToAllN(c, r, m) = Alltoall(Own(r, Size * c.n[r]), c.n[r], Blanks(Size * c.n[r]))
    <3>1. m.out = Blanks(Size * c.n[r])
      BY <1>1, <1>22, StartOut
    <3> QED BY <1>22, <3>1 DEF AllToAllN
  <2> QED BY <2>1, <2>2
<1>23. ASSUME c.op = "all_to_all_in_place" PROVE o = Alltoall(Own(r, Size * c.n[r]), c.n[r], Own(r, Size * c.n[r]))
  <2>1. o = AllToAllN(c, r, m)
    BY <1>2, <1>23, NextOperationIs
  <2>2. AllToAllN(c, r, m) = Alltoall(Own(r, Size * c.n[r]), c.n[r], Own(r, Size * c.n[r]))
    <3>1. m.out = Own(r, Size * c.n[r])
      BY <1>1, <1>23, StartOut
    <3> QED BY <1>23, <3>1 DEF AllToAllN
  <2> QED BY <2>1, <2>2
<1>24. ASSUME c.op = "all_to_all" PROVE o = Alltoall(Own(r, c.n[r]), Size, Blanks(Size))
  <2>1. o = AllToAllN(c, r, m)
    BY <1>2, <1>24, NextOperationIs
  <2>2. AllToAllN(c, r, m) = Alltoall(Own(r, c.n[r]), Size, Blanks(Size))
    <3>1. m.out = Blanks(Size)
      BY <1>1, <1>24, StartOut
    <3> QED BY <1>24, <3>1 DEF AllToAllN
  <2> QED BY <2>1, <2>2
<1> QED BY <1>3, <1>4, <1>5, <1>6, <1>7, <1>8, <1>9, <1>10, <1>11, <1>12, <1>13, <1>14, <1>15, <1>16, <1>17, <1>18, <1>19, <1>20, <1>21, <1>22, <1>23, <1>24

\* scatter: each rank takes as many elements as it has place for.
Taken(c, r) == IF c.op = "scatter_n" THEN c.n[r] ELSE 1

LEMMA FormOfScatter ==
    ASSUME NEW c, Callable(c), NEW r \in Ranks, NEW o, o = Collective(c, r, 1), NEW k, k = Taken(c, r),
           c.op \in {"scatter_n", "scatter", "scatter_list"}
    PROVE  /\ k \in Nat
           /\ o = Scatter("scatter", r, c.root, IF r = c.root THEN Own(r, Size * k) ELSE <<>>,
                          Each(k), Steps(k), k, Blanks(k))
<1>1. PICK m : m = Start(c, r)
  OBVIOUS
<1>2. o = NextOperation(c, r, m)
  BY <1>1, CollectiveIs
<1>3. k \in Nat
  BY CallableIs DEF Taken
<1>4. m.out = Blanks(k) /\ Len(m.out) = k
  <2>1. m.out = Blanks(k)
    BY <1>1, StartOut DEF Taken
  <2> QED BY <1>3, <2>1, ArraysAre
<1>5. o = ScatterN(c, r, m)
  BY <1>2, NextOperationIs
<1>6. ScatterN(c, r, m) = Scatter("scatter", r, c.root, IF r = c.root THEN Own(r, Size * k) ELSE <<>>,
                                  Each(k), Steps(k), k, Blanks(k))
  BY <1>4 DEF ScatterN
<1> QED BY <1>3, <1>5, <1>6

\* The calls of two collectives: the first of them.
LEMMA FormsOfFirst ==
    ASSUME NEW c, Callable(c), NEW r \in Ranks, NEW o, o = Collective(c, r, 1)
    PROVE  /\ c.op \in TellAll =>
                  o = AllGather("allgather", <<<<Told(c)[r]>>>>, Ones, Steps(1), Blanks(Size))
           /\ c.op = "gather_package" =>
                  o = Gather("gather", r, c.root, <<<<Told(c)[r]>>>>, Ones, Steps(1),
                             Blanks(AtRoot(c, r, Size)))
           /\ c.op = "scatterv_n_from" =>
                  o = Gather("gather", r, c.root, <<<<Told(c)[r]>>>>, Ones, Steps(1),
                             [i \in 1 .. Size |-> <<0>>])
           /\ c.op = "broadcast_value" => o = Bcast("bcast", r, c.root, <<<<c.n[r]>>>>, 1)
           /\ c.op = "scatterv" =>
                  o = Scatter("scatter", r, 0, IF r = c.root THEN [i \in 1 .. Size |-> <<c.n[i - 1]>>] ELSE <<>>,
                              Ones, Steps(1), 1, Blanks(1))
<1>1. PICK m : m = Start(c, r)
  OBVIOUS
<1>2. o = NextOperation(c, r, m) /\ m.step = 1
  BY <1>1, CollectiveIs, StartIs
<1>3. ASSUME c.op \in TellAll
      PROVE  o = AllGather("allgather", <<<<Told(c)[r]>>>>, Ones, Steps(1), Blanks(Size))
  BY <1>2, <1>3, TellingIs
<1>4. ASSUME c.op = "gather_package"
      PROVE  o = Gather("gather", r, c.root, <<<<Told(c)[r]>>>>, Ones, Steps(1), Blanks(AtRoot(c, r, Size)))
  BY <1>2, <1>4, TellingIs
<1>5. ASSUME c.op = "scatterv_n_from"
      PROVE  o = Gather("gather", r, c.root, <<<<Told(c)[r]>>>>, Ones, Steps(1), [i \in 1 .. Size |-> <<0>>])
  BY Zenon, <1>2, <1>5, TellingIs
<1>6. ASSUME c.op = "broadcast_value"
      PROVE  o = Bcast("bcast", r, c.root, <<<<c.n[r]>>>>, 1)
  <2>1. m.out = Own(r, c.n[r])
    BY <1>1, <1>6, StartOut
  <2>2. Len(m.out) = c.n[r]
    BY <2>1, CallableIs, ArraysAre
  <2>3. o = BroadcastValue(c, r, m)
    BY <1>2, <1>6, NextOperationIs
  <2>4. BroadcastValue(c, r, m) = Bcast("bcast", r, c.root, <<<<Len(m.out)>>>>, 1)
    BY Zenon, <1>2 DEF BroadcastValue
  <2> QED BY <2>2, <2>3, <2>4
<1>7. ASSUME c.op = "scatterv"
      PROVE  o = Scatter("scatter", r, 0, IF r = c.root THEN [i \in 1 .. Size |-> <<c.n[i - 1]>>] ELSE <<>>,
                         Ones, Steps(1), 1, Blanks(1))
  <2>1. o = Scatterv(c, r, m)
    BY <1>2, <1>7, NextOperationIs
  <2>2. Scatterv(c, r, m)
        = Scatter("scatter", r, 0, IF r = c.root THEN [i \in 1 .. Size |-> <<c.n[i - 1]>>] ELSE <<>>,
                  Ones, Steps(1), 1, Blanks(1))
    BY Zenon, <1>2 DEF Scatterv
  <2> QED BY Zenon, <2>1, <2>2
<1> QED BY Zenon, <1>3, <1>4, <1>5, <1>6, <1>7

\* The sums of a number of each rank.
LEMMA NumbersAre ==
    ASSUME NEW told \in [Ranks -> Nat]
    PROVE  /\ Sums(Listed(told)) \in [0 .. Size -> Nat] /\ Sums(Listed(told))[0] = 0
           /\ Total(Listed(told)) = Sums(Listed(told))[Size] /\ Total(Listed(told)) \in Nat
           /\ \A q \in Ranks : /\ Sums(Listed(told))[q] \in Nat
                               /\ Sums(Listed(told))[q + 1] = Sums(Listed(told))[q] + told[q]
                               /\ Sums(Listed(told))[q + 1] <= Total(Listed(told))
           /\ \A q \in Ranks, room \in {Size, Size + 1} :
                  PartialSums(Listed(told), room)[q + 1] = Sums(Listed(told))[q]
<1>1. PICK sizes \in Seq(Nat) : sizes = Listed(told) /\ Len(sizes) = Size /\ \A q \in Ranks : sizes[q + 1] = told[q]
  BY ListedIs
<1>2. PICK s \in [0 .. Size -> Nat] : s = Sums(sizes) /\ s[0] = 0 /\ \A i \in 1 .. Size : s[i] = s[i - 1] + sizes[i]
  BY <1>1, SumsAre
<1>3. Total(sizes) = s[Size] /\ s[Size] \in Nat
  BY <1>1, <1>2, RanksAre DEF Total
<1>4. ASSUME NEW q \in Ranks
      PROVE  /\ s[q] \in Nat /\ s[q + 1] = s[q] + told[q] /\ s[q + 1] <= s[Size]
             /\ \A room \in {Size, Size + 1} : PartialSums(sizes, room)[q + 1] = s[q]
  <2>1. q \in Nat /\ q + 1 \in 1 .. Size /\ (q + 1) - 1 = q /\ q \in 0 .. Size /\ q + 1 \in 0 .. Size /\ Size \in 0 .. Size
    BY RanksAre
  <2>2. s[q] \in Nat /\ s[q + 1] = s[q] + told[q]
    BY <1>1, <1>2, <2>1
  <2>3. s[q + 1] <= s[Size]
    <3>1. PICK j \in 0 .. Len(sizes) : j = q + 1 /\ j <= Size
      BY <1>1, <2>1
    <3>2. PICK n \in 0 .. Len(sizes) : n = Size
      BY <1>1, <2>1
    <3>3. Sums(sizes)[j] <= Sums(sizes)[n]
      BY <3>1, <3>2, SumsGrow
    <3> QED BY <1>2, <3>1, <3>2, <3>3
  <2>4. ASSUME NEW room \in {Size, Size + 1} PROVE PartialSums(sizes, room)[q + 1] = s[q]
    <3>1. q + 1 \in 1 .. room
      BY <2>1, RanksAre
    <3>2. (q + 1) - 1 <= Len(sizes)
      BY <1>1, <2>1, RanksAre
    <3> QED BY <1>2, <2>1, <3>1, <3>2 DEF PartialSums
  <2> QED BY <2>2, <2>3, <2>4
<1> QED BY <1>1, <1>2, <1>3, <1>4

LEMMA SizesAre ==
    ASSUME NEW c
    PROVE  Sizes(c) = Listed(c.n)
BY DEF Sizes, Listed

\* The counts and displacements that a rank goes on with.
LEMMA FormsOfSecond ==
    ASSUME NEW c, Callable(c), NEW r \in Ranks, NEW o, o = Collective(c, r, 2),
           NEW told, told = Listed(Told(c))
    PROVE  /\ c.op = "broadcast_value" =>
                  o = Bcast("bcast", r, c.root, Resized(Own(r, c.n[r]), c.n[c.root]), c.n[c.root])
           /\ c.op = "scatterv" =>
                  \E counts : /\ r = 0 => counts = Listed(c.n)
                              /\ o = Scatter("scatterv", r, 0, Own(r, Total(counts)), counts,
                                             PartialSums(counts, Size), c.n[r], Blanks(c.n[r]))
           /\ c.op = "all_gather_package" =>
                  o = AllGather("allgatherv", Package(r, c.n[r]), told, PartialSums(told, Size), Blanks(Total(told)))
           /\ c.op \in {"all_gatherv", "all_gatherv_output"} =>
                  o = AllGather("allgatherv", Own(r, c.n[r]), told, PartialSums(told, Size + 1), Blanks(Total(told)))
           /\ c.op = "gatherv_told" =>
                  o = Gather("gatherv", r, 0, Own(r, c.n[r]), told, PartialSums(told, Size + 1),
                             Blanks(IF r = 0 THEN Total(told) ELSE 0))
           /\ c.op = "gather_package" =>
                  \E counts, displs :
                      /\ r = c.root => counts = told /\ displs = PartialSums(told, Size + 1)
                      /\ o = Gather("gatherv", r, c.root, Package(r, c.n[r]), counts, displs, Blanks(Total(counts)))
           /\ c.op = "scatterv_n_from" =>
                  \E counts, displs :
                      /\ r = c.root => counts = told /\ displs = PartialSums(told, Size)
                      /\ o = Scatter("scatterv", r, c.root, Own(r, Total(counts)), counts, displs, c.n[r], Blanks(c.n[r]))
<1>1. PICK g : g = Going(c)[r]
  OBVIOUS
<1>2. o = NextOperation(c, r, g)
  BY <1>1, CollectiveIs
<1>3. ASSUME c.op = "broadcast_value"
      PROVE  o = Bcast("bcast", r, c.root, Resized(Own(r, c.n[r]), c.n[c.root]), c.n[c.root])
  <2>0. g.step = 2 /\ g.sizes[1] = c.n[c.root] /\ g.out = Resized(Own(r, c.n[r]), c.n[c.root])
    BY <1>1, <1>3, BroadcastGoing
  <2>1. g.step # 1 /\ g.sizes[1] = c.n[c.root] /\ g.out = Resized(Own(r, c.n[r]), c.n[c.root])
    BY <2>0
  <2>2. o = BroadcastValue(c, r, g)
    BY <1>2, <1>3, NextOperationIs
  <2>3. BroadcastValue(c, r, g) = Bcast("bcast", r, c.root, g.out, g.sizes[1])
    BY Zenon, <2>1 DEF BroadcastValue
  <2> QED BY <2>1, <2>2, <2>3
<1>4. ASSUME c.op = "scatterv"
      PROVE  \E counts : /\ r = 0 => counts = Listed(c.n)
                         /\ o = Scatter("scatterv", r, 0, Own(r, Total(counts)), counts,
                                        PartialSums(counts, Size), c.n[r], Blanks(c.n[r]))
  <2>1. g.step # 1 /\ g.sizes[1] = c.n[r] /\ c.root = 0
    BY <1>1, <1>4, ScattervGoing DEF Callable
  <2>2. o = Scatterv(c, r, g)
    BY <1>2, <1>4, NextOperationIs
  <2>3. PICK counts : counts = IF r = c.root THEN Sizes(c) ELSE Each(0)
    OBVIOUS
  <2>4. Scatterv(c, r, g)
        = Scatter("scatterv", r, c.root, Own(r, Total(counts)), counts,
                  PartialSums(counts, Size), g.sizes[1], Blanks(g.sizes[1]))
    BY Zenon, <2>1, <2>3 DEF Scatterv
  <2>5. r = 0 => counts = Listed(c.n)
    BY <2>1, <2>3, SizesAre
  <2> QED BY Zenon, <2>1, <2>2, <2>4, <2>5
<1>5. ASSUME c.op = "all_gather_package"
      PROVE  o = AllGather("allgatherv", Package(r, c.n[r]), told, PartialSums(told, Size), Blanks(Total(told)))
  <2>1. g.step # 1 /\ g.sizes = told /\ g.displs = PartialSums(told, Room(c))
    BY <1>1, <1>5, GoingTold DEF TellAll
  <2>2. Room(c) = Size
    BY <1>5 DEF Room
  <2>3. o = AllGatherPackage(c, r, g)
    BY <1>2, <1>5, NextOperationIs
  <2>4. AllGatherPackage(c, r, g) = AllGather("allgatherv", Package(r, c.n[r]), g.sizes, g.displs, Blanks(Total(g.sizes)))
    BY Zenon, <2>1 DEF AllGatherPackage
  <2> QED BY <2>1, <2>2, <2>3, <2>4
<1>6. ASSUME c.op \in {"all_gatherv", "all_gatherv_output"}
      PROVE  o = AllGather("allgatherv", Own(r, c.n[r]), told, PartialSums(told, Size + 1), Blanks(Total(told)))
  <2>1. g.step # 1 /\ g.sizes = told /\ g.displs = PartialSums(told, Room(c)) /\ g.out = Start(c, r).out
    BY <1>1, <1>6, GoingTold DEF TellAll
  <2>2. Room(c) = Size + 1
    BY <1>6 DEF Room
  <2>3. o = AllGatherv(c, r, g)
    BY <1>2, <1>6, NextOperationIs
  <2>4. PICK into : into = IF c.op = "all_gatherv_output" THEN Blanks(Total(g.sizes)) ELSE g.out
    OBVIOUS
  <2>5. AllGatherv(c, r, g) = AllGather("allgatherv", Own(r, c.n[r]), g.sizes, g.displs, into)
    BY Zenon, <2>1, <2>4 DEF AllGatherv
  <2>6. into = Blanks(Total(told))
    <3>1. CASE c.op = "all_gatherv_output"
      BY <2>1, <2>4, <3>1
    <3>2. CASE c.op = "all_gatherv"
      <4>1. Sizes(c) = told
        BY <3>2, SizesAre, ToldIs DEF Packed
      <4>2. into = Start(c, r).out
        BY <2>1, <2>4, <3>2
      <4>3. Start(c, r).out = Blanks(Total(Sizes(c)))
        BY <3>2, StartOut
      <4> QED BY <4>1, <4>2, <4>3
    <3> QED BY <1>6, <3>1, <3>2
  <2> QED BY <2>1, <2>2, <2>3, <2>5, <2>6
<1>7. ASSUME c.op = "gatherv_told"
      PROVE  o = Gather("gatherv", r, 0, Own(r, c.n[r]), told, PartialSums(told, Size + 1),
                        Blanks(IF r = 0 THEN Total(told) ELSE 0))
  <2>1. g.step # 1 /\ g.sizes = told /\ g.displs = PartialSums(told, Room(c)) /\ g.out = Start(c, r).out
    BY <1>1, <1>7, GoingTold DEF TellAll
  <2>2. Room(c) = Size + 1
    BY <1>7 DEF Room
  <2>3. o = GathervTold(c, r, g)
    BY <1>2, <1>7, NextOperationIs
  <2>4. GathervTold(c, r, g) = Gather("gatherv", r, 0, Own(r, c.n[r]), g.sizes, g.displs, g.out)
    BY Zenon, <2>1 DEF GathervTold
  <2>5. Sizes(c) = told
    BY <1>7, SizesAre, ToldIs DEF Packed
  <2>6. Start(c, r).out = Blanks(IF r = 0 THEN Total(Sizes(c)) ELSE 0)
    BY <1>7, StartOut
  <2> QED BY <2>1, <2>2, <2>3, <2>4, <2>5, <2>6
<1>8. ASSUME c.op = "gather_package"
      PROVE  \E counts, displs :
                 /\ r = c.root => counts = told /\ displs = PartialSums(told, Size + 1)
                 /\ o = Gather("gatherv", r, c.root, Package(r, c.n[r]), counts, displs, Blanks(Total(counts)))
  <2>1. g.step # 1 /\ (r = c.root => g.sizes = told /\ g.displs = PartialSums(told, Room(c)))
    BY <1>1, <1>8, GoingTold DEF TellRoot
  <2>2. Room(c) = Size + 1
    BY <1>8 DEF Room
  <2>3. o = GatherPackage(c, r, g)
    BY <1>2, <1>8, NextOperationIs
  <2>4. GatherPackage(c, r, g) = Gather("gatherv", r, c.root, Package(r, c.n[r]), g.sizes, g.displs, Blanks(Total(g.sizes)))
    BY Zenon, <2>1 DEF GatherPackage
  <2>5. r = c.root => g.sizes = told /\ g.displs = PartialSums(told, Size + 1)
    BY <2>1, <2>2
  <2> QED BY Zenon, <2>3, <2>4, <2>5
<1>9. ASSUME c.op = "scatterv_n_from"
      PROVE  \E counts, displs :
                 /\ r = c.root => counts = told /\ displs = PartialSums(told, Size)
                 /\ o = Scatter("scatterv", r, c.root, Own(r, Total(counts)), counts, displs, c.n[r], Blanks(c.n[r]))
  <2>1. /\ g.step # 1 /\ g.out = Start(c, r).out
        /\ r = c.root => g.sizes = told /\ g.displs = PartialSums(told, Room(c))
    BY <1>1, <1>9, GoingTold DEF TellRoot
  <2>2. Room(c) = Size
    BY <1>9 DEF Room
  <2>3. o = ScattervFrom(c, r, g)
    BY <1>2, <1>9, NextOperationIs
  <2>4. ScattervFrom(c, r, g) = Scatter("scatterv", r, c.root, Own(r, Total(g.sizes)), g.sizes, g.displs, c.n[r], g.out)
    BY Zenon, <2>1 DEF ScattervFrom
  <2>5. r = c.root => g.sizes = told /\ g.displs = PartialSums(told, Size)
    BY <2>1, <2>2
  <2>6. g.out = Blanks(c.n[r])
    BY <1>9, <2>1, StartOut
  <2> QED BY Zenon, <2>3, <2>4, <2>5, <2>6
<1> QED BY Zenon, <1>3, <1>4, <1>5, <1>6, <1>7, <1>8, <1>9

-----------------------------------------------------------------------------
(* The collectives of two ranks at one place of the program match.         *)

LEMMA EqualNumbers ==
    ASSUME NEW c, Callable(c), NEW r \in Ranks, NEW q \in Ranks
    PROVE  /\ c.n[r] \in Nat /\ c.n[q] \in Nat
           /\ c.op \in OfEqualNumbers => c.n[r] = c.n[q]
           /\ q \in Nat /\ r \in Nat /\ q + 1 \in 1 .. Size /\ r + 1 \in 1 .. Size
           /\ Ones[q + 1] = 1
           /\ \A k \in Nat : /\ Each(k)[q + 1] = k /\ Each(k)[r + 1] = k
                             /\ Steps(k)[q + 1] = q * k /\ Steps(k)[r + 1] = r * k
                             /\ q * k \in Nat /\ r * k \in Nat
           /\ Len(Own(q, c.n[q])) = c.n[q] /\ Len(Own(r, c.n[r])) = c.n[r]
           /\ Len(Own(q, 1)) = 1 /\ Len(Own(r, 1)) = 1
           /\ Ones[r + 1] = 1
<1>1. /\ c.n[r] \in Nat /\ c.n[q] \in Nat
      /\ c.op \in OfEqualNumbers => c.n[r] = c.n[q]
      /\ q \in Nat /\ r \in Nat /\ q + 1 \in 1 .. Size /\ r + 1 \in 1 .. Size
      /\ (q + 1) - 1 = q /\ (r + 1) - 1 = r
  BY RanksAre, CallableIs DEF Callable
<1>2. ASSUME NEW k \in Nat
      PROVE  /\ Each(k)[q + 1] = k /\ Each(k)[r + 1] = k
             /\ Steps(k)[q + 1] = q * k /\ Steps(k)[r + 1] = r * k
             /\ q * k \in Nat /\ r * k \in Nat
  <2>1. Each(k)[q + 1] = k /\ Each(k)[r + 1] = k
    BY <1>1 DEF Each
  <2>2. Steps(k)[q + 1] = q * k /\ Steps(k)[r + 1] = r * k
    BY <1>1 DEF Steps
  <2>3. PICK x \in Nat, y \in Nat : x = q /\ y = r
    BY <1>1
  <2>4. x * k \in Nat /\ y * k \in Nat
    OBVIOUS
  <2> QED BY <2>1, <2>2, <2>3, <2>4
<1>3. Ones[q + 1] = 1 /\ Ones[r + 1] = 1
  BY <1>1 DEF Ones
<1>4. Len(Own(q, c.n[q])) = c.n[q] /\ Len(Own(r, c.n[r])) = c.n[r]
  BY <1>1, ArraysAre
<1>5. Len(Own(q, 1)) = 1 /\ Len(Own(r, 1)) = 1
  BY ArraysAre
<1> QED BY <1>1, <1>2, <1>3, <1>4, <1>5

LEMMA CollectivesMatchInOne ==
    ASSUME NEW c, Callable(c), NEW r \in Ranks, NEW q \in Ranks, c.op \notin OfTwoRounds,
           NEW mine, mine = Collective(c, r, 1), NEW other, other = Collective(c, q, 1)
    PROVE  Matches(mine, other, r, q)
<1>1. c.root \in Ranks
  BY CallableIs
<1>2. PICK n \in Nat, k \in Nat :
          n = c.n[r] /\ k = c.n[q] /\ (c.op \in OfEqualNumbers => n = k)
          /\ Len(Own(q, k)) = k /\ Len(Own(r, n)) = n
  <2>1. /\ c.n[r] \in Nat /\ c.n[q] \in Nat /\ (c.op \in OfEqualNumbers => c.n[r] = c.n[q])
        /\ Len(Own(q, c.n[q])) = c.n[q] /\ Len(Own(r, c.n[r])) = c.n[r]
    <3>1. c.n[r] \in Nat /\ c.n[q] \in Nat
      BY RanksAre, CallableIs DEF Callable
    <3>2. c.op \in OfEqualNumbers => c.n[r] = c.n[q]
      BY DEF Callable
    <3>3. Len(Own(q, c.n[q])) = c.n[q] /\ Len(Own(r, c.n[r])) = c.n[r]
      BY <3>1, ArraysAre
    <3> QED BY <3>1, <3>2, <3>3
  <2> QED BY Zenon, <2>1
<1>3. CASE c.op = "barrier"
  BY <1>3, FormsOfOne, BarrierMatches
<1>4. CASE c.op \in {"broadcast", "ibroadcast"}
  <2>1. PICK kind, a, b :
            mine = Bcast(kind, r, c.root, a, n) /\ other = Bcast(kind, q, c.root, b, k)
    BY <1>2, <1>4, FormsOfOne
  <2>2. n = k
    BY <1>2, <1>4 DEF OfEqualNumbers
  <2> QED BY <1>1, <2>1, <2>2, BcastMatches
<1>5. CASE c.op \in {"reduce", "reduce_in_place"}
  <2>1. PICK a, b :
            mine = Reduce(r, c.root, Own(r, n), a) /\ other = Reduce(q, c.root, Own(q, k), b)
    BY <1>2, <1>5, FormsOfOne
  <2>2. n = k
    BY <1>2, <1>5 DEF OfEqualNumbers
  <2> QED BY <1>1, <1>2, <2>1, <2>2, ReduceMatches
<1>6. CASE c.op \in {"all_reduce", "all_reduce_in_place"}
  <2>1. PICK a, b :
            mine = Allreduce("allreduce", Own(r, n), a) /\ other = Allreduce("allreduce", Own(q, k), b)
    BY <1>2, <1>6, FormsOfOne
  <2>2. n = k
    BY <1>2, <1>6 DEF OfEqualNumbers
  <2> QED BY <1>2, <2>1, <2>2, AllreduceMatches
<1>7. CASE c.op = "reduce_value"
  <2>1. mine = Reduce(r, c.root, Own(r, 1), Blanks(1)) /\ other = Reduce(q, c.root, Own(q, 1), Blanks(1))
    BY <1>7, FormsOfOne
  <2>2. Len(Own(r, 1)) = Len(Own(q, 1))
    BY EqualNumbers
  <2> QED BY <1>1, <2>1, <2>2, ReduceMatches
<1>8. CASE c.op = "all_reduce_value"
  <2>1. mine = Allreduce("allreduce", Own(r, 1), Blanks(1)) /\ other = Allreduce("allreduce", Own(q, 1), Blanks(1))
    BY <1>8, FormsOfOne
  <2>2. Len(Own(r, 1)) = Len(Own(q, 1))
    BY EqualNumbers
  <2> QED BY <2>1, <2>2, AllreduceMatches
<1>9. CASE c.op \in {"max", "min", "and", "or", "max_element", "max_location", "max_location_other"}
  <2>1. PICK kind, x, y :
            mine = Allreduce(kind, <<x>>, Blanks(1)) /\ other = Allreduce(kind, <<y>>, Blanks(1))
    <3>1. CASE c.op \in {"max", "min"}
      BY <3>1, FormsOfOne
    <3>2. CASE c.op \in {"and", "or"}
      BY <3>2, FormsOfOne
    <3>3. CASE c.op \in {"max_element", "max_location", "max_location_other"}
      BY <3>3, FormsOfOne
    <3> QED BY <1>9, <3>1, <3>2, <3>3
  <2>2. Len(<<x>>) = Len(<<y>>)
    OBVIOUS
  <2> QED BY <2>1, <2>2, AllreduceMatches
<1>10. CASE c.op \in {"scatter_n", "scatter", "scatter_list"}
  <2>1. PICK x : x = Taken(c, r)
    OBVIOUS
  <2>2. Taken(c, q) = x
    BY <1>2, <1>10, <2>1 DEF Taken, OfEqualNumbers
  <2>3. PICK a : x \in Nat /\ mine = Scatter("scatter", r, c.root, a, Each(x), Steps(x), x, Blanks(x))
    BY <1>10, <2>1, FormOfScatter
  <2>4. PICK b : other = Scatter("scatter", q, c.root, b, Each(x), Steps(x), x, Blanks(x))
    BY <1>10, <2>2, FormOfScatter
  <2>5. Each(x)[r + 1] = x /\ Steps(x)[r + 1] \in Nat
    <3>1. PICK y \in Nat : y = x
      BY <2>3
    <3>2. Each(y)[r + 1] = y /\ Steps(y)[r + 1] = r * y /\ r * y \in Nat
      BY EqualNumbers
    <3> QED BY <3>1, <3>2
  <2> QED BY <1>1, <2>3, <2>4, <2>5, ScatterMatches
<1>11. CASE c.op \in {"gather", "igather"}
  <2>1. PICK kind, a, b :
            /\ mine = Gather(kind, r, c.root, Own(r, n), Each(n), Steps(n), a)
            /\ other = Gather(kind, q, c.root, Own(q, k), Each(k), Steps(k), b)
    BY <1>2, <1>11, FormsOfOne
  <2>2. Each(n)[q + 1] = Len(Own(q, k))
    BY <1>2, <1>11, EqualNumbers DEF OfEqualNumbers
  <2> QED BY <1>1, <2>1, <2>2, GatherMatches
<1>12. CASE c.op = "gather_value"
  <2>1. PICK a, b :
            /\ mine = Gather("gather", r, c.root, Own(r, 1), Ones, Steps(1), a)
            /\ other = Gather("gather", q, c.root, Own(q, 1), Ones, Steps(1), b)
    BY <1>12, FormsOfOne
  <2>2. Ones[q + 1] = Len(Own(q, 1))
    BY EqualNumbers
  <2> QED BY <1>1, <2>1, <2>2, GatherMatches
<1>13. CASE c.op = "all_gather_value"
  <2>1. /\ mine = AllGather("allgather", Own(r, 1), Ones, Steps(1), Blanks(Size))
        /\ other = AllGather("allgather", Own(q, 1), Ones, Steps(1), Blanks(Size))
    BY <1>13, FormsOfOne
  <2>2. Ones[q + 1] = Len(Own(q, 1))
    BY EqualNumbers
  <2> QED BY <2>1, <2>2, AllGatherMatches
<1>14. CASE c.op = "gatherv"
  <2>1. PICK a, b :
            /\ mine = Gather("gatherv", r, c.root, Own(r, n), Sizes(c), PartialSums(Sizes(c), Size), a)
            /\ other = Gather("gatherv", q, c.root, Own(q, k), Sizes(c), PartialSums(Sizes(c), Size), b)
    BY <1>2, <1>14, FormsOfOne
  <2>2. Sizes(c)[q + 1] = Len(Own(q, k))
    BY <1>2, SizesAre, CallableIs, ListedIs
  <2> QED BY <1>1, <2>1, <2>2, GatherMatches
<1>15. CASE c.op \in {"all_gather", "iall_gather"}
  <2>1. PICK kind, a, b :
            /\ mine = AllGather(kind, Own(r, n), Each(n), Steps(n), a)
            /\ other = AllGather(kind, Own(q, k), Each(k), Steps(k), b)
    BY <1>2, <1>15, FormsOfOne
  <2>2. Each(n)[q + 1] = Len(Own(q, k))
    BY <1>2, <1>15, EqualNumbers DEF OfEqualNumbers
  <2> QED BY <2>1, <2>2, AllGatherMatches
<1>16. CASE c.op \in {"all_to_all_n", "all_to_all_in_place"}
  <2>1. PICK a, b, into, onto : mine = Alltoall(a, n, into) /\ other = Alltoall(b, k, onto)
    BY <1>2, <1>16, FormsOfOne
  <2>2. n = k
    BY <1>2, <1>16 DEF OfEqualNumbers
  <2> QED BY <2>1, <2>2, AlltoallMatches
<1>17. CASE c.op = "all_to_all"
  <2>1. mine = Alltoall(Own(r, n), Size, Blanks(Size)) /\ other = Alltoall(Own(q, k), Size, Blanks(Size))
    BY <1>2, <1>17, FormsOfOne
  <2> QED BY <2>1, RanksAre, AlltoallMatches
<1> QED BY <1>3, <1>4, <1>5, <1>6, <1>7, <1>8, <1>9, <1>10, <1>11, <1>12, <1>13, <1>14, <1>15, <1>16, <1>17
        DEF Callable, OfOneValue, OfEqualNumbers, OfOtherNumbers, OfTwoRounds

LEMMA CollectivesMatchInFirst ==
    ASSUME NEW c, Callable(c), NEW r \in Ranks, NEW q \in Ranks, c.op \in OfTwoRounds,
           NEW mine, mine = Collective(c, r, 1), NEW other, other = Collective(c, q, 1)
    PROVE  Matches(mine, other, r, q)
<1>1. c.root \in Ranks
  BY CallableIs
<1>2. Ones[q + 1] = 1 /\ Ones[r + 1] = 1 /\ Steps(1)[r + 1] \in Nat
  <2>1. PICK y \in Nat : y = 1
    OBVIOUS
  <2>2. Ones[q + 1] = 1 /\ Ones[r + 1] = 1 /\ Steps(y)[r + 1] = r * y /\ r * y \in Nat
    BY EqualNumbers
  <2> QED BY <2>1, <2>2
<1>3. PICK x, y : x = <<Told(c)[r]>> /\ y = <<Told(c)[q]>> /\ Ones[q + 1] = Len(<<y>>)
  BY <1>2
<1>4. CASE c.op \in TellAll
  <2>1. /\ mine = AllGather("allgather", <<x>>, Ones, Steps(1), Blanks(Size))
        /\ other = AllGather("allgather", <<y>>, Ones, Steps(1), Blanks(Size))
    BY <1>3, <1>4, FormsOfFirst
  <2> QED BY <1>3, <2>1, AllGatherMatches
<1>5. CASE c.op \in TellRoot
  <2>1. PICK a, b :
            /\ mine = Gather("gather", r, c.root, <<x>>, Ones, Steps(1), a)
            /\ other = Gather("gather", q, c.root, <<y>>, Ones, Steps(1), b)
    BY <1>3, <1>5, FormsOfFirst DEF TellRoot
  <2> QED BY <1>1, <1>3, <2>1, GatherMatches
<1>6. CASE c.op = "broadcast_value"
  <2>1. PICK a, b : mine = Bcast("bcast", r, c.root, a, 1) /\ other = Bcast("bcast", q, c.root, b, 1)
    BY <1>6, FormsOfFirst
  <2> QED BY <1>1, <2>1, BcastMatches
<1>7. CASE c.op = "scatterv"
  <2>1. PICK a, b : /\ mine = Scatter("scatter", r, 0, a, Ones, Steps(1), 1, Blanks(1))
                    /\ other = Scatter("scatter", q, 0, b, Ones, Steps(1), 1, Blanks(1))
    BY <1>7, FormsOfFirst
  <2>2. 0 \in Ranks
    BY RanksAre
  <2> QED BY <1>2, <2>1, <2>2, ScatterMatches
<1> QED BY <1>4, <1>5, <1>6, <1>7 DEF OfTwoRounds, TellAll, TellRoot

LEMMA CollectivesMatchInSecond ==
    ASSUME NEW c, Callable(c), NEW r \in Ranks, NEW q \in Ranks, c.op \in OfTwoRounds,
           NEW mine, mine = Collective(c, r, 2), NEW other, other = Collective(c, q, 2)
    PROVE  Matches(mine, other, r, q)
<1>1. c.root \in Ranks /\ c.n[c.root] \in Nat
  BY CallableIs
<1>2. PICK n \in Nat, k \in Nat :
          n = c.n[r] /\ k = c.n[q] /\ Len(Own(q, k)) = k /\ Len(Own(r, n)) = n
  <2>1. PICK n \in Nat : n = c.n[r]
    BY CallableIs
  <2>2. PICK k \in Nat : k = c.n[q]
    BY CallableIs
  <2> QED BY <2>1, <2>2, ArraysAre
<1>3. PICK told : told = Listed(Told(c))
  OBVIOUS
<1>4. /\ \A p \in Ranks : told[p + 1] = Told(c)[p] /\ Told(c)[p] \in Nat
      /\ \A p \in Ranks, room \in {Size, Size + 1} : PartialSums(told, room)[p + 1] \in Nat
      /\ c.op \notin Packed => told[q + 1] = k /\ told[r + 1] = n
      /\ c.op \in Packed => told[q + 1] = Len(Package(q, k))
  <2>1. PICK t \in [Ranks -> Nat] :
            /\ t = Told(c) /\ (c.op \notin Packed => t = c.n)
            /\ c.op \in Packed => t[q] = Len(Package(q, k))
    BY <1>2, ToldIs
  <2>2. \A p \in Ranks : told[p + 1] = t[p]
    BY <1>3, <2>1, ListedIs
  <2>3. \A p \in Ranks, room \in {Size, Size + 1} : PartialSums(told, room)[p + 1] \in Nat
    <3>1. \A p \in Ranks : Sums(told)[p] \in Nat
      BY <1>3, <2>1, NumbersAre
    <3>2. \A p \in Ranks, room \in {Size, Size + 1} : PartialSums(told, room)[p + 1] = Sums(told)[p]
      BY <1>3, <2>1, NumbersAre
    <3> QED BY <3>1, <3>2
  <2> QED BY <1>2, <2>1, <2>2, <2>3
<1>5. CASE c.op = "broadcast_value"
  <2>1. PICK m \in Nat : m = c.n[c.root]
    BY <1>1
  <2>2. PICK a, b : mine = Bcast("bcast", r, c.root, a, m) /\ other = Bcast("bcast", q, c.root, b, m)
    BY <1>5, <2>1, FormsOfSecond
  <2> QED BY <1>1, <2>2, BcastMatches
<1>6. CASE c.op = "scatterv"
  <2>1. PICK a, b, mineC, otherC, mineD, otherD :
            /\ mine = Scatter("scatterv", r, 0, a, mineC, mineD, n, Blanks(n))
            /\ other = Scatter("scatterv", q, 0, b, otherC, otherD, k, Blanks(k))
            /\ q = 0 => otherC = Listed(c.n) /\ otherD = PartialSums(otherC, Size)
    <3>1. PICK mineC : mine = Scatter("scatterv", r, 0, Own(r, Total(mineC)), mineC,
                                      PartialSums(mineC, Size), n, Blanks(n))
      BY <1>2, <1>6, FormsOfSecond
    <3>2. PICK otherC : /\ q = 0 => otherC = Listed(c.n)
                        /\ other = Scatter("scatterv", q, 0, Own(q, Total(otherC)), otherC,
                                           PartialSums(otherC, Size), k, Blanks(k))
      BY <1>2, <1>6, FormsOfSecond
    <3> QED BY <3>1, <3>2
  <2>2. told = Listed(c.n) /\ told[r + 1] = n
    BY <1>3, <1>4, <1>6, ToldIs DEF Packed
  <2>3. q = 0 => otherC[r + 1] = n /\ otherD[r + 1] \in Nat
    BY <1>4, <2>1, <2>2
  <2>4. 0 \in Ranks
    BY RanksAre
  <2> QED BY <2>1, <2>3, <2>4, ScatterMatches
<1>7. CASE c.op = "all_gather_package"
  <2>1. PICK a, b, D :
            /\ mine = AllGather("allgatherv", Package(r, n), told, D, a)
            /\ other = AllGather("allgatherv", Package(q, k), told, D, b)
    BY <1>2, <1>3, <1>7, FormsOfSecond
  <2>2. told[q + 1] = Len(Package(q, k))
    BY <1>4, <1>7 DEF Packed
  <2> QED BY <2>1, <2>2, AllGatherMatches
<1>8. CASE c.op \in {"all_gatherv", "all_gatherv_output"}
  <2>1. PICK a, b, D :
            /\ mine = AllGather("allgatherv", Own(r, n), told, D, a)
            /\ other = AllGather("allgatherv", Own(q, k), told, D, b)
    BY <1>2, <1>3, <1>8, FormsOfSecond
  <2>2. told[q + 1] = Len(Own(q, k))
    BY <1>2, <1>4, <1>8 DEF Packed
  <2> QED BY <2>1, <2>2, AllGatherMatches
<1>9. CASE c.op = "gatherv_told"
  <2>1. PICK a, b, D :
            /\ mine = Gather("gatherv", r, 0, Own(r, n), told, D, a)
            /\ other = Gather("gatherv", q, 0, Own(q, k), told, D, b)
    BY <1>2, <1>3, <1>9, FormsOfSecond
  <2>2. told[q + 1] = Len(Own(q, k)) /\ 0 \in Ranks
    BY <1>2, <1>4, <1>9, RanksAre DEF Packed
  <2> QED BY <2>1, <2>2, GatherMatches
<1>10. CASE c.op = "gather_package"
  <2>1. PICK mineC, mineD :
            /\ r = c.root => mineC = told
            /\ mine = Gather("gatherv", r, c.root, Package(r, n), mineC, mineD, Blanks(Total(mineC)))
    BY <1>2, <1>3, <1>10, FormsOfSecond
  <2>2. PICK otherC, otherD :
            other = Gather("gatherv", q, c.root, Package(q, k), otherC, otherD, Blanks(Total(otherC)))
    BY <1>2, <1>3, <1>10, FormsOfSecond
  <2>3. r = c.root => mineC[q + 1] = Len(Package(q, k))
    BY <1>4, <1>10, <2>1 DEF Packed
  <2> QED BY <1>1, <2>1, <2>2, <2>3, GatherMatches
<1>11. CASE c.op = "scatterv_n_from"
  <2>1. PICK mineC, mineD :
            mine = Scatter("scatterv", r, c.root, Own(r, Total(mineC)), mineC, mineD, n, Blanks(n))
    BY <1>2, <1>3, <1>11, FormsOfSecond
  <2>2. PICK otherC, otherD :
            /\ q = c.root => otherC = told /\ otherD = PartialSums(told, Size)
            /\ other = Scatter("scatterv", q, c.root, Own(q, Total(otherC)), otherC, otherD, k, Blanks(k))
    BY <1>2, <1>3, <1>11, FormsOfSecond
  <2>3. q = c.root => otherC[r + 1] = n /\ otherD[r + 1] \in Nat
    BY <1>4, <1>11, <2>2 DEF Packed
  <2> QED BY <1>1, <2>1, <2>2, <2>3, ScatterMatches
<1> QED BY <1>5, <1>6, <1>7, <1>8, <1>9, <1>10, <1>11 DEF OfTwoRounds

LEMMA CollectivesMatch ==
    ASSUME NEW c, Callable(c), NEW r \in Ranks, NEW q \in Ranks, NEW s \in 1 .. Rounds(c)
    PROVE  Matches(Collective(c, r, s), Collective(c, q, s), r, q)
<1>1. CASE c.op \notin OfTwoRounds
  <2>1. s = 1
    BY <1>1 DEF Rounds
  <2> QED BY <1>1, <2>1, CollectivesMatchInOne
<1>2. CASE c.op \in OfTwoRounds
  <2>1. s = 1 \/ s = 2
    BY <1>2 DEF Rounds
  <2> QED BY <1>2, <2>1, CollectivesMatchInFirst, CollectivesMatchInSecond
<1> QED BY <1>1, <1>2

-----------------------------------------------------------------------------
(* The steps of a call.                                                    *)

\* The memory at a step.
At(m, step) == IsMemory(m) /\ m.step = step /\ m.inside \in BOOLEAN

\* A memory of which the destination and the position are set, when the call is done.
LEMMA MemoryAtEnd ==
    ASSUME NEW m, IsMemory(m), m.inside \in BOOLEAN, NEW out, NEW end, NEW n,
           \/ n = [m EXCEPT !.step = Done, !.out = out, !.end = end]
           \/ n = [m EXCEPT !.step = Done, !.out = out]
    PROVE  At(n, Done)
<1>1. CASE n = [m EXCEPT !.step = Done, !.out = out, !.end = end]
  BY <1>1 DEF At, IsMemory
<1>2. CASE n = [m EXCEPT !.step = Done, !.out = out]
  BY <1>2 DEF At, IsMemory
<1> QED BY <1>1, <1>2

\* A call of two collectives goes on after the first, and any other returns.
LEMMA AfterSteps ==
    ASSUME NEW c, Callable(c), NEW r, NEW m, NEW s \in {1, 2}, At(m, s), NEW got,
           NEW n, n = AfterOperation(c, r, m, got)
    PROVE  At(n, IF s = 1 /\ c.op \in OfTwoRounds THEN 2 ELSE Done)
<1>1. IsMemory(m) /\ m.inside \in BOOLEAN /\ m.step = s
  BY DEF At
<1>2. ASSUME c.op \in OfTwoRounds, s = 1 PROVE At(n, 2)

  <2>1. CASE c.op = "broadcast_value"
    <3>1. n = BroadcastValueAfter(c, r, m, got)
      BY <2>1 DEF AfterOperation
    <3>2. BroadcastValueAfter(c, r, m, got)
          = [m EXCEPT !.step = 2, !.sizes = Counts(got), !.out = Resized(m.out, got[1][1])]
      BY Zenon, <1>1, <1>2 DEF BroadcastValueAfter
    <3> QED BY <1>1, <3>1, <3>2 DEF At, IsMemory
  <2>2. CASE c.op = "scatterv"
    <3>1. n = ScattervAfter(c, r, m, got)
      BY <2>2 DEF AfterOperation
    <3>2. ScattervAfter(c, r, m, got)
          = [m EXCEPT !.step = 2, !.sizes = Counts(got), !.inside = (r = c.root)]
      BY Zenon, <1>1, <1>2 DEF ScattervAfter
    <3> QED BY <1>1, <3>1, <3>2 DEF At, IsMemory
  <2>3. CASE c.op = "scatterv_n_from"
    <3>1. n = ScattervFromAfter(c, r, m, got)
      BY <2>3 DEF AfterOperation
    <3>2. ScattervFromAfter(c, r, m, got)
          = [m EXCEPT !.step = 2, !.sizes = Counts(got), !.displs = PartialSums(Counts(got), Size), !.inside = FALSE]
      BY Zenon, <1>1, <1>2 DEF ScattervFromAfter
    <3> QED BY <1>1, <3>1, <3>2 DEF At, IsMemory
  <2>4. CASE c.op = "gather_package"
    <3>1. n = GatherPackageAfter(c, r, m, got)
      BY <2>4 DEF AfterOperation
    <3>2. GatherPackageAfter(c, r, m, got)
          = [m EXCEPT !.step = 2, !.sizes = Counts(got), !.displs = PartialSums(Counts(got), Len(got) + 1)]
      BY Zenon, <1>1, <1>2 DEF GatherPackageAfter
    <3> QED BY <1>1, <3>1, <3>2 DEF At, IsMemory
  <2>5. CASE c.op = "all_gather_package"
    <3>1. n = AllGatherPackageAfter(c, r, m, got)
      BY <2>5 DEF AfterOperation
    <3>2. AllGatherPackageAfter(c, r, m, got)
          = [m EXCEPT !.step = 2, !.sizes = Counts(got), !.displs = PartialSums(Counts(got), Size), !.inside = FALSE]
      BY Zenon, <1>1, <1>2 DEF AllGatherPackageAfter
    <3> QED BY <1>1, <3>1, <3>2 DEF At, IsMemory
  <2>6. CASE c.op \in {"all_gatherv", "all_gatherv_output"}
    <3>1. n = AllGathervAfter(c, r, m, got)
      BY <2>6 DEF AfterOperation
    <3>2. AllGathervAfter(c, r, m, got)
          = [m EXCEPT !.step = 2, !.sizes = Counts(got), !.displs = PartialSums(Counts(got), Size + 1)]
      BY Zenon, <1>1, <1>2 DEF AllGathervAfter
    <3> QED BY <1>1, <3>1, <3>2 DEF At, IsMemory
  <2>7. CASE c.op = "gatherv_told"
    <3>1. n = GathervToldAfter(c, r, m, got)
      BY <2>7 DEF AfterOperation
    <3>2. GathervToldAfter(c, r, m, got)
          = [m EXCEPT !.step = 2, !.sizes = Counts(got), !.displs = PartialSums(Counts(got), Size + 1)]
      BY Zenon, <1>1, <1>2 DEF GathervToldAfter
    <3> QED BY <1>1, <3>1, <3>2 DEF At, IsMemory
  <2> QED BY <1>2, <2>1, <2>2, <2>3, <2>4, <2>5, <2>6, <2>7 DEF OfTwoRounds
<1>3. ASSUME c.op \in OfTwoRounds, s = 2 PROVE At(n, Done)
  <2>0. m.step # 1
    BY <1>1, <1>3
  <2>1. CASE c.op = "broadcast_value"
    <3>1. n = BroadcastValueAfter(c, r, m, got)
      BY <2>1 DEF AfterOperation
    <3>2. BroadcastValueAfter(c, r, m, got)
          = [m EXCEPT !.step = Done, !.out = got]
      BY Zenon, <2>0 DEF BroadcastValueAfter
    <3> QED BY Zenon, <1>1, <3>1, <3>2, MemoryAtEnd
  <2>2. CASE c.op = "scatterv"
    <3>1. n = ScattervAfter(c, r, m, got)
      BY <2>2 DEF AfterOperation
    <3>0. PICK end : end = m.sizes[1]
      OBVIOUS
    <3>2. ScattervAfter(c, r, m, got)
          = [m EXCEPT !.step = Done, !.out = got, !.end = end]
      BY Zenon, <2>0, <3>0 DEF ScattervAfter
    <3> QED BY Zenon, <1>1, <3>1, <3>2, MemoryAtEnd
  <2>3. CASE c.op = "scatterv_n_from"
    <3>1. n = ScattervFromAfter(c, r, m, got)
      BY <2>3 DEF AfterOperation
    <3>0. PICK end : end = AtRoot(c, r, m.displs[Size] + m.sizes[Size])
      OBVIOUS
    <3>2. ScattervFromAfter(c, r, m, got)
          = [m EXCEPT !.step = Done, !.out = got, !.end = end]
      BY Zenon, <2>0, <3>0 DEF ScattervFromAfter
    <3> QED BY Zenon, <1>1, <3>1, <3>2, MemoryAtEnd
  <2>4. CASE c.op = "gather_package"
    <3>1. n = GatherPackageAfter(c, r, m, got)
      BY <2>4 DEF AfterOperation
    <3>0. PICK end : end = AtRoot(c, r, c.n[r] * Size)
      OBVIOUS
    <3>2. GatherPackageAfter(c, r, m, got)
          = [m EXCEPT !.step = Done, !.out = got, !.end = end]
      BY Zenon, <2>0, <3>0 DEF GatherPackageAfter
    <3> QED BY Zenon, <1>1, <3>1, <3>2, MemoryAtEnd
  <2>5. CASE c.op = "all_gather_package"
    <3>1. n = AllGatherPackageAfter(c, r, m, got)
      BY <2>5 DEF AfterOperation
    <3>0. PICK end : end = c.n[r] * Size
      OBVIOUS
    <3>2. AllGatherPackageAfter(c, r, m, got)
          = [m EXCEPT !.step = Done, !.out = got, !.end = end]
      BY Zenon, <2>0, <3>0 DEF AllGatherPackageAfter
    <3> QED BY Zenon, <1>1, <3>1, <3>2, MemoryAtEnd
  <2>6. CASE c.op \in {"all_gatherv", "all_gatherv_output"}
    <3>1. n = AllGathervAfter(c, r, m, got)
      BY <2>6 DEF AfterOperation
    <3>0. PICK end : end = IF c.op = "all_gatherv_output" THEN Len(got) ELSE m.displs[Size] + m.sizes[Size]
      OBVIOUS
    <3>2. AllGathervAfter(c, r, m, got)
          = [m EXCEPT !.step = Done, !.out = got, !.end = end]
      BY Zenon, <2>0, <3>0 DEF AllGathervAfter
    <3> QED BY Zenon, <1>1, <3>1, <3>2, MemoryAtEnd
  <2>7. CASE c.op = "gatherv_told"
    <3>1. n = GathervToldAfter(c, r, m, got)
      BY <2>7 DEF AfterOperation
    <3>2. GathervToldAfter(c, r, m, got)
          = [m EXCEPT !.step = Done, !.out = got]
      BY Zenon, <2>0 DEF GathervToldAfter
    <3> QED BY Zenon, <1>1, <3>1, <3>2, MemoryAtEnd
  <2> QED BY <1>3, <2>1, <2>2, <2>3, <2>4, <2>5, <2>6, <2>7 DEF OfTwoRounds
<1>4. ASSUME c.op \notin OfTwoRounds PROVE At(n, Done)
  <2>1. CASE c.op = "max_element"
    <3>1. n = MaxElementAfter(c, r, m, got)
      BY <2>1 DEF AfterOperation
    <3>2. PICK end : end = IF got[1][2] = r THEN 1 ELSE 0
      OBVIOUS
    <3>3. MaxElementAfter(c, r, m, got) = [m EXCEPT !.step = Done, !.out = got, !.end = end]
      BY Zenon, <3>2 DEF MaxElementAfter
    <3> QED BY Zenon, <1>1, <3>1, <3>3, MemoryAtEnd
  <2>2. CASE c.op = "reduce_in_place" /\ r # c.root
    <3>1. n = [m EXCEPT !.step = Done]
      BY <2>2 DEF AfterOperation
    <3> QED BY <1>1, <3>1 DEF At, IsMemory
  <2>3. CASE c.op = "scatter_list"
    <3>1. ListHolds(c, r) \in BOOLEAN
      BY DEF ListHolds
    <3>2. n = [m EXCEPT !.step = Done, !.out = got, !.end = 1, !.inside = ListHolds(c, r)]
      BY <2>3 DEF AfterOperation
    <3> QED BY <1>1, <3>1, <3>2 DEF At, IsMemory
  <2>4. CASE PlainAfter(c, r)
    <3>1. n = [m EXCEPT !.step = Done, !.out = got, !.end = ReturnedEnd(c, r, m)]
      BY <2>4 DEF AfterOperation, PlainAfter, OfTwoRounds
    <3> QED BY Zenon, <1>1, <3>1, MemoryAtEnd
  <2> QED BY <1>4, <2>1, <2>2, <2>3, <2>4 DEF PlainAfter
<1> QED BY <1>2, <1>3, <1>4

\* A call begins at its first step, and what it remembers is at the step that it goes on with.
LEMMA RecalledIs ==
    ASSUME NEW c, Callable(c), NEW r \in Ranks, NEW s \in 1 .. Rounds(c)
    PROVE  s \in {1, 2} /\ At(Recalled(c, s)[r], s)
<1>1. At(Start(c, r), 1)
  BY StartIs, StartIsMemory DEF At
<1>2. CASE s = 1
  <2>1. Recalled(c, s)[r] = Start(c, r)
    BY <1>2, BegunIs DEF Recalled
  <2> QED BY <1>1, <1>2, <2>1
<1>3. CASE s # 1
  <2>1. s = 2 /\ c.op \in OfTwoRounds
    BY <1>3 DEF Rounds
  <2>2. PICK g : g = Going(c)[r]
    OBVIOUS
  <2>3. PICK got : g = AfterOperation(c, r, Start(c, r), got)
    BY <2>2, GoingOn
  <2>4. PICK t \in {1, 2} : t = 1
    OBVIOUS
  <2>5. At(Start(c, r), t)
    BY <1>1, <2>4
  <2>6. At(g, IF t = 1 /\ c.op \in OfTwoRounds THEN 2 ELSE Done)
    BY <2>3, <2>5, AfterSteps
  <2>7. Recalled(c, s)[r] = g
    BY <2>1, <2>2 DEF Recalled
  <2> QED BY <2>1, <2>4, <2>6, <2>7
<1> QED BY <1>2, <1>3

\* What a collective brings leads a rank to the next step, or to the outcome of the call.
LEMMA StepOfCall ==
    ASSUME NEW c, Callable(c), NEW r \in Ranks, NEW s \in 1 .. Rounds(c), ~Immediate(c),
           NEW n, n = AfterOperation(c, r, Recalled(c, s)[r], Brought(c, r, s))
    PROVE  \/ s = Rounds(c) /\ n.step = Done /\ n = Outcome(c, r) /\ n.inside \in BOOLEAN
           \/ s = 1 /\ Rounds(c) = 2 /\ n.step = 2 /\ n = Recalled(c, 2)[r]
<1>1. PICK m : m = Recalled(c, s)[r]
  OBVIOUS
<1>2. PICK t \in {1, 2} : t = s /\ At(m, t)
  BY <1>1, RecalledIs
<1>3. PICK got : got = Brought(c, r, s)
  OBVIOUS
<1>4. At(n, IF t = 1 /\ c.op \in OfTwoRounds THEN 2 ELSE Done)
  BY <1>1, <1>2, <1>3, AfterSteps
<1>5. CASE s = Rounds(c)
  <2>1. n.step = Done /\ n.inside \in BOOLEAN
    BY <1>2, <1>4, <1>5 DEF Rounds, At
  <2>2. n = Outcome(c, r)
    BY <1>5 DEF Outcome
  <2> QED BY <1>5, <2>1, <2>2
<1>6. CASE s # Rounds(c)
  <2>1. s = 1 /\ Rounds(c) = 2 /\ c.op \in OfTwoRounds
    BY <1>6 DEF Rounds
  <2>2. n.step = 2
    BY <1>2, <1>4, <2>1 DEF At
  <2>3. m = Start(c, r) /\ got = Exchanged(c, r, Begun(c))
    BY <1>1, <1>3, <2>1, BegunIs DEF Recalled, Brought
  <2>4. n = Going(c)[r]
    BY <1>1, <1>3, <2>3, GoingOn
  <2>5. Recalled(c, 2) = Going(c)
    BY DEF Recalled
  <2> QED BY <2>1, <2>2, <2>4, <2>5
<1> QED BY <1>5, <1>6

\* A rank expects something from ranks alone.
LEMMA WantsOfRanks ==
    ASSUME NEW c, Callable(c), NEW r \in Ranks, NEW m, NEW o, o = NextOperation(c, r, m)
    PROVE  DOMAIN o.want \subseteq Ranks
<1>1. c.root \in Ranks /\ 0 \in Ranks
  BY CallableIs, RanksAre

<1>2. CASE c.op = "barrier"
  <2>1. o = Barrier
    BY <1>2, NextOperationIs
  <2>2. DOMAIN Barrier.want \subseteq Ranks
    BY <1>1, <1>2 DEF Barrier, Operation, If
  <2> QED BY <2>1, <2>2
<1>3. CASE c.op = "broadcast_value"
  <2>1. o = BroadcastValue(c, r, m)
    BY <1>3, NextOperationIs
  <2>2. DOMAIN BroadcastValue(c, r, m).want \subseteq Ranks
    BY <1>1, <1>3 DEF BroadcastValue, Bcast, Operation, If
  <2> QED BY <2>1, <2>2
<1>4. CASE c.op \in {"broadcast", "ibroadcast"}
  <2>1. o = BroadcastN(c, r, m)
    BY <1>4, NextOperationIs
  <2>2. DOMAIN BroadcastN(c, r, m).want \subseteq Ranks
    BY <1>1, <1>4 DEF BroadcastN, Bcast, Operation, If
  <2> QED BY <2>1, <2>2
<1>5. CASE c.op \in {"reduce", "reduce_in_place"}
  <2>1. o = ReduceN(c, r, m)
    BY <1>5, NextOperationIs
  <2>2. DOMAIN ReduceN(c, r, m).want \subseteq Ranks
    BY <1>1, <1>5 DEF ReduceN, Reduce, Operation, If
  <2> QED BY <2>1, <2>2
<1>6. CASE c.op \in {"all_reduce", "all_reduce_in_place"}
  <2>1. o = AllReduceN(c, r, m)
    BY <1>6, NextOperationIs
  <2>2. DOMAIN AllReduceN(c, r, m).want \subseteq Ranks
    BY <1>1, <1>6 DEF AllReduceN, Allreduce, Operation, If
  <2> QED BY <2>1, <2>2
<1>7. CASE c.op = "reduce_value"
  <2>1. o = ReduceValue(c, r, m)
    BY <1>7, NextOperationIs
  <2>2. DOMAIN ReduceValue(c, r, m).want \subseteq Ranks
    BY <1>1, <1>7 DEF ReduceValue, Reduce, Operation, If
  <2> QED BY <2>1, <2>2
<1>8. CASE c.op = "all_reduce_value"
  <2>1. o = AllReduceValue(c, r, m)
    BY <1>8, NextOperationIs
  <2>2. DOMAIN AllReduceValue(c, r, m).want \subseteq Ranks
    BY <1>1, <1>8 DEF AllReduceValue, Allreduce, Operation, If
  <2> QED BY <2>1, <2>2
<1>9. CASE c.op \in {"max", "min"}
  <2>1. o = Extremum(c, r, m)
    BY <1>9, NextOperationIs
  <2>2. DOMAIN Extremum(c, r, m).want \subseteq Ranks
    BY <1>1, <1>9 DEF Extremum, Allreduce, Operation, If
  <2> QED BY <2>1, <2>2
<1>10. CASE c.op \in {"and", "or"}
  <2>1. o = Truth(c, r, m)
    BY <1>10, NextOperationIs
  <2>2. DOMAIN Truth(c, r, m).want \subseteq Ranks
    BY <1>1, <1>10 DEF Truth, Allreduce, Operation, If
  <2> QED BY <2>1, <2>2
<1>11. CASE c.op \in {"max_element", "max_location", "max_location_other"}
  <2>1. o = MaxLoc(c, r, m)
    BY <1>11, NextOperationIs
  <2>2. DOMAIN MaxLoc(c, r, m).want \subseteq Ranks
    BY <1>1, <1>11 DEF MaxLoc, Allreduce, Operation, If
  <2> QED BY <2>1, <2>2
<1>12. CASE c.op \in {"scatter_n", "scatter", "scatter_list"}
  <2>1. o = ScatterN(c, r, m)
    BY <1>12, NextOperationIs
  <2>2. DOMAIN ScatterN(c, r, m).want \subseteq Ranks
    BY <1>1, <1>12 DEF ScatterN, Scatter, Operation, If
  <2> QED BY <2>1, <2>2
<1>13. CASE c.op = "scatterv"
  <2>1. o = Scatterv(c, r, m)
    BY <1>13, NextOperationIs
  <2>2. DOMAIN Scatterv(c, r, m).want \subseteq Ranks
    BY <1>1, <1>13 DEF Scatterv, Scatter, Operation, If
  <2> QED BY <2>1, <2>2
<1>14. CASE c.op = "scatterv_n_from"
  <2>1. o = ScattervFrom(c, r, m)
    BY <1>14, NextOperationIs
  <2>2. DOMAIN ScattervFrom(c, r, m).want \subseteq Ranks
    BY <1>1, <1>14 DEF ScattervFrom, Gather, Scatter, Operation, If
  <2> QED BY <2>1, <2>2
<1>15. CASE c.op \in {"gather", "igather"}
  <2>1. o = GatherN(c, r, m)
    BY <1>15, NextOperationIs
  <2>2. DOMAIN GatherN(c, r, m).want \subseteq Ranks
    BY <1>1, <1>15 DEF GatherN, Gather, Operation, If
  <2> QED BY <2>1, <2>2
<1>16. CASE c.op = "gather_value"
  <2>1. o = GatherValue(c, r, m)
    BY <1>16, NextOperationIs
  <2>2. DOMAIN GatherValue(c, r, m).want \subseteq Ranks
    BY <1>1, <1>16 DEF GatherValue, Gather, Operation, If
  <2> QED BY <2>1, <2>2
<1>17. CASE c.op = "all_gather_value"
  <2>1. o = AllGatherValue(c, r, m)
    BY <1>17, NextOperationIs
  <2>2. DOMAIN AllGatherValue(c, r, m).want \subseteq Ranks
    BY <1>1, <1>17 DEF AllGatherValue, AllGather, Operation, If
  <2> QED BY <2>1, <2>2
<1>18. CASE c.op = "gatherv"
  <2>1. o = GathervN(c, r, m)
    BY <1>18, NextOperationIs
  <2>2. DOMAIN GathervN(c, r, m).want \subseteq Ranks
    BY <1>1, <1>18 DEF GathervN, Gather, Operation, If
  <2> QED BY <2>1, <2>2
<1>19. CASE c.op = "gatherv_told"
  <2>1. o = GathervTold(c, r, m)
    BY <1>19, NextOperationIs
  <2>2. DOMAIN GathervTold(c, r, m).want \subseteq Ranks
    BY <1>1, <1>19 DEF GathervTold, AllGather, Gather, Operation, If
  <2> QED BY <2>1, <2>2
<1>20. CASE c.op = "gather_package"
  <2>1. o = GatherPackage(c, r, m)
    BY <1>20, NextOperationIs
  <2>2. DOMAIN GatherPackage(c, r, m).want \subseteq Ranks
    BY <1>1, <1>20 DEF GatherPackage, Gather, Operation, If
  <2> QED BY <2>1, <2>2
<1>21. CASE c.op \in {"all_gather", "iall_gather"}
  <2>1. o = AllGatherN(c, r, m)
    BY <1>21, NextOperationIs
  <2>2. DOMAIN AllGatherN(c, r, m).want \subseteq Ranks
    BY <1>1, <1>21 DEF AllGatherN, AllGather, Operation, If
  <2> QED BY <2>1, <2>2
<1>22. CASE c.op = "all_gather_package"
  <2>1. o = AllGatherPackage(c, r, m)
    BY <1>22, NextOperationIs
  <2>2. DOMAIN AllGatherPackage(c, r, m).want \subseteq Ranks
    BY <1>1, <1>22 DEF AllGatherPackage, AllGather, Operation, If
  <2> QED BY <2>1, <2>2
<1>23. CASE c.op \in {"all_gatherv", "all_gatherv_output"}
  <2>1. o = AllGatherv(c, r, m)
    BY <1>23, NextOperationIs
  <2>2. DOMAIN AllGatherv(c, r, m).want \subseteq Ranks
    BY <1>1, <1>23 DEF AllGatherv, AllGather, Operation, If
  <2> QED BY <2>1, <2>2
<1>24. CASE c.op \in {"all_to_all_n", "all_to_all_in_place", "all_to_all"}
  <2>1. o = AllToAllN(c, r, m)
    BY <1>24, NextOperationIs
  <2>2. DOMAIN AllToAllN(c, r, m).want \subseteq Ranks
    BY <1>1, <1>24 DEF AllToAllN, Alltoall, Operation, If
  <2> QED BY <2>1, <2>2
<1> QED BY <1>2, <1>3, <1>4, <1>5, <1>6, <1>7, <1>8, <1>9, <1>10, <1>11, <1>12, <1>13, <1>14, <1>15, <1>16, <1>17, <1>18, <1>19, <1>20, <1>21, <1>22, <1>23, <1>24
        DEF Callable, OfOneValue, OfEqualNumbers, OfOtherNumbers

-----------------------------------------------------------------------------
(* The places of the collectives in the program.                           *)

LEMMA ProgramIs ==
    ASSUME NEW p \in Programs
    PROVE  /\ Len(p) \in Nat /\ Len(p) > 0 /\ DOMAIN p = 1 .. Len(p)
           /\ \A i \in 1 .. Len(p) : Callable(p[i])
BY ProgramsAssumption

LEMMA BeforeIs ==
    ASSUME NEW p \in Programs
    PROVE  /\ Before(p)[0] = 0
           /\ \A i \in 0 .. Len(p) : Before(p)[i] \in Nat
           /\ \A i \in 1 .. Len(p) : /\ Before(p)[i] = Before(p)[i - 1] + Rounds(p[i])
                                     /\ Rounds(p[i]) \in {1, 2}
           /\ \A i \in 0 .. Len(p), j \in 0 .. Len(p) : i <= j => Before(p)[i] <= Before(p)[j]
<1>1. PICK n \in Nat : n = Len(p)
  BY ProgramIs
<1>2. \A i \in 1 .. n : Rounds(p[i]) \in {1, 2} /\ Rounds(p[i]) \in Nat
  BY DEF Rounds
<1>3. PICK sizes : sizes = RoundsOf(p)
  OBVIOUS
<1>4. sizes \in Seq(Nat) /\ Len(sizes) = n /\ \A i \in 1 .. n : sizes[i] = Rounds(p[i])
  BY <1>1, <1>2, <1>3 DEF RoundsOf
<1>5. Before(p) = Sums(sizes)
  BY <1>3 DEF Before
<1>6. /\ Sums(sizes) \in [0 .. n -> Nat] /\ Sums(sizes)[0] = 0
      /\ \A i \in 1 .. n : Sums(sizes)[i] = Sums(sizes)[i - 1] + sizes[i]
  BY <1>4, SumsAre
<1>7. ASSUME NEW i \in 0 .. n, NEW j \in 0 .. n, i <= j
      PROVE  Sums(sizes)[i] <= Sums(sizes)[j]
  <2>1. i \in 0 .. Len(sizes) /\ j \in 0 .. Len(sizes)
    BY <1>4
  <2> QED BY <1>4, <1>7, <2>1, SumsGrow
<1> QED BY <1>1, <1>2, <1>4, <1>5, <1>6, <1>7

\* No two collectives have one place.
LEMMA OnePlace ==
    ASSUME NEW p \in Programs, NEW i \in 1 .. Len(p), NEW j \in 1 .. Len(p),
           NEW s \in 1 .. Rounds(p[i]), NEW t \in 1 .. Rounds(p[j]),
           Before(p)[i - 1] + s = Before(p)[j - 1] + t
    PROVE  i = j /\ s = t
<1>1. PICK b \in [0 .. Len(p) -> Nat] : \A n \in 0 .. Len(p) : b[n] = Before(p)[n]
  <2>1. PICK b : b = [n \in 0 .. Len(p) |-> Before(p)[n]]
    OBVIOUS
  <2>2. \A n \in 0 .. Len(p) : Before(p)[n] \in Nat
    BY BeforeIs
  <2>3. b \in [0 .. Len(p) -> Nat] /\ \A n \in 0 .. Len(p) : b[n] = Before(p)[n]
    BY <2>1, <2>2
  <2> QED BY <2>3
<1>2. /\ Len(p) \in Nat /\ i - 1 \in 0 .. Len(p) /\ j - 1 \in 0 .. Len(p)
      /\ i \in 0 .. Len(p) /\ j \in 0 .. Len(p)
  BY ProgramIs
<1>3. /\ b[i] = b[i - 1] + Rounds(p[i]) /\ b[j] = b[j - 1] + Rounds(p[j])
      /\ Rounds(p[i]) \in {1, 2} /\ Rounds(p[j]) \in {1, 2}
  BY <1>1, <1>2, BeforeIs
<1>4. b[i - 1] + s = b[j - 1] + t
  BY <1>1, <1>2
<1>5. s \in Nat /\ t \in Nat /\ s >= 1 /\ t >= 1 /\ s <= Rounds(p[i]) /\ t <= Rounds(p[j])
  BY <1>3
<1>6. /\ b[i] \in Nat /\ b[j] \in Nat /\ b[i - 1] \in Nat /\ b[j - 1] \in Nat
  BY <1>1, <1>2
<1>7. ~(i < j)
  <2>1. SUFFICES ASSUME i < j PROVE FALSE
    OBVIOUS
  <2>2. i <= j - 1
    BY <1>2, <2>1
  <2>3. b[i] <= b[j - 1]
    <3>1. Before(p)[i] <= Before(p)[j - 1]
      BY <1>2, <2>2, BeforeIs
    <3> QED BY <1>1, <1>2, <3>1
  <2>4. b[i - 1] + s <= b[i]
    BY <1>3, <1>5, <1>6
  <2>5. b[j - 1] < b[j - 1] + t
    BY <1>5, <1>6
  <2>6. s \in Nat /\ t \in Nat
    BY <1>5
  <2> QED BY <1>4, <1>6, <2>3, <2>4, <2>5, <2>6
<1>8. ~(j < i)
  <2>1. SUFFICES ASSUME j < i PROVE FALSE
    OBVIOUS
  <2>2. j <= i - 1
    BY <1>2, <2>1
  <2>3. b[j] <= b[i - 1]
    <3>1. Before(p)[j] <= Before(p)[i - 1]
      BY <1>2, <2>2, BeforeIs
    <3> QED BY <1>1, <1>2, <3>1
  <2>4. b[j - 1] + t <= b[j]
    BY <1>3, <1>5, <1>6
  <2>5. b[i - 1] < b[i - 1] + s
    BY <1>5, <1>6
  <2>6. s \in Nat /\ t \in Nat
    BY <1>5
  <2> QED BY <1>4, <1>6, <2>3, <2>4, <2>5, <2>6
<1>9. i = j
  BY <1>2, <1>7, <1>8
<1> QED BY <1>4, <1>5, <1>6, <1>9

-----------------------------------------------------------------------------
(* The invariant.                                                          *)

LEMMA StartsAt ==
    ASSUME NEW c, Callable(c), NEW r \in Ranks
    PROVE  /\ Start(c, r) = Recalled(c, 1)[r] /\ Start(c, r).step = 1
           /\ 1 \in 1 .. Rounds(c) /\ 1 <= Rounds(c)
<1>1. 1 \in 1 .. Rounds(c) /\ 1 <= Rounds(c)
  BY DEF Rounds
<1> QED BY <1>1, BegunIs, StartIs DEF Recalled

LEMMA Initially == Init => CInv
<1> SUFFICES ASSUME Init PROVE CInv
  OBVIOUS
<1>1. /\ program \in Programs /\ Len(program) \in Nat /\ Len(program) > 0
      /\ Callable(program[1])
  BY ProgramIs DEF Init
<1>2. Shape
  BY <1>1, Empty DEF Init, Shape
<1>3. ASSUME NEW r \in Ranks PROVE Placed(r) /\ Planned(r) /\ Remembered(r)
  <2>1. /\ call[r] = 1 /\ posted[r] = <<>> /\ Len(posted[r]) = 0 /\ r \notin blocked
        /\ requests[r] = {} /\ DOMAIN results[r] = {} /\ mem[r] = Start(program[1], r)
    BY Empty DEF Init
  <2>2. /\ mem[r] = Recalled(program[1], 1)[r] /\ mem[r].step = 1
        /\ 1 <= Rounds(program[1])
    BY <1>1, <2>1, StartsAt
  <2>3. Before(program)[0] = 0
    BY <1>1, BeforeIs
  <2>4. Placed(r)
    BY <1>1, <2>1, <2>2, <2>3 DEF Placed
  <2> QED BY <2>1, <2>4 DEF Planned, Remembered
<1> QED BY <1>2, <1>3 DEF CInv

\* A rank of which nothing changes.
LEMMA OthersStay ==
    ASSUME NEW r, Placed(r), Planned(r), Remembered(r), program' = program, call'[r] = call[r],
           mem'[r] = mem[r], posted'[r] = posted[r], requests'[r] = requests[r],
           results'[r] = results[r], r \in blocked' <=> r \in blocked
    PROVE  (Placed(r) /\ Planned(r) /\ Remembered(r))'
BY DEF Placed, Planned, Remembered

\* What stands at a place.
LEMMA PostedIs ==
    ASSUME Shape, NEW r \in Ranks, Planned(r), NEW i \in 1 .. Len(program),
           NEW s \in 1 .. Rounds(program[i]), NEW k \in 1 .. Len(posted[r]),
           k = Before(program)[i - 1] + s
    PROVE  posted[r][k] = Collective(program[i], r, s)
<1>1. PICK j \in 1 .. Len(program) : \E t \in 1 .. Rounds(program[j]) :
          k = Before(program)[j - 1] + t /\ posted[r][k] = Collective(program[j], r, t)
  BY DEF Planned
<1>2. PICK t \in 1 .. Rounds(program[j]) :
          k = Before(program)[j - 1] + t /\ posted[r][k] = Collective(program[j], r, t)
  BY <1>1
<1>3. i = j /\ s = t
  BY <1>2, OnePlace DEF Shape
<1> QED BY <1>2, <1>3

\* The receive buffer, once what is expected has arrived.
LEMMA BufferIs ==
    ASSUME CInv, NEW r \in Ranks, NEW i \in 1 .. Len(program), NEW s \in 1 .. Rounds(program[i]),
           NEW k \in 1 .. Len(posted[r]), k = Before(program)[i - 1] + s, Arrived(r, k)
    PROVE  Buffer(r, k) = Brought(program[i], r, s)
<1>1. PICK c : c = program[i] /\ Callable(c)
  BY ProgramIs DEF CInv, Shape
<1>2. PICK mems : mems = Recalled(c, s)
  OBVIOUS
<1>3. PICK o : o = posted[r][k]
  OBVIOUS
<1>4. o = NextOperation(c, r, mems[r])
  BY <1>1, <1>2, <1>3, PostedIs DEF CInv, Collective
<1>5. DOMAIN o.want \subseteq Ranks
  BY <1>1, <1>4, WantsOfRanks
<1>6. ASSUME NEW q \in DOMAIN o.want
      PROVE  posted[q][k] = NextOperation(c, q, mems[q])
  <2>1. q \in Ranks /\ k <= Len(posted[q])
    BY <1>3, <1>5 DEF Arrived
  <2>2. Len(posted[q]) \in Nat
    BY <2>1 DEF CInv, Shape, IsSeq
  <2>3. Len(posted[r]) \in Nat
    BY DEF CInv, Shape, IsSeq
  <2>4. k \in 1 .. Len(posted[q])
    BY <2>1, <2>2, <2>3
  <2>5. posted[q][k] = Collective(c, q, s)
    BY <1>1, <2>1, <2>4, PostedIs DEF CInv
  <2> QED BY <1>2, <2>5 DEF Collective
<1>7. [q \in DOMAIN o.want |-> posted[q][k].give[r]]
      = [q \in DOMAIN o.want |-> NextOperation(c, q, mems[q]).give[r]]
  BY <1>6
<1>8. Buffer(r, k) = Delivered(o, [q \in DOMAIN o.want |-> posted[q][k].give[r]])
  BY <1>3 DEF Buffer
<1>9. Exchanged(c, r, mems) = Delivered(o, [q \in DOMAIN o.want |-> NextOperation(c, q, mems[q]).give[r]])
  BY <1>4 DEF Exchanged
<1> QED BY <1>1, <1>2, <1>7, <1>8, <1>9 DEF Brought

\* A rank that goes on to the next call.
LEMMA GoesOn ==
    ASSUME CInv, NEW r \in Ranks, NEW i \in 1 .. Len(program), i = call[r], GoOn(r), program' = program
    PROVE  /\ call' \in [Ranks -> 1 .. Len(program) + 1] /\ DOMAIN mem' = Ranks
           /\ call'[r] = i + 1 /\ mem'[r].step = 1
           /\ \A q \in Ranks : q # r => call'[q] = call[q] /\ mem'[q] = mem[q]
           /\ r \notin blocked' /\ Len(posted'[r]) = Before(program)[i] => Placed(r)'
<1>1. program \in Programs /\ Len(program) \in Nat /\ \A j \in 1 .. Len(program) : Callable(program[j])
  BY ProgramIs DEF CInv, Shape
<1>2. call \in [Ranks -> 1 .. Len(program) + 1] /\ DOMAIN mem = Ranks
  BY DEF CInv, Shape
<1>3. PICK new : new = IF i < Len(program) THEN Start(program[i + 1], r) ELSE Memory(<<>>)
  OBVIOUS
<1>4. call' = [call EXCEPT ![r] = i + 1] /\ mem' = [mem EXCEPT ![r] = new]
  BY <1>2, <1>3 DEF GoOn
<1>5. /\ call' \in [Ranks -> 1 .. Len(program) + 1] /\ DOMAIN mem' = Ranks
      /\ call'[r] = i + 1 /\ mem'[r] = new
      /\ \A q \in Ranks : q # r => call'[q] = call[q] /\ mem'[q] = mem[q]
  BY <1>1, <1>2, <1>4
<1>6. CASE i < Len(program)
  <2>1. PICK d : d = program[i + 1] /\ Callable(d) /\ i + 1 \in 1 .. Len(program)
    BY <1>1, <1>6
  <2>2. new = Recalled(d, 1)[r] /\ new.step = 1 /\ 1 <= Rounds(d)
    BY <1>3, <1>6, <2>1, StartsAt
  <2>3. ASSUME r \notin blocked', Len(posted'[r]) = Before(program)[i]
        PROVE  Placed(r)'
    <3>1. (i + 1) - 1 = i /\ i + 1 <= Len(program) /\ Before(program)[i] \in Nat
      BY <1>1, <2>1, BeforeIs
    <3> QED BY <1>5, <2>1, <2>2, <2>3, <3>1 DEF Placed
  <2> QED BY <1>5, <2>2, <2>3
<1>7. CASE ~(i < Len(program))
  <2>1. new = Memory(<<>>) /\ new.step = 1
    BY <1>3, <1>7 DEF Memory
  <2>2. ASSUME r \notin blocked', Len(posted'[r]) = Before(program)[i]
        PROVE  Placed(r)'
    <3>1. (i + 1) - 1 = i /\ ~(i + 1 <= Len(program)) /\ Before(program)[i] \in Nat
      BY <1>1, <1>7, BeforeIs
    <3> QED BY <1>5, <2>1, <2>2, <3>1 DEF Placed
  <2> QED BY <1>5, <2>1, <2>2
<1> QED BY <1>6, <1>7

\* Where a rank is that has a call to make.
LEMMA WhereIs ==
    ASSUME CInv, NEW r \in Ranks, NEW i \in 1 .. Len(program), i = call[r], NEW c, c = program[i]
    PROVE  /\ program \in Programs /\ Len(program) \in Nat /\ Callable(c) /\ IsSeq(posted[r])
           /\ Before(program)[i - 1] \in Nat /\ Len(posted[r]) \in Nat
           /\ Before(program)[i] = Before(program)[i - 1] + Rounds(c) /\ Rounds(c) \in {1, 2}
           /\ \E s \in 1 .. Rounds(c) :
                  /\ s = mem[r].step /\ mem[r] = Recalled(c, s)[r]
                  /\ NextOperation(c, r, mem[r]) = Collective(c, r, s)
                  /\ r \notin blocked => Len(posted[r]) + 1 = Before(program)[i - 1] + s
                  /\ r \in blocked => Len(posted[r]) = Before(program)[i - 1] + s /\ ~Immediate(c)
<1>1. program \in Programs /\ Len(program) \in Nat /\ Callable(c) /\ IsSeq(posted[r])
  BY ProgramIs DEF CInv, Shape
<1>2. PICK b \in Nat : b = Before(program)[i - 1]
  <2>1. i - 1 \in 0 .. Len(program)
    BY <1>1
  <2> QED BY <1>1, <2>1, BeforeIs
<1>3. Before(program)[i] = Before(program)[i - 1] + Rounds(c) /\ Rounds(c) \in {1, 2}
  BY <1>1, BeforeIs
<1>4. PICK s \in 1 .. Rounds(c) : s = mem[r].step /\ mem[r] = Recalled(c, s)[r]
  <2>1. mem[r].step \in Nat \ {0} /\ mem[r].step <= Rounds(c) /\ mem[r] = Recalled(c, mem[r].step)[r]
    BY <1>1 DEF CInv, Placed
  <2>2. mem[r].step \in 1 .. Rounds(c)
    BY <1>3, <2>1
  <2> QED BY <2>1, <2>2
<1>5. NextOperation(c, r, mem[r]) = Collective(c, r, s)
  BY <1>4 DEF Collective
<1>6. Len(posted[r]) = b + s - (IF r \in blocked THEN 0 ELSE 1)
  BY <1>2, <1>4 DEF CInv, Placed
<1>7. r \in blocked => ~Immediate(c)
  BY DEF CInv, Placed
<1>8. Len(posted[r]) \in Nat
  BY <1>1 DEF IsSeq
<1>9. s \in Nat
  BY <1>3
<1>10. /\ r \notin blocked => Len(posted[r]) + 1 = b + s
       /\ r \in blocked => Len(posted[r]) = b + s
  BY <1>6, <1>9
<1> QED BY <1>1, <1>2, <1>3, <1>4, <1>5, <1>7, <1>8, <1>10

LEMMA PostKeeps ==
    ASSUME CInv, NEW r \in Ranks, Post(r)
    PROVE  CInv'
<1>1. PICK i \in 1 .. Len(program) : i = call[r] /\ r \notin blocked
  <2>1. Len(program) \in Nat /\ call[r] \in 1 .. Len(program) + 1
    BY ProgramIs DEF CInv, Shape
  <2> QED BY <2>1 DEF Post
<1>2. PICK c : c = program[i]
  OBVIOUS
<1>3. /\ program \in Programs /\ Len(program) \in Nat /\ Callable(c) /\ IsSeq(posted[r])
      /\ Before(program)[i - 1] \in Nat /\ Len(posted[r]) \in Nat
      /\ Before(program)[i] = Before(program)[i - 1] + Rounds(c) /\ Rounds(c) \in {1, 2}
  BY <1>1, <1>2, WhereIs
<1>4. PICK s \in 1 .. Rounds(c) :
          /\ s = mem[r].step /\ mem[r] = Recalled(c, s)[r]
          /\ NextOperation(c, r, mem[r]) = Collective(c, r, s)
          /\ Len(posted[r]) + 1 = Before(program)[i - 1] + s
  BY <1>1, <1>2, WhereIs
<1>5. PICK o : o = Collective(c, r, s)
  OBVIOUS
<1>6. PICK new : new = Append(posted[r], o)
  OBVIOUS
<1>7. PICK k \in Nat : k = Len(posted[r])
  BY <1>3
<1>8. /\ IsSeq(new) /\ Len(new) = k + 1 /\ new[k + 1] = o
      /\ \A j \in 1 .. k : new[j] = posted[r][j]
  BY <1>3, <1>6, <1>7, AppendIs
<1>9. /\ program' = program /\ results' = results
      /\ posted' = [posted EXCEPT ![r] = new]
  BY <1>1, <1>2, <1>4, <1>5, <1>6 DEF Post, CInv, Shape
<1>10. /\ DOMAIN posted' = Ranks /\ posted'[r] = new
       /\ \A q \in Ranks : q # r => posted'[q] = posted[q]
  BY <1>9 DEF CInv, Shape
<1>11. Planned(r)'
  <2>1. ASSUME NEW j \in 1 .. k + 1
        PROVE  \E h \in 1 .. Len(program) : \E t \in 1 .. Rounds(program[h]) :
                   j = Before(program)[h - 1] + t /\ new[j] = Collective(program[h], r, t)
    <3>1. CASE j = k + 1
      BY <1>2, <1>4, <1>5, <1>7, <1>8, <3>1
    <3>2. CASE j # k + 1
      <4>1. j \in 1 .. k
        BY <3>2
      <4> QED BY <1>7, <1>8, <4>1 DEF CInv, Planned
    <3> QED BY <3>1, <3>2
  <2> QED BY <1>8, <1>9, <1>10, <2>1 DEF Planned
<1>12. \A q \in Ranks : IsSeq(posted'[q])
  BY <1>8, <1>10 DEF CInv, Shape
<1>13. CASE Immediate(c)
  <2>1. PICK ask : ask = <<k + 1, i>>
    OBVIOUS
  <2>2. /\ requests' = [requests EXCEPT ![r] = requests[r] \cup {ask}]
        /\ GoOn(r) /\ blocked' = blocked
    BY <1>1, <1>2, <1>7, <1>13, <2>1 DEF Post, CInv, Shape
  <2>3. /\ call' \in [Ranks -> 1 .. Len(program) + 1] /\ DOMAIN mem' = Ranks
        /\ call'[r] = i + 1
        /\ \A q \in Ranks : q # r => call'[q] = call[q] /\ mem'[q] = mem[q]
        /\ r \notin blocked' /\ Len(posted'[r]) = Before(program)[i] => Placed(r)'
    BY <1>1, <1>9, <2>2, GoesOn
  <2>4. DOMAIN requests' = Ranks /\ requests'[r] = requests[r] \cup {ask}
        /\ \A q \in Ranks : q # r => requests'[q] = requests[q]
    BY <2>2 DEF CInv, Shape
  <2>5. Rounds(c) = 1 /\ s = 1
    <3>1. Rounds(c) = 1
      BY <1>13 DEF Immediate, Rounds, OfTwoRounds
    <3> QED BY <3>1
  <2>6. Placed(r)'
    BY <1>1, <1>3, <1>4, <1>7, <1>8, <1>10, <2>2, <2>3, <2>5
  <2>7. Remembered(r)'
    <3>1. ASSUME NEW q \in requests'[r]
          PROVE  \E h \in 1 .. Len(program) :
                     /\ q = <<Before(program)[h - 1] + 1, h>> /\ Immediate(program[h])
                     /\ q[1] <= Len(posted'[r]) /\ h < call'[r]
      <4>1. CASE q = ask
        <5>1. k + 1 = Before(program)[i - 1] + 1 /\ i < i + 1 /\ ask[1] = k + 1
          BY <1>3, <1>4, <1>7, <2>1, <2>5
        <5> QED BY <1>2, <1>8, <1>10, <1>13, <2>1, <2>3, <4>1, <5>1
      <4>2. CASE q \in requests[r]
        <5>1. PICK h \in 1 .. Len(program) :
                  /\ q = <<Before(program)[h - 1] + 1, h>> /\ Immediate(program[h])
                  /\ q[1] <= k /\ h < i
          BY <1>1, <1>7, <4>2 DEF CInv, Remembered
        <5>2. Before(program)[h - 1] \in Nat
          <6>1. h - 1 \in 0 .. Len(program)
            BY <1>3
          <6> QED BY <1>3, <6>1, BeforeIs
        <5>3. q[1] <= k + 1 /\ h < i + 1
          BY <1>3, <5>1, <5>2
        <5> QED BY <1>8, <1>10, <2>3, <5>1, <5>3
      <4> QED BY <2>4, <4>1, <4>2
    <3>2. ASSUME NEW j \in DOMAIN results[r]
          PROVE  /\ j \in 1 .. Len(program) /\ j < call'[r]
                 /\ results[r][j] = Outcome(program[j], r)
      <4>1. j \in 1 .. Len(program) /\ j < i /\ results[r][j] = Outcome(program[j], r)
        BY <1>1 DEF CInv, Remembered
      <4>2. j < i + 1
        BY <1>3, <4>1
      <4> QED BY <2>3, <4>1, <4>2
    <3> QED BY <1>9, <3>1, <3>2 DEF Remembered
  <2>8. ASSUME NEW q \in Ranks, q # r PROVE (Placed(q) /\ Planned(q) /\ Remembered(q))'
    BY <1>9, <1>10, <2>2, <2>3, <2>4, <2>8, OthersStay DEF CInv
  <2>9. Shape'
    BY <1>9, <1>10, <1>12, <2>2, <2>3, <2>4 DEF CInv, Shape
  <2> QED BY <1>11, <2>6, <2>7, <2>8, <2>9 DEF CInv
<1>14. CASE ~Immediate(c)
  <2>1. blocked' = blocked \cup {r} /\ requests' = requests /\ call' = call /\ mem' = mem
    BY <1>1, <1>2, <1>14 DEF Post
  <2>2. Placed(r)'
    <3>1. mem[r].step \in Nat \ {0} /\ mem[r].step <= Rounds(c) /\ mem[r] = Recalled(c, mem[r].step)[r]
      BY <1>3, <1>4
    <3>2. Len(new) = Before(program)[i - 1] + mem[r].step - 0
      BY <1>3, <1>4, <1>7, <1>8
    <3>3. i <= Len(program)
      BY <1>3
    <3> QED BY <1>1, <1>2, <1>9, <1>10, <1>14, <2>1, <3>1, <3>2, <3>3 DEF Placed
  <2>3. Remembered(r)'
    <3>1. ASSUME NEW q \in requests[r]
          PROVE  \E h \in 1 .. Len(program) :
                     /\ q = <<Before(program)[h - 1] + 1, h>> /\ Immediate(program[h])
                     /\ q[1] <= k + 1 /\ h < call[r]
      <4>1. PICK h \in 1 .. Len(program) :
                /\ q = <<Before(program)[h - 1] + 1, h>> /\ Immediate(program[h])
                /\ q[1] <= k /\ h < call[r]
        BY <1>7 DEF CInv, Remembered
      <4>2. Before(program)[h - 1] \in Nat
        <5>1. h - 1 \in 0 .. Len(program)
          BY <1>3
        <5> QED BY <1>3, <5>1, BeforeIs
      <4>3. q[1] <= k + 1
        BY <4>1, <4>2
      <4> QED BY <4>1, <4>3
    <3> QED BY <1>8, <1>9, <1>10, <2>1, <3>1 DEF Remembered, CInv
  <2>4. ASSUME NEW q \in Ranks, q # r PROVE (Placed(q) /\ Planned(q) /\ Remembered(q))'
    BY <1>9, <1>10, <2>1, <2>4, OthersStay DEF CInv
  <2>5. Shape'
    BY <1>9, <1>10, <1>12, <2>1 DEF CInv, Shape
  <2> QED BY <1>11, <2>2, <2>3, <2>4, <2>5 DEF CInv
<1> QED BY <1>13, <1>14

\* One more result of a rank.
LEMMA ResultIs ==
    ASSUME Shape, NEW r \in Ranks, NEW i, NEW m, Result(r, i, m)
    PROVE  /\ DOMAIN results' = Ranks /\ DOMAIN results'[r] = DOMAIN results[r] \cup {i}
           /\ results'[r][i] = m
           /\ \A j \in DOMAIN results[r] : j # i => results'[r][j] = results[r][j]
           /\ \A q \in Ranks : q # r => results'[q] = results[q]
<1>1. PICK new : new = [j \in DOMAIN results[r] \cup {i} |-> IF j = i THEN m ELSE results[r][j]]
  OBVIOUS
<1>2. results' = [results EXCEPT ![r] = new]
  BY <1>1 DEF Result, Shape
<1> QED BY <1>1, <1>2 DEF Shape

LEMMA CompleteKeeps ==
    ASSUME CInv, NEW r \in Ranks, Complete(r)
    PROVE  CInv'
<1>1. PICK i \in 1 .. Len(program) : i = call[r] /\ r \in blocked
  <2>1. Len(program) \in Nat /\ call[r] \in 1 .. Len(program) + 1
    BY ProgramIs DEF CInv, Shape
  <2>2. r \in blocked /\ call[r] <= Len(program)
    BY DEF Complete, CInv, Placed
  <2> QED BY <2>1, <2>2
<1>2. PICK c : c = program[i]
  OBVIOUS
<1>3. /\ program \in Programs /\ Len(program) \in Nat /\ Callable(c) /\ IsSeq(posted[r])
      /\ Before(program)[i - 1] \in Nat /\ Len(posted[r]) \in Nat
      /\ Before(program)[i] = Before(program)[i - 1] + Rounds(c) /\ Rounds(c) \in {1, 2}
  BY <1>1, <1>2, WhereIs
<1>4. PICK s \in 1 .. Rounds(c) :
          /\ s = mem[r].step /\ mem[r] = Recalled(c, s)[r] /\ ~Immediate(c)
          /\ Len(posted[r]) = Before(program)[i - 1] + s
  BY <1>1, <1>2, WhereIs
<1>5. PICK k \in 1 .. Len(posted[r]) : k = Len(posted[r])
  <2>1. PICK n \in Nat, b \in Nat : n = Len(posted[r]) /\ b = Before(program)[i - 1]
    BY <1>3
  <2>2. PICK t \in {1, 2} : t = s
    BY <1>3
  <2>3. n = b + t
    BY <1>4, <2>1, <2>2
  <2>4. n \in 1 .. n
    BY <2>3
  <2> QED BY <2>1, <2>4
<1>6. Buffer(r, k) = Brought(c, r, s)
  <2>1. Arrived(r, k)
    BY <1>5 DEF Complete
  <2> QED BY <1>2, <1>4, <1>5, <2>1, BufferIs
<1>7. PICK m : m = AfterOperation(c, r, Recalled(c, s)[r], Brought(c, r, s))
  OBVIOUS
<1>8. /\ blocked' = blocked \ {r} /\ program' = program /\ posted' = posted /\ requests' = requests
      /\ m.step = Done => Result(r, i, m) /\ GoOn(r)
      /\ m.step # Done => mem' = [mem EXCEPT ![r] = m] /\ call' = call /\ results' = results
  BY <1>1, <1>2, <1>4, <1>5, <1>6, <1>7 DEF Complete
<1>9. Planned(r)'
  BY <1>8 DEF CInv, Planned
<1>10. CASE s = Rounds(c) /\ m.step = Done /\ m = Outcome(c, r)
  <2>1. Result(r, i, m) /\ GoOn(r)
    BY <1>8, <1>10
  <2>2. /\ call' \in [Ranks -> 1 .. Len(program) + 1] /\ DOMAIN mem' = Ranks
        /\ call'[r] = i + 1
        /\ \A q \in Ranks : q # r => call'[q] = call[q] /\ mem'[q] = mem[q]
        /\ r \notin blocked' /\ Len(posted'[r]) = Before(program)[i] => Placed(r)'
    BY <1>1, <1>8, <2>1, GoesOn
  <2>3. Placed(r)'
    <3>1. r \notin blocked' /\ Len(posted'[r]) = Before(program)[i]
      BY <1>3, <1>4, <1>8, <1>10
    <3> QED BY <2>2, <3>1
  <2>4. /\ DOMAIN results' = Ranks /\ DOMAIN results'[r] = DOMAIN results[r] \cup {i}
        /\ results'[r][i] = m
        /\ \A j \in DOMAIN results[r] : j # i => results'[r][j] = results[r][j]
        /\ \A q \in Ranks : q # r => results'[q] = results[q]
    BY <2>1, ResultIs DEF CInv
  <2>5. Remembered(r)'
    <3>1. ASSUME NEW q \in requests[r]
          PROVE  \E h \in 1 .. Len(program) :
                     /\ q = <<Before(program)[h - 1] + 1, h>> /\ Immediate(program[h])
                     /\ q[1] <= Len(posted[r]) /\ h < i + 1
      <4>1. PICK h \in 1 .. Len(program) :
                /\ q = <<Before(program)[h - 1] + 1, h>> /\ Immediate(program[h])
                /\ q[1] <= Len(posted[r]) /\ h < i
        BY <1>1 DEF CInv, Remembered
      <4>2. h < i + 1
        BY <1>3, <4>1
      <4> QED BY <4>1, <4>2
    <3>2. ASSUME NEW j \in DOMAIN results'[r]
          PROVE  /\ j \in 1 .. Len(program) /\ j < i + 1
                 /\ results'[r][j] = Outcome(program[j], r)
      <4>1. CASE j = i
        <5>1. i < i + 1
          BY <1>3
        <5> QED BY <1>2, <1>10, <2>4, <4>1, <5>1
      <4>2. CASE j # i
        <5>1. j \in DOMAIN results[r] /\ results'[r][j] = results[r][j]
          BY <2>4, <4>2
        <5>2. j \in 1 .. Len(program) /\ j < i /\ results[r][j] = Outcome(program[j], r)
          BY <1>1, <5>1 DEF CInv, Remembered
        <5>3. j < i + 1
          BY <1>3, <5>2
        <5> QED BY <5>1, <5>2, <5>3
      <4> QED BY <4>1, <4>2
    <3> QED BY <1>8, <2>2, <3>1, <3>2 DEF Remembered
  <2>6. ASSUME NEW q \in Ranks, q # r PROVE (Placed(q) /\ Planned(q) /\ Remembered(q))'
    BY <1>8, <2>2, <2>4, <2>6, OthersStay DEF CInv
  <2>7. Shape'
    BY <1>8, <2>2, <2>4 DEF CInv, Shape
  <2> QED BY <1>9, <2>3, <2>5, <2>6, <2>7 DEF CInv
<1>11. CASE s = 1 /\ Rounds(c) = 2 /\ m.step = 2 /\ m = Recalled(c, 2)[r]
  <2>1. mem' = [mem EXCEPT ![r] = m] /\ call' = call /\ results' = results
    BY <1>8, <1>11 DEF Done
  <2>2. /\ DOMAIN mem' = Ranks /\ mem'[r] = m
        /\ \A q \in Ranks : q # r => mem'[q] = mem[q]
    BY <2>1 DEF CInv, Shape
  <2>3. Placed(r)'
    <3>1. mem'[r].step = 2 /\ Len(posted'[r]) = Before(program)[i - 1] + 2 - 1 /\ i <= Len(program)
      BY <1>3, <1>4, <1>8, <1>11, <2>2
    <3>2. r \notin blocked' /\ call'[r] = i
      BY <1>1, <1>8, <2>1
    <3> QED BY <1>2, <1>8, <1>11, <2>2, <3>1, <3>2 DEF Placed
  <2>4. Remembered(r)'
    BY <1>8, <2>1 DEF CInv, Remembered
  <2>5. ASSUME NEW q \in Ranks, q # r PROVE (Placed(q) /\ Planned(q) /\ Remembered(q))'
    BY <1>8, <2>1, <2>2, <2>5, OthersStay DEF CInv
  <2>6. Shape'
    BY <1>8, <2>1, <2>2 DEF CInv, Shape
  <2> QED BY <1>9, <2>3, <2>4, <2>5, <2>6 DEF CInv
<1>12. \/ s = Rounds(c) /\ m.step = Done /\ m = Outcome(c, r) /\ m.inside \in BOOLEAN
       \/ s = 1 /\ Rounds(c) = 2 /\ m.step = 2 /\ m = Recalled(c, 2)[r]
  <2>1. Callable(c) /\ ~Immediate(c)
    BY <1>3, <1>4
  <2> QED BY <1>7, <2>1, StepOfCall
<1> QED BY <1>10, <1>11, <1>12

LEMMA WaitKeeps ==
    ASSUME CInv, NEW r \in Ranks, Wait(r)
    PROVE  CInv'
<1>1. PICK ask \in requests[r] :
          /\ Arrived(r, ask[1]) /\ requests' = [requests EXCEPT ![r] = requests[r] \ {ask}]
          /\ Result(r, ask[2], [Memory(Buffer(r, ask[1])) EXCEPT !.step = Done])
  BY DEF Wait, CInv, Shape
<1>2. PICK i \in 1 .. Len(program) :
          /\ ask = <<Before(program)[i - 1] + 1, i>> /\ Immediate(program[i])
          /\ ask[1] <= Len(posted[r]) /\ i < call[r]
  BY DEF CInv, Remembered
<1>3. /\ program' = program /\ call' = call /\ mem' = mem /\ posted' = posted /\ blocked' = blocked
  BY DEF Wait
<1>4. /\ program \in Programs /\ Len(program) \in Nat /\ Callable(program[i])
      /\ Len(posted[r]) \in Nat
  BY ProgramIs DEF CInv, Shape, IsSeq
<1>5. PICK k \in 1 .. Len(posted[r]) : k = ask[1] /\ k = Before(program)[i - 1] + 1
  <2>1. Before(program)[i - 1] \in Nat
    <3>1. i - 1 \in 0 .. Len(program)
      BY <1>4
    <3> QED BY <1>4, <3>1, BeforeIs
  <2> QED BY <1>2, <1>4, <2>1
<1>6. PICK s \in 1 .. Rounds(program[i]) : s = 1
  BY DEF Rounds
<1>7. Buffer(r, k) = Brought(program[i], r, 1)
  BY <1>1, <1>5, <1>6, BufferIs
<1>8. PICK m : m = [Memory(Buffer(r, k)) EXCEPT !.step = Done]
  OBVIOUS
<1>9. m = Outcome(program[i], r)
  BY <1>2, <1>7, <1>8 DEF Outcome
<1>10. Result(r, i, m)
  BY <1>1, <1>2, <1>5, <1>8
<1>11. /\ DOMAIN results' = Ranks /\ DOMAIN results'[r] = DOMAIN results[r] \cup {i}
       /\ results'[r][i] = m
       /\ \A j \in DOMAIN results[r] : j # i => results'[r][j] = results[r][j]
       /\ \A q \in Ranks : q # r => results'[q] = results[q]
  BY <1>10, ResultIs DEF CInv
<1>12. /\ DOMAIN requests' = Ranks /\ requests'[r] \subseteq requests[r]
       /\ \A q \in Ranks : q # r => requests'[q] = requests[q]
  BY <1>1 DEF CInv, Shape
<1>13. Placed(r)' /\ Planned(r)'
  BY <1>3 DEF CInv, Placed, Planned
<1>14. Remembered(r)'
  <2>1. ASSUME NEW q \in requests'[r]
        PROVE  \E h \in 1 .. Len(program) :
                   /\ q = <<Before(program)[h - 1] + 1, h>> /\ Immediate(program[h])
                   /\ q[1] <= Len(posted[r]) /\ h < call[r]
    BY <1>12 DEF CInv, Remembered
  <2>2. ASSUME NEW j \in DOMAIN results'[r]
        PROVE  /\ j \in 1 .. Len(program) /\ j < call[r]
               /\ results'[r][j] = Outcome(program[j], r)
    <3>1. CASE j = i
      BY <1>2, <1>9, <1>11, <3>1
    <3>2. CASE j # i
      <4>1. j \in DOMAIN results[r] /\ results'[r][j] = results[r][j]
        BY <1>11, <3>2
      <4> QED BY <4>1 DEF CInv, Remembered
    <3> QED BY <3>1, <3>2
  <2> QED BY <1>3, <2>1, <2>2 DEF Remembered
<1>15. ASSUME NEW q \in Ranks, q # r PROVE (Placed(q) /\ Planned(q) /\ Remembered(q))'
  BY <1>3, <1>11, <1>12, <1>15, OthersStay DEF CInv
<1>16. Shape'
  BY <1>3, <1>11, <1>12 DEF CInv, Shape
<1> QED BY <1>13, <1>14, <1>15, <1>16 DEF CInv

-----------------------------------------------------------------------------
(* What holds of every behaviour.                                          *)

LEMMA NextKeeps ==
    ASSUME CInv, [Next]_vars
    PROVE  CInv'
<1>1. CASE Next
  BY <1>1, PostKeeps, CompleteKeeps, WaitKeeps DEF Next
<1>2. CASE UNCHANGED vars
  <2>1. ASSUME NEW r \in Ranks PROVE (Placed(r) /\ Planned(r) /\ Remembered(r))'
    BY <1>2, OthersStay DEF vars, CInv
  <2>2. Shape'
    BY <1>2 DEF vars, CInv, Shape
  <2> QED BY <2>1, <2>2 DEF CInv
<1> QED BY <1>1, <1>2

\* Every rank is where the program says it is, with what it would have there: what a
\* collective brings depends on its place in the program and not on who is ahead of whom.
THEOREM RanksFollowTheProgram == Spec => []CInv
<1>1. Init => CInv
  BY Initially
<1>2. CInv /\ [Next]_vars => CInv'
  BY NextKeeps
<1> QED BY <1>1, <1>2, PTL DEF Spec

\* The calls of MPI that the library makes match one another on every communicator and for
\* every program (communicator.hpp): the k-th collectives of two ranks are of one kind and
\* with one root, and the numbers of elements that one gives and the other expects agree,
\* those of the second collective of a call, which come from the first, as well.
THEOREM CollectivesMatchAlways == Spec => []CollectivesAgree
<1>1. CInv => CollectivesAgree
  <2>1. SUFFICES ASSUME CInv PROVE CollectivesAgree
    OBVIOUS
  <2>2. ASSUME NEW r \in Ranks, NEW q \in Ranks, NEW k \in DOMAIN posted[r] \cap DOMAIN posted[q]
        PROVE  Matches(posted[r][k], posted[q][k], r, q)
    <3>1. k \in 1 .. Len(posted[r]) /\ k \in 1 .. Len(posted[q])
      BY <2>1, SeqShape DEF CInv, Shape
    <3>2. PICK i \in 1 .. Len(program) : \E s \in 1 .. Rounds(program[i]) :
              k = Before(program)[i - 1] + s /\ posted[r][k] = Collective(program[i], r, s)
      BY <2>1, <3>1 DEF CInv, Planned
    <3>3. PICK s \in 1 .. Rounds(program[i]) :
              k = Before(program)[i - 1] + s /\ posted[r][k] = Collective(program[i], r, s)
      BY <3>2
    <3>4. posted[q][k] = Collective(program[i], q, s)
      BY <2>1, <3>1, <3>3, PostedIs DEF CInv
    <3>5. Callable(program[i])
      BY <2>1, ProgramIs DEF CInv, Shape
    <3> QED BY <3>3, <3>4, <3>5, CollectivesMatch
  <2> QED BY <2>2 DEF CollectivesAgree, Matches
<1> QED BY <1>1, RanksFollowTheProgram, PTL

\* Each rank is in a call of its program or past the last, at one of its two steps, its
\* requests are of collectives it has started, and it has results of calls up to its own.
THEOREM CollectivesTypes == Spec => []TypeOK
<1>1. CInv => TypeOK
  <2>1. SUFFICES ASSUME CInv PROVE TypeOK
    OBVIOUS
  <2>2. /\ program \in Programs /\ Len(program) \in Nat /\ DOMAIN program = 1 .. Len(program)
        /\ \A i \in 1 .. Len(program) : Callable(program[i])
    BY <2>1, ProgramIs DEF CInv, Shape
  <2>3. ASSUME NEW r \in Ranks
        PROVE  mem[r].step \in 1 .. 2 /\ mem[r].inside \in BOOLEAN
    <3>1. CASE call[r] \in 1 .. Len(program)
      <4>1. PICK i \in 1 .. Len(program) : i = call[r]
        BY <3>1
      <4>2. PICK c : c = program[i] /\ Callable(c)
        BY <2>2
      <4>3. PICK s \in 1 .. Rounds(c) : s = mem[r].step /\ mem[r] = Recalled(c, s)[r]
        BY <2>1, <4>1, <4>2, WhereIs
      <4>4. s \in {1, 2} /\ At(mem[r], s)
        BY <4>2, <4>3, RecalledIs
      <4> QED BY <4>3, <4>4 DEF At
    <3>2. CASE call[r] \notin 1 .. Len(program)
      <4>1. call[r] = Len(program) + 1 /\ ~(call[r] <= Len(program))
        BY <2>1, <2>2, <3>2 DEF CInv, Shape
      <4>2. mem[r] = Memory(<<>>)
        BY <2>1, <4>1 DEF CInv, Placed
      <4> QED BY <4>2 DEF Memory
    <3> QED BY <3>1, <3>2
  <2>4. ASSUME NEW r \in Ranks
        PROVE  requests[r] \subseteq (DOMAIN posted[r]) \X (DOMAIN program)
    <3>1. ASSUME NEW q \in requests[r]
          PROVE  q \in (DOMAIN posted[r]) \X (DOMAIN program)
      <4>1. PICK i \in 1 .. Len(program) : q = <<Before(program)[i - 1] + 1, i>> /\ q[1] <= Len(posted[r])
        BY <2>1 DEF CInv, Remembered
      <4>2. Before(program)[i - 1] \in Nat
        <5>1. i - 1 \in 0 .. Len(program)
          BY <2>2
        <5> QED BY <2>2, <5>1, BeforeIs
      <4>3. Len(posted[r]) \in Nat /\ DOMAIN posted[r] = 1 .. Len(posted[r])
        BY <2>1, SeqShape DEF CInv, Shape
      <4>4. q[1] \in DOMAIN posted[r]
        BY <4>1, <4>2, <4>3
      <4> QED BY <2>2, <4>1, <4>4
    <3> QED BY <3>1
  <2>5. ASSUME NEW r \in Ranks, NEW i \in DOMAIN results[r]
        PROVE  i \in 1 .. call[r]
    <3>1. i \in 1 .. Len(program) /\ i < call[r]
      BY <2>1 DEF CInv, Remembered
    <3>2. call[r] \in 1 .. Len(program) + 1
      BY <2>1 DEF CInv, Shape
    <3> QED BY <2>2, <3>1, <3>2
  <2>6. \A r \in Ranks : call[r] \in 1 .. Len(program) + 1
    BY <2>1 DEF CInv, Shape
  <2> QED BY <2>1, <2>2, <2>3, <2>4, <2>5, <2>6 DEF TypeOK, CInv, Shape
<1> QED BY <1>1, RanksFollowTheProgram, PTL

-----------------------------------------------------------------------------
(* The outcome of a call.                                                  *)

\* What the last collective of a call leaves in its memory.
Left(c, r, m, got, n) ==
    /\ n.out = IF c.op = "reduce_in_place" /\ r # c.root THEN m.out ELSE got
    /\ c.op = "scatter_list" => n.inside = ListHolds(c, r)
    /\ c.op # "scatter_list" => n.inside = m.inside
    /\ c.op \in {"broadcast_value", "gatherv_told", "reduce_in_place"} => n.end = m.end \/ PlainAfter(c, r)
    /\ c.op = "max_element" => n.end = IF got[1][2] = r THEN 1 ELSE 0
    /\ c.op = "scatterv" => n.end = m.sizes[1]
    /\ c.op = "scatterv_n_from" => n.end = AtRoot(c, r, m.displs[Size] + m.sizes[Size])
    /\ c.op = "gather_package" => n.end = AtRoot(c, r, c.n[r] * Size)
    /\ c.op = "all_gather_package" => n.end = c.n[r] * Size
    /\ c.op = "all_gatherv_output" => n.end = Len(got)
    /\ c.op = "all_gatherv" => n.end = m.displs[Size] + m.sizes[Size]
    /\ c.op = "scatter_list" => n.end = 1
    /\ PlainAfter(c, r) => n.end = ReturnedEnd(c, r, m)

LEMMA LastStep ==
    ASSUME NEW c, Callable(c), NEW r, NEW m, At(m, Rounds(c)), NEW got,
           NEW n, n = AfterOperation(c, r, m, got)
    PROVE  Left(c, r, m, got, n)
<1> USE DEF Left
<1>1. IsMemory(m) /\ m.step = Rounds(c)
  BY DEF At
<1>2. CASE c.op = "broadcast_value"
  <2>1. m.step # 1
    BY <1>1, <1>2 DEF Rounds, OfTwoRounds
  <2>2. n = BroadcastValueAfter(c, r, m, got)
    BY <1>2 DEF AfterOperation
  <2>3. BroadcastValueAfter(c, r, m, got) = [m EXCEPT !.step = Done, !.out = got]
    BY Zenon, <2>1, <1>2 DEF BroadcastValueAfter
  <2>4. n = [m EXCEPT !.step = Done, !.out = got]
    BY Zenon, <2>2, <2>3
  <2>5. ~PlainAfter(c, r)
    BY <1>2 DEF PlainAfter, OfTwoRounds
  <2> QED BY <1>1, <1>2, <2>4, <2>5, MemoryChanges
<1>3. CASE c.op = "scatterv"
  <2>1. m.step # 1
    BY <1>1, <1>3 DEF Rounds, OfTwoRounds
  <2>2. n = ScattervAfter(c, r, m, got)
    BY <1>3 DEF AfterOperation
  <2>3. ScattervAfter(c, r, m, got) = [m EXCEPT !.step = Done, !.out = got, !.end = m.sizes[1]]
    BY Zenon, <2>1, <1>3 DEF ScattervAfter
  <2>4. n = [m EXCEPT !.step = Done, !.out = got, !.end = m.sizes[1]]
    BY Zenon, <2>2, <2>3
  <2>5. ~PlainAfter(c, r)
    BY <1>3 DEF PlainAfter, OfTwoRounds
  <2> QED BY <1>1, <1>3, <2>4, <2>5, MemoryChanges
<1>4. CASE c.op = "scatterv_n_from"
  <2>1. m.step # 1
    BY <1>1, <1>4 DEF Rounds, OfTwoRounds
  <2>2. n = ScattervFromAfter(c, r, m, got)
    BY <1>4 DEF AfterOperation
  <2>3. ScattervFromAfter(c, r, m, got) = [m EXCEPT !.step = Done, !.out = got, !.end = AtRoot(c, r, m.displs[Size] + m.sizes[Size])]
    BY Zenon, <2>1, <1>4 DEF ScattervFromAfter
  <2>4. n = [m EXCEPT !.step = Done, !.out = got, !.end = AtRoot(c, r, m.displs[Size] + m.sizes[Size])]
    BY Zenon, <2>2, <2>3
  <2>5. ~PlainAfter(c, r)
    BY <1>4 DEF PlainAfter, OfTwoRounds
  <2> QED BY <1>1, <1>4, <2>4, <2>5, MemoryChanges
<1>5. CASE c.op = "gather_package"
  <2>1. m.step # 1
    BY <1>1, <1>5 DEF Rounds, OfTwoRounds
  <2>2. n = GatherPackageAfter(c, r, m, got)
    BY <1>5 DEF AfterOperation
  <2>3. GatherPackageAfter(c, r, m, got) = [m EXCEPT !.step = Done, !.out = got, !.end = AtRoot(c, r, c.n[r] * Size)]
    BY Zenon, <2>1, <1>5 DEF GatherPackageAfter
  <2>4. n = [m EXCEPT !.step = Done, !.out = got, !.end = AtRoot(c, r, c.n[r] * Size)]
    BY Zenon, <2>2, <2>3
  <2>5. ~PlainAfter(c, r)
    BY <1>5 DEF PlainAfter, OfTwoRounds
  <2> QED BY <1>1, <1>5, <2>4, <2>5, MemoryChanges
<1>6. CASE c.op = "all_gather_package"
  <2>1. m.step # 1
    BY <1>1, <1>6 DEF Rounds, OfTwoRounds
  <2>2. n = AllGatherPackageAfter(c, r, m, got)
    BY <1>6 DEF AfterOperation
  <2>3. AllGatherPackageAfter(c, r, m, got) = [m EXCEPT !.step = Done, !.out = got, !.end = c.n[r] * Size]
    BY Zenon, <2>1, <1>6 DEF AllGatherPackageAfter
  <2>4. n = [m EXCEPT !.step = Done, !.out = got, !.end = c.n[r] * Size]
    BY Zenon, <2>2, <2>3
  <2>5. ~PlainAfter(c, r)
    BY <1>6 DEF PlainAfter, OfTwoRounds
  <2> QED BY <1>1, <1>6, <2>4, <2>5, MemoryChanges
<1>7. CASE c.op = "all_gatherv_output"
  <2>1. m.step # 1
    BY <1>1, <1>7 DEF Rounds, OfTwoRounds
  <2>2. n = AllGathervAfter(c, r, m, got)
    BY <1>7 DEF AfterOperation
  <2>3. AllGathervAfter(c, r, m, got) = [m EXCEPT !.step = Done, !.out = got, !.end = Len(got)]
    BY <2>1, <1>7 DEF AllGathervAfter
  <2>4. n = [m EXCEPT !.step = Done, !.out = got, !.end = Len(got)]
    BY Zenon, <2>2, <2>3
  <2>5. ~PlainAfter(c, r)
    BY <1>7 DEF PlainAfter, OfTwoRounds
  <2> QED BY <1>1, <1>7, <2>4, <2>5, MemoryChanges
<1>8. CASE c.op = "all_gatherv"
  <2>1. m.step # 1
    BY <1>1, <1>8 DEF Rounds, OfTwoRounds
  <2>2. n = AllGathervAfter(c, r, m, got)
    BY <1>8 DEF AfterOperation
  <2>3. AllGathervAfter(c, r, m, got) = [m EXCEPT !.step = Done, !.out = got, !.end = m.displs[Size] + m.sizes[Size]]
    BY <2>1, <1>8 DEF AllGathervAfter
  <2>4. n = [m EXCEPT !.step = Done, !.out = got, !.end = m.displs[Size] + m.sizes[Size]]
    BY Zenon, <2>2, <2>3
  <2>5. ~PlainAfter(c, r)
    BY <1>8 DEF PlainAfter, OfTwoRounds
  <2> QED BY <1>1, <1>8, <2>4, <2>5, MemoryChanges
<1>9. CASE c.op = "gatherv_told"
  <2>1. m.step # 1
    BY <1>1, <1>9 DEF Rounds, OfTwoRounds
  <2>2. n = GathervToldAfter(c, r, m, got)
    BY <1>9 DEF AfterOperation
  <2>3. GathervToldAfter(c, r, m, got) = [m EXCEPT !.step = Done, !.out = got]
    BY Zenon, <2>1, <1>9 DEF GathervToldAfter
  <2>4. n = [m EXCEPT !.step = Done, !.out = got]
    BY Zenon, <2>2, <2>3
  <2>5. ~PlainAfter(c, r)
    BY <1>9 DEF PlainAfter, OfTwoRounds
  <2> QED BY <1>1, <1>9, <2>4, <2>5, MemoryChanges
<1>10. CASE c.op = "max_element"
  <2>1. PICK end : end = IF got[1][2] = r THEN 1 ELSE 0
    OBVIOUS
  <2>2. n = MaxElementAfter(c, r, m, got)
    BY <1>10 DEF AfterOperation
  <2>3. MaxElementAfter(c, r, m, got) = [m EXCEPT !.step = Done, !.out = got, !.end = end]
    BY Zenon, <2>1 DEF MaxElementAfter
  <2>4. ~PlainAfter(c, r)
    BY <1>10 DEF PlainAfter
  <2> QED BY <1>1, <1>10, <2>1, <2>2, <2>3, <2>4, MemoryChanges
<1>11. CASE c.op = "reduce_in_place" /\ r # c.root
  <2>1. n = [m EXCEPT !.step = Done]
    BY <1>11 DEF AfterOperation
  <2>2. ~PlainAfter(c, r)
    BY <1>11 DEF PlainAfter
  <2> QED BY <1>1, <1>11, <2>1, <2>2, MemoryChanges
<1>12. CASE c.op = "scatter_list"
  <2>1. n = [m EXCEPT !.step = Done, !.out = got, !.end = 1, !.inside = ListHolds(c, r)]
    BY <1>12 DEF AfterOperation
  <2>2. ~PlainAfter(c, r)
    BY <1>12 DEF PlainAfter
  <2> QED BY <1>1, <1>12, <2>1, <2>2, MemoryChanges
<1>13. CASE PlainAfter(c, r)
  <2>1. n = [m EXCEPT !.step = Done, !.out = got, !.end = ReturnedEnd(c, r, m)]
    BY <1>13 DEF AfterOperation, PlainAfter, OfTwoRounds
  <2>2. n.out = got /\ n.end = ReturnedEnd(c, r, m) /\ n.inside = m.inside
    BY <1>1, <2>1, MemoryChanges
  <2> QED BY <1>13, <2>2 DEF PlainAfter, OfTwoRounds
<1> QED BY <1>2, <1>3, <1>4, <1>5, <1>6, <1>7, <1>8, <1>9, <1>10, <1>11, <1>12, <1>13 DEF PlainAfter, OfTwoRounds

\* The memory and the delivery that the outcome of a call that waits comes from.
LEMMA OutcomeIs ==
    ASSUME NEW c, Callable(c), NEW r \in Ranks, ~Immediate(c)
    PROVE  /\ At(Recalled(c, Rounds(c))[r], Rounds(c))
           /\ Outcome(c, r) = AfterOperation(c, r, Recalled(c, Rounds(c))[r], Brought(c, r, Rounds(c)))
<1>1. PICK s \in 1 .. Rounds(c) : s = Rounds(c)
  BY DEF Rounds
<1>2. At(Recalled(c, s)[r], s)
  BY RecalledIs
<1> QED BY <1>1, <1>2 DEF Outcome

LEMMA OutcomeAtOnce ==
    ASSUME NEW c, NEW r, Immediate(c)
    PROVE  /\ Outcome(c, r).out = Brought(c, r, 1) /\ Outcome(c, r).end = 0
           /\ Outcome(c, r).inside = TRUE
BY DEF Outcome, Memory

-----------------------------------------------------------------------------
(* The calls that stay inside their arrays.                                *)

\* all_gather_n of packages and scatterv_n_from write past displs, scatterv reads the first
\* element of nothing off the root, all_to_all is for more elements than it is given, and
\* scatter of a list copies as many elements as there are ranks.
StaysInside(c) ==
    /\ c.op \notin {"all_gather_package", "scatterv_n_from", "scatterv", "all_to_all"}
    /\ c.op = "scatter_list" => \A r \in Ranks : Size <= c.n[r]

LEMMA InsideWhileCalled ==
    ASSUME NEW c, Callable(c), StaysInside(c), NEW r \in Ranks, NEW s \in 1 .. Rounds(c)
    PROVE  Recalled(c, s)[r].inside = TRUE
<1>1. CASE s = 1
  <2>1. Recalled(c, s)[r] = Start(c, r)
    BY <1>1, StartsAt
  <2> QED BY <2>1, StartIs
<1>2. CASE s # 1
  <2>1. s = 2 /\ c.op \in OfTwoRounds
    BY <1>2 DEF Rounds
  <2>2. PICK g : g = Going(c)[r]
    OBVIOUS
  <2>3. Recalled(c, s)[r] = g
    BY <2>1, <2>2 DEF Recalled
  <2>4. CASE c.op = "broadcast_value"
    BY <2>2, <2>3, <2>4, BroadcastGoing
  <2>5. CASE c.op \in TellAll \cup TellRoot
    <3>1. g.inside = (c.op \notin {"all_gather_package", "scatterv_n_from"})
      BY <2>2, <2>5, GoingTold
    <3> QED BY <2>3, <3>1 DEF StaysInside
  <2> QED BY <2>1, <2>4, <2>5 DEF OfTwoRounds, TellAll, TellRoot, StaysInside
<1> QED BY <1>1, <1>2

LEMMA InsideWhenDone ==
    ASSUME NEW c, Callable(c), StaysInside(c), NEW r \in Ranks
    PROVE  Outcome(c, r).inside = TRUE
<1>1. CASE Immediate(c)
  BY <1>1, OutcomeAtOnce
<1>2. CASE ~Immediate(c)
  <2>1. PICK m : m = Recalled(c, Rounds(c))[r] /\ At(m, Rounds(c))
    BY <1>2, OutcomeIs
  <2>2. PICK got : Outcome(c, r) = AfterOperation(c, r, m, got)
    BY <1>2, <2>1, OutcomeIs
  <2>3. PICK n : n = Outcome(c, r)
    OBVIOUS
  <2>4. n = AfterOperation(c, r, m, got)
    BY <2>2, <2>3
  <2>5. m.inside = TRUE
    <3>1. PICK s \in 1 .. Rounds(c) : s = Rounds(c)
      BY DEF Rounds
    <3> QED BY <2>1, <3>1, InsideWhileCalled
  <2>6. CASE c.op # "scatter_list"
    <3>1. Left(c, r, m, got, n)
      BY <2>1, <2>4, LastStep
    <3>2. n.inside = m.inside
      BY <2>6, <3>1 DEF Left
    <3> QED BY <2>3, <2>5, <3>2
  <2>7. CASE c.op = "scatter_list"
    <3>1. ListHolds(c, r) = TRUE
      BY <2>7 DEF StaysInside, ListHolds
    <3>2. n = [m EXCEPT !.step = Done, !.out = got, !.end = 1, !.inside = TRUE]
      BY <2>4, <2>7, <3>1 DEF AfterOperation
    <3> QED BY <2>1, <2>3, <3>2, MemoryChanges DEF At
  <2> QED BY <2>6, <2>7
<1> QED BY <1>1, <1>2

\* An array without an element from outside.
Sound(a) == \A i \in DOMAIN a : Len(a[i]) # 1 \/ a[i] # Outside

LEMMA SoundArrays ==
    ASSUME NEW r, NEW n \in Nat
    PROVE  Sound(Own(r, n)) /\ Sound(<<<<n>>>>)
<1>1. ASSUME NEW i \in DOMAIN Own(r, n) PROVE Len(Own(r, n)[i]) # 1
  <2>1. Own(r, n)[i] = <<r, i>>
    BY DEF Own
  <2>2. Len(<<r, i>>) = 2
    OBVIOUS
  <2> QED BY <2>1, <2>2
<1>2. \A i \in DOMAIN <<<<n>>>> : <<<<n>>>>[i] = <<n>>
  OBVIOUS
<1>3. <<n>> # Outside
  <2>1. <<n>>[1] = n /\ Outside[1] = -2
    BY DEF Outside
  <2> QED BY <2>1
<1> QED BY <1>1, <1>2, <1>3 DEF Sound

LEMMA SoundPackages ==
    ASSUME NEW r \in Nat, NEW n \in Nat
    PROVE  Sound(Package(r, n))
<1>1. PICK a : a = Package(r, n)
  OBVIOUS
<1>2. a \in Seq(Byte)
  BY <1>1, PackageIs
<1>3. ASSUME NEW i \in DOMAIN a PROVE Len(a[i]) # 1
  <2>1. a[i] \in Byte
    BY <1>2
  <2>2. PICK x \in Nat, y \in Nat, z \in Nat : a[i] = <<x, y, z>>
    BY <2>1 DEF Byte
  <2>3. Len(<<x, y, z>>) = 3
    OBVIOUS
  <2> QED BY <2>2, <2>3
<1> QED BY <1>1, <1>3 DEF Sound

LEMMA SoundSlice ==
    ASSUME NEW a, NEW N \in Nat, Len(a) = N, DOMAIN a = 1 .. N, Sound(a),
           NEW from \in Nat, NEW n \in Nat, from + n <= N
    PROVE  Sound(Slice(a, from, n))
<1>1. ASSUME NEW i \in 1 .. n PROVE Len(Slice(a, from, n)[i]) # 1 \/ Slice(a, from, n)[i] # Outside
  <2>1. from + i \in DOMAIN a /\ from + i <= Len(a)
    OBVIOUS
  <2>2. Slice(a, from, n)[i] = a[from + i]
    BY <2>1 DEF Slice
  <2> QED BY <2>1, <2>2 DEF Sound
<1>2. DOMAIN Slice(a, from, n) = 1 .. n
  BY SliceIs
<1> QED BY <1>1, <1>2 DEF Sound

\* What comes has a place, and what goes is the caller's.
Fits(o) == \A q \in DOMAIN o.want : o.place[q] + o.want[q] <= Len(o.into)
Inside(o) == Fits(o) /\ \A q \in DOMAIN o.give : Sound(o.give[q])

LEMMA BcastInside ==
    ASSUME NEW kind, NEW r, NEW root, NEW a, NEW n \in Nat, Len(a) = n, DOMAIN a = 1 .. n,
           r = root => Sound(a), NEW o, o = Bcast(kind, r, root, a, n)
    PROVE  Inside(o)
<1>1. CASE r = root
  <2>1. DOMAIN o.want = {} /\ DOMAIN o.give = Ranks \ {r}
    BY <1>1, BcastIs
  <2>2. ASSUME NEW q \in DOMAIN o.give PROVE Sound(o.give[q])
    <3>1. o.give[q] = Slice(a, 0, n)
      BY <1>1, <2>1, BcastIs
    <3>2. Sound(Slice(a, 0, n))
      <4>1. PICK from \in Nat : from = 0 /\ from + n <= n
        OBVIOUS
      <4> QED BY <1>1, <4>1, SoundSlice
    <3> QED BY <3>1, <3>2
  <2> QED BY <2>1, <2>2 DEF Inside, Fits
<1>2. CASE r # root
  <2>1. DOMAIN o.give = {} /\ DOMAIN o.want = {root} /\ o.want[root] = n /\ o.place[root] = 0 /\ o.into = a
    BY <1>2, BcastIs
  <2> QED BY <2>1 DEF Inside, Fits
<1> QED BY <1>1, <1>2

LEMMA GatherInside ==
    ASSUME NEW kind, NEW r, NEW root, NEW a, Sound(a), NEW counts, NEW displs, NEW into,
           r = root => \A q \in Ranks : displs[q + 1] + counts[q + 1] <= Len(into),
           NEW o, o = Gather(kind, r, root, a, counts, displs, into)
    PROVE  Inside(o)
<1>1. DOMAIN o.give = {root} /\ o.give[root] = a /\ o.into = into
  BY GatherIs
<1>2. CASE r = root
  <2>1. DOMAIN o.want = Ranks /\ \A q \in Ranks : o.want[q] = counts[q + 1] /\ o.place[q] = displs[q + 1]
    BY <1>2, GatherIs
  <2> QED BY <1>1, <1>2, <2>1 DEF Inside, Fits
<1>3. CASE r # root
  <2>1. DOMAIN o.want = {}
    BY <1>3, GatherIs
  <2> QED BY <1>1, <2>1 DEF Inside, Fits
<1> QED BY <1>2, <1>3

LEMMA AllGatherInside ==
    ASSUME NEW kind, NEW a, Sound(a), NEW counts, NEW displs, NEW into,
           \A q \in Ranks : displs[q + 1] + counts[q + 1] <= Len(into),
           NEW o, o = AllGather(kind, a, counts, displs, into)
    PROVE  Inside(o)
<1>1. /\ DOMAIN o.give = Ranks /\ DOMAIN o.want = Ranks /\ o.into = into
      /\ \A q \in Ranks : o.give[q] = a /\ o.want[q] = counts[q + 1] /\ o.place[q] = displs[q + 1]
  BY AllGatherIs
<1> QED BY <1>1 DEF Inside, Fits

LEMMA ScatterInside ==
    ASSUME NEW kind, NEW r, NEW root, NEW a, NEW counts, NEW displs, NEW n \in Nat, NEW into, n <= Len(into),
           r = root => \A q \in Ranks : Sound(Slice(a, displs[q + 1], counts[q + 1])),
           NEW o, o = Scatter(kind, r, root, a, counts, displs, n, into)
    PROVE  Inside(o)
<1>1. DOMAIN o.want = {root} /\ o.want[root] = n /\ o.place[root] = 0 /\ o.into = into
  BY ScatterIs
<1>2. CASE r = root
  <2>1. DOMAIN o.give = Ranks /\ \A q \in Ranks : o.give[q] = Slice(a, displs[q + 1], counts[q + 1])
    BY <1>2, ScatterIs
  <2> QED BY <1>1, <1>2, <2>1 DEF Inside, Fits
<1>3. CASE r # root
  <2>1. DOMAIN o.give = {}
    BY <1>3, ScatterIs
  <2> QED BY <1>1, <2>1 DEF Inside, Fits
<1> QED BY <1>2, <1>3

\* As many elements for each of Size ranks.
LEMMA EqualParts ==
    ASSUME NEW q \in Ranks, NEW n \in Nat
    PROVE  q * n \in Nat /\ Size * n \in Nat /\ q * n + n <= Size * n
<1>1. PICK x \in Nat, y \in Nat : x = q /\ y = Size /\ x + 1 <= y
  BY RanksAre
<1>2. PICK d \in Nat : y = (x + 1) + d
  <2>1. y - (x + 1) \in Nat
    BY <1>1
  <2> QED BY <2>1
<1>3. y * n = x * n + n + d * n /\ d * n \in Nat /\ x * n \in Nat
  BY <1>2
<1> QED BY <1>1, <1>3

LEMMA AlltoallInside ==
    ASSUME NEW r, NEW n \in Nat, NEW into, Len(into) = Size * n,
           NEW o, o = Alltoall(Own(r, Size * n), n, into)
    PROVE  Inside(o)
<1>1. /\ DOMAIN o.give = Ranks /\ DOMAIN o.want = Ranks /\ o.into = into
      /\ \A q \in Ranks : /\ o.give[q] = Slice(Own(r, Size * n), q * n, n)
                          /\ o.want[q] = n /\ o.place[q] = q * n
  BY AlltoallIs
<1>2. ASSUME NEW q \in Ranks PROVE Sound(o.give[q]) /\ o.place[q] + o.want[q] <= Len(o.into)
  <2>1. PICK from \in Nat, N \in Nat : from = q * n /\ N = Size * n /\ from + n <= N
    BY EqualParts
  <2>2. PICK a : a = Own(r, N)
    OBVIOUS
  <2>3. Len(a) = N /\ DOMAIN a = 1 .. N /\ Sound(a)
    BY <2>2, ArraysAre, SoundArrays
  <2>4. Sound(Slice(a, from, n))
    BY <2>1, <2>3, SoundSlice
  <2> QED BY <1>1, <2>1, <2>2, <2>4
<1> QED BY <1>1, <1>2 DEF Inside, Fits

LEMMA ReduceInside ==
    ASSUME NEW r, NEW root, NEW a, Sound(a), NEW into, NEW n \in Nat, Len(a) = n, r = root => Len(into) = n,
           NEW o, o = Reduce(r, root, a, into)
    PROVE  Inside(o)
<1>1. DOMAIN o.give = {root} /\ o.give[root] = a /\ o.into = into
  BY ReduceIs
<1>2. CASE r = root
  <2>1. DOMAIN o.want = Ranks /\ \A q \in Ranks : o.want[q] = Len(a) /\ o.place[q] = 0
    BY <1>2, ReduceIs
  <2> QED BY <1>1, <1>2, <2>1 DEF Inside, Fits
<1>3. CASE r # root
  <2>1. DOMAIN o.want = {}
    BY <1>3, ReduceIs
  <2> QED BY <1>1, <2>1 DEF Inside, Fits
<1> QED BY <1>2, <1>3

LEMMA AllreduceInside ==
    ASSUME NEW kind, NEW a, Sound(a), NEW into, NEW n \in Nat, Len(a) = n, Len(into) = n,
           NEW o, o = Allreduce(kind, a, into)
    PROVE  Inside(o)
<1>1. /\ DOMAIN o.give = Ranks /\ DOMAIN o.want = Ranks /\ o.into = into
      /\ \A q \in Ranks : o.give[q] = a /\ o.want[q] = Len(a) /\ o.place[q] = 0
  BY AllreduceIs
<1> QED BY <1>1 DEF Inside, Fits

\* As many elements from every rank, each after those of the rank before.
LEMMA EqualPlaces ==
    ASSUME NEW n \in Nat, NEW q \in Ranks
    PROVE  /\ Steps(n)[q + 1] + Each(n)[q + 1] <= Len(Blanks(Size * n))
           /\ Steps(1)[q + 1] + Ones[q + 1] <= Len(Blanks(Size))
<1>1. PICK i \in 1 .. Size : i = q + 1 /\ i - 1 = q /\ q \in Nat /\ i <= Size
  BY RanksAre
<1>2. Steps(n)[i] = q * n /\ Each(n)[i] = n /\ Steps(1)[i] = q * 1 /\ Ones[i] = 1
  BY <1>1 DEF Steps, Each, Ones
<1>3. q * n \in Nat /\ Size * n \in Nat /\ q * n + n <= Size * n
  BY EqualParts
<1>4. Len(Blanks(Size * n)) = Size * n /\ Len(Blanks(Size)) = Size
  BY <1>3, RanksAre, ArraysAre
<1>5. q * 1 = q
  BY <1>1
<1> QED BY <1>1, <1>2, <1>3, <1>4, <1>5

LEMMA InsideInOne ==
    ASSUME NEW c, Callable(c), c.op \notin OfTwoRounds, StaysInside(c),
           NEW r \in Ranks, NEW o, o = Collective(c, r, 1)
    PROVE  Inside(o)
<1>1. PICK n \in Nat : n = c.n[r] /\ Len(Own(r, n)) = n /\ DOMAIN Own(r, n) = 1 .. n /\ Sound(Own(r, n))
  BY CallableIs, ArraysAre, SoundArrays
<1>2. PICK u \in Nat : u = 1 /\ Len(Own(r, u)) = u /\ DOMAIN Own(r, u) = 1 .. u /\ Sound(Own(r, u))
                       /\ Len(Blanks(u)) = u
  BY ArraysAre, SoundArrays
<1>3. Len(Blanks(n)) = n
  BY ArraysAre
<1>4. CASE c.op = "barrier"
  <2>1. o = Barrier
    BY <1>4, FormsOfOne
  <2>2. ASSUME NEW q \in Ranks
        PROVE  Sound(o.give[q]) /\ o.place[q] + o.want[q] <= Len(o.into)
    BY <2>1 DEF Barrier, Operation, Sound
  <2>3. DOMAIN o.give = Ranks /\ DOMAIN o.want = Ranks
    BY <2>1 DEF Barrier, Operation
  <2> QED BY <2>2, <2>3 DEF Inside, Fits
<1>5. CASE c.op \in {"broadcast", "ibroadcast"}
  <2>1. PICK kind, a : a = Own(r, n) /\ o = Bcast(kind, r, c.root, a, n)
    BY <1>1, <1>5, FormsOfOne
  <2> QED BY <1>1, <2>1, BcastInside
<1>6. CASE c.op \in {"reduce", "reduce_in_place"}
  <2>1. PICK a, into : a = Own(r, n) /\ o = Reduce(r, c.root, a, into) /\ (r = c.root => Len(into) = n)
    BY <1>1, <1>3, <1>6, FormsOfOne
  <2> QED BY <1>1, <2>1, ReduceInside
<1>7. CASE c.op \in {"all_reduce", "all_reduce_in_place"}
  <2>1. PICK a, into : a = Own(r, n) /\ o = Allreduce("allreduce", a, into) /\ Len(into) = n
    BY <1>1, <1>3, <1>7, FormsOfOne
  <2> QED BY <1>1, <2>1, AllreduceInside
<1>8. CASE c.op = "reduce_value"
  <2>1. PICK a, into : a = Own(r, u) /\ o = Reduce(r, c.root, a, into) /\ into = Blanks(u)
    BY <1>2, <1>8, FormsOfOne
  <2> QED BY <1>2, <2>1, ReduceInside
<1>9. CASE c.op = "all_reduce_value"
  <2>1. PICK a, into : a = Own(r, u) /\ o = Allreduce("allreduce", a, into) /\ into = Blanks(u)
    BY <1>2, <1>9, FormsOfOne
  <2> QED BY <1>2, <2>1, AllreduceInside
<1>10. CASE c.op \in {"max", "min", "and", "or"}
  <2>1. PICK x : \E kind : x \in Nat /\ o = Allreduce(kind, <<<<x>>>>, Blanks(u))
    <3>1. CASE c.op \in {"max", "min"}
      BY <1>1, <1>2, <3>1, FormsOfOne
    <3>2. CASE c.op \in {"and", "or"}
      BY <1>1, <1>2, <3>2, FormsOfOne
    <3> QED BY <1>10, <3>1, <3>2
  <2>2. PICK a : a = <<<<x>>>>
    OBVIOUS
  <2>3. Sound(a)
    BY <2>1, <2>2, SoundArrays
  <2>4. Len(a) = u
    BY <1>2, <2>2
  <2> QED BY <1>2, <2>1, <2>2, <2>3, <2>4, AllreduceInside
<1>11. CASE c.op \in {"max_element", "max_location", "max_location_other"}
  <2>1. PICK a : a = <<<<n, r>>>> /\ o = Allreduce(Located(c), a, Blanks(u))
    BY <1>1, <1>2, <1>11, FormsOfOne
  <2>2. Len(a) = u /\ DOMAIN a = 1 .. 1 /\ a[1] = <<n, r>> /\ Len(<<n, r>>) = 2
    BY <1>2, <2>1
  <2>3. Sound(a)
    BY <2>2 DEF Sound
  <2> QED BY <1>2, <2>1, <2>2, <2>3, AllreduceInside
<1>12. CASE c.op \in {"scatter_n", "scatter", "scatter_list"}
  <2>1. PICK k \in Nat : k = Taken(c, r)
                /\ o = Scatter("scatter", r, c.root, IF r = c.root THEN Own(r, Size * k) ELSE <<>>,
                               Each(k), Steps(k), k, Blanks(k))
    BY <1>12, FormOfScatter
  <2>2. PICK a : a = IF r = c.root THEN Own(r, Size * k) ELSE <<>>
    OBVIOUS
  <2>3. k <= Len(Blanks(k))
    <3>1. Len(Blanks(k)) = k
      BY ArraysAre
    <3> QED BY <3>1
  <2>4. ASSUME NEW q \in Ranks, r = c.root PROVE Sound(Slice(a, Steps(k)[q + 1], Each(k)[q + 1]))
    <3>1. PICK from \in Nat, N \in Nat : from = q * k /\ N = Size * k /\ from + k <= N
      BY EqualParts
    <3>2. Steps(k)[q + 1] = from /\ Each(k)[q + 1] = k
      BY <3>1, EqualNumbers
    <3>3. a = Own(r, N)
      BY <2>2, <2>4, <3>1
    <3>4. Len(a) = N /\ DOMAIN a = 1 .. N /\ Sound(a)
      BY <3>3, ArraysAre, SoundArrays
    <3> QED BY <3>1, <3>2, <3>4, SoundSlice
  <2>5. o = Scatter("scatter", r, c.root, a, Each(k), Steps(k), k, Blanks(k))
    BY <2>1, <2>2
  <2> QED BY <2>3, <2>4, <2>5, ScatterInside
<1>13. CASE c.op \in {"gather", "igather"}
  <2>1. PICK kind, a : a = Own(r, n) /\ o = Gather(kind, r, c.root, a, Each(n), Steps(n), Blanks(AtRoot(c, r, Size * n)))
    BY <1>1, <1>13, FormsOfOne
  <2>2. ASSUME NEW q \in Ranks, r = c.root
        PROVE  Steps(n)[q + 1] + Each(n)[q + 1] <= Len(Blanks(AtRoot(c, r, Size * n)))
    <3>1. AtRoot(c, r, Size * n) = Size * n
      BY <2>2 DEF AtRoot
    <3> QED BY <3>1, EqualPlaces
  <2> QED BY <1>1, <2>1, <2>2, GatherInside
<1>14. CASE c.op = "gather_value"
  <2>1. PICK a : a = Own(r, u) /\ o = Gather("gather", r, c.root, a, Ones, Steps(1), Blanks(AtRoot(c, r, Size)))
    BY <1>2, <1>14, FormsOfOne
  <2>2. ASSUME NEW q \in Ranks, r = c.root
        PROVE  Steps(1)[q + 1] + Ones[q + 1] <= Len(Blanks(AtRoot(c, r, Size)))
    <3>1. AtRoot(c, r, Size) = Size
      BY <2>2 DEF AtRoot
    <3> QED BY <3>1, EqualPlaces
  <2> QED BY <1>2, <2>1, <2>2, GatherInside
<1>15. CASE c.op = "all_gather_value"
  <2>1. PICK a : a = Own(r, u) /\ o = AllGather("allgather", a, Ones, Steps(1), Blanks(Size))
    <3>1. o = AllGather("allgather", Own(r, 1), Ones, Steps(1), Blanks(Size))
      BY <1>15, FormsOfOne
    <3> QED BY <1>2, <3>1
  <2> QED BY <1>2, <2>1, EqualPlaces, AllGatherInside
<1>16. CASE c.op = "gatherv"
  <2>1. PICK told, N : told = Listed(c.n) /\ N = Total(told)
    OBVIOUS
  <2>2. PICK a : a = Own(r, n) /\ o = Gather("gatherv", r, c.root, a, told, PartialSums(told, Size), Blanks(AtRoot(c, r, N)))
    BY <1>1, <1>16, <2>1, FormsOfOne, SizesAre
  <2>3. ASSUME NEW q \in Ranks, r = c.root
        PROVE  PartialSums(told, Size)[q + 1] + told[q + 1] <= Len(Blanks(AtRoot(c, r, N)))
    <3>1. PartialSums(told, Size)[q + 1] = Sums(told)[q] /\ N \in Nat
          /\ Sums(told)[q + 1] = Sums(told)[q] + c.n[q] /\ Sums(told)[q + 1] <= N
      BY <2>1, CallableIs, NumbersAre
    <3>2. told[q + 1] = c.n[q]
      BY <2>1, CallableIs, ListedIs
    <3>3. Len(Blanks(AtRoot(c, r, N))) = N
      BY <2>3, <3>1, ArraysAre DEF AtRoot
    <3> QED BY <3>1, <3>2, <3>3
  <2> QED BY <1>1, <2>2, <2>3, GatherInside
<1>17. CASE c.op \in {"all_gather", "iall_gather"}
  <2>1. PICK kind, a : a = Own(r, n) /\ o = AllGather(kind, a, Each(n), Steps(n), Blanks(Size * n))
    BY <1>1, <1>17, FormsOfOne
  <2> QED BY <1>1, <2>1, EqualPlaces, AllGatherInside
<1>18. CASE c.op \in {"all_to_all_n", "all_to_all_in_place"}
  <2>1. PICK into : o = Alltoall(Own(r, Size * n), n, into) /\ Len(into) = Size * n
    <3>1. Size * n \in Nat
      BY EqualParts
    <3>2. Len(Own(r, Size * n)) = Size * n /\ Len(Blanks(Size * n)) = Size * n
      BY <3>1, ArraysAre
    <3> QED BY <1>1, <1>18, <3>2, FormsOfOne
  <2> QED BY <2>1, AlltoallInside
<1> QED BY <1>4, <1>5, <1>6, <1>7, <1>8, <1>9, <1>10, <1>11, <1>12, <1>13, <1>14, <1>15, <1>16, <1>17, <1>18
        DEF Callable, OfOneValue, OfEqualNumbers, OfOtherNumbers, OfTwoRounds, StaysInside

LEMMA NumbersFit ==
    ASSUME NEW told \in [Ranks -> Nat], NEW list, list = Listed(told), NEW q \in Ranks,
           NEW room \in {Size, Size + 1}
    PROVE  PartialSums(list, room)[q + 1] + list[q + 1] <= Len(Blanks(Total(list)))
<1>1. /\ PartialSums(list, room)[q + 1] = Sums(list)[q] /\ Total(list) \in Nat
      /\ Sums(list)[q + 1] = Sums(list)[q] + told[q] /\ Sums(list)[q + 1] <= Total(list)
  BY NumbersAre
<1>2. list[q + 1] = told[q]
  BY ListedIs
<1>3. Len(Blanks(Total(list))) = Total(list)
  BY <1>1, ArraysAre
<1> QED BY <1>1, <1>2, <1>3

LEMMA InsideInFirst ==
    ASSUME NEW c, Callable(c), c.op \in OfTwoRounds, StaysInside(c),
           NEW r \in Ranks, NEW o, o = Collective(c, r, 1)
    PROVE  Inside(o)
<1>1. Told(c) \in [Ranks -> Nat]
  BY ToldIs
<1>2. PICK a : a = <<<<Told(c)[r]>>>> /\ Sound(a)
  BY <1>1, SoundArrays
<1>3. CASE c.op \in TellAll
  <2>1. o = AllGather("allgather", a, Ones, Steps(1), Blanks(Size))
    BY <1>2, <1>3, FormsOfFirst
  <2> QED BY <1>2, <2>1, EqualPlaces, AllGatherInside
<1>4. CASE c.op = "gather_package"
  <2>1. o = Gather("gather", r, c.root, a, Ones, Steps(1), Blanks(AtRoot(c, r, Size)))
    BY <1>2, <1>4, FormsOfFirst
  <2>2. ASSUME NEW q \in Ranks, r = c.root
        PROVE  Steps(1)[q + 1] + Ones[q + 1] <= Len(Blanks(AtRoot(c, r, Size)))
    <3>1. AtRoot(c, r, Size) = Size
      BY <2>2 DEF AtRoot
    <3> QED BY <3>1, EqualPlaces
  <2> QED BY <1>2, <2>1, <2>2, GatherInside
<1>5. CASE c.op = "broadcast_value"
  <2>1. PICK n \in Nat, u \in Nat : n = c.n[r] /\ u = 1
    BY CallableIs
  <2>2. PICK b : b = <<<<n>>>>
    OBVIOUS
  <2>3. Sound(b) /\ Len(b) = u /\ DOMAIN b = 1 .. u
    BY <2>1, <2>2, SoundArrays
  <2>4. o = Bcast("bcast", r, c.root, b, u)
    BY <1>5, <2>1, <2>2, FormsOfFirst
  <2> QED BY <2>3, <2>4, BcastInside
<1> QED BY <1>3, <1>4, <1>5 DEF OfTwoRounds, TellAll, StaysInside

LEMMA InsideInSecond ==
    ASSUME NEW c, Callable(c), c.op \in OfTwoRounds, StaysInside(c),
           NEW r \in Ranks, NEW o, o = Collective(c, r, 2)
    PROVE  Inside(o)
<1>1. PICK told, list : told = Told(c) /\ told \in [Ranks -> Nat] /\ list = Listed(told)
  BY ToldIs
<1>2. PICK n \in Nat : n = c.n[r]
  BY CallableIs
<1>3. PICK a : a = Own(r, n) /\ Len(a) = n /\ DOMAIN a = 1 .. n /\ Sound(a)
  BY ArraysAre, SoundArrays
<1>4. CASE c.op = "broadcast_value"
  <2>1. PICK k \in Nat : k = c.n[c.root]
    BY CallableIs
  <2>2. PICK b : b = Resized(a, k)
    OBVIOUS
  <2>3. Len(b) = k /\ DOMAIN b = 1 .. k
    BY <2>2 DEF Resized
  <2>4. r = c.root => Sound(b)
    <3>1. ASSUME r = c.root PROVE Sound(b)
      <4>1. n = k
        BY <1>2, <2>1, <3>1
      <4>2. ASSUME NEW i \in 1 .. n PROVE b[i] = a[i]
        BY <1>3, <2>2, <4>1 DEF Resized
      <4> QED BY <1>3, <2>3, <4>1, <4>2 DEF Sound
    <3> QED BY <3>1
  <2>5. o = Bcast("bcast", r, c.root, b, k)
    BY <1>2, <1>3, <1>4, <2>1, <2>2, FormsOfSecond
  <2> QED BY <2>3, <2>4, <2>5, BcastInside
<1>5. PICK room \in {Size, Size + 1} : room = Size + 1
  OBVIOUS
<1>6. CASE c.op \in {"all_gatherv", "all_gatherv_output"}
  <2>1. o = AllGather("allgatherv", a, list, PartialSums(list, room), Blanks(Total(list)))
    BY <1>1, <1>2, <1>3, <1>5, <1>6, FormsOfSecond
  <2>2. \A q \in Ranks : PartialSums(list, room)[q + 1] + list[q + 1] <= Len(Blanks(Total(list)))
    BY <1>1, NumbersFit
  <2> QED BY <1>3, <2>1, <2>2, AllGatherInside
<1>7. CASE c.op = "gatherv_told"
  <2>1. o = Gather("gatherv", r, 0, a, list, PartialSums(list, room), Blanks(IF r = 0 THEN Total(list) ELSE 0))
    BY <1>1, <1>2, <1>3, <1>5, <1>7, FormsOfSecond
  <2>2. \A q \in Ranks : PartialSums(list, room)[q + 1] + list[q + 1] <= Len(Blanks(Total(list)))
    BY <1>1, NumbersFit
  <2>3. r = 0 => \A q \in Ranks : PartialSums(list, room)[q + 1] + list[q + 1] <= Len(Blanks(IF r = 0 THEN Total(list) ELSE 0))
    BY <2>2
  <2> QED BY <1>3, <2>1, <2>3, GatherInside
<1>8. CASE c.op = "gather_package"
  <2>1. PICK b : b = Package(r, n) /\ Sound(b)
    BY RanksAre, SoundPackages
  <2>2. PICK counts, displs :
            /\ r = c.root => counts = list /\ displs = PartialSums(list, room)
            /\ o = Gather("gatherv", r, c.root, b, counts, displs, Blanks(Total(counts)))
    BY <1>1, <1>2, <1>5, <1>8, <2>1, FormsOfSecond
  <2>3. \A q \in Ranks : PartialSums(list, room)[q + 1] + list[q + 1] <= Len(Blanks(Total(list)))
    BY <1>1, NumbersFit
  <2>4. r = c.root => \A q \in Ranks : displs[q + 1] + counts[q + 1] <= Len(Blanks(Total(counts)))
    BY <2>2, <2>3
  <2> QED BY <2>1, <2>2, <2>4, GatherInside
<1> QED BY <1>4, <1>6, <1>7, <1>8 DEF OfTwoRounds, StaysInside

\* Every collective of a call that stays inside its arrays does.
LEMMA CollectivesInside ==
    ASSUME NEW c, Callable(c), StaysInside(c), NEW r \in Ranks, NEW s \in 1 .. Rounds(c)
    PROVE  Inside(Collective(c, r, s))
<1>1. PICK o : o = Collective(c, r, s)
  OBVIOUS
<1>2. CASE c.op \notin OfTwoRounds
  <2>1. s = 1
    BY <1>2 DEF Rounds
  <2> QED BY <1>1, <1>2, <2>1, InsideInOne
<1>3. CASE c.op \in OfTwoRounds
  <2>1. s = 1 \/ s = 2
    BY <1>3 DEF Rounds
  <2>2. CASE s = 1
    BY <1>1, <1>3, <2>2, InsideInFirst
  <2>3. CASE s = 2
    BY <1>1, <1>3, <2>3, InsideInSecond
  <2> QED BY <2>1, <2>2, <2>3
<1> QED BY <1>2, <1>3

\* Programs without the calls that leave their arrays read and write inside them: every
\* count and displacement that a rank computes from what others have told it is right.
THEOREM ArraysHoldAlways ==
    ASSUME \A p \in Programs : \A i \in DOMAIN p : StaysInside(p[i])
    PROVE  Spec => []ArraysHold
<1>1. CInv => ArraysHold
  <2>1. SUFFICES ASSUME CInv PROVE ArraysHold
    OBVIOUS
  <2>2. \A i \in 1 .. Len(program) : Callable(program[i]) /\ StaysInside(program[i])
    <3>1. program \in Programs
      BY <2>1 DEF CInv, Shape
    <3> QED BY <3>1, ProgramIs
  <2>3. ASSUME NEW r \in Ranks PROVE mem[r].inside = TRUE
    <3>1. CASE call[r] \in 1 .. Len(program)
      <4>1. PICK i \in 1 .. Len(program) : i = call[r]
        BY <3>1
      <4>2. PICK c : c = program[i] /\ Callable(c) /\ StaysInside(c)
        BY <2>2
      <4>3. PICK s \in 1 .. Rounds(c) : s = mem[r].step /\ mem[r] = Recalled(c, s)[r]
        BY <2>1, <4>1, <4>2, WhereIs
      <4> QED BY <4>2, <4>3, InsideWhileCalled
    <3>2. CASE call[r] \notin 1 .. Len(program)
      <4>1. Len(program) \in Nat
        BY <2>1, ProgramIs DEF CInv, Shape
      <4>2. ~(call[r] <= Len(program))
        BY <2>1, <3>2, <4>1 DEF CInv, Shape
      <4>3. mem[r] = Memory(<<>>)
        BY <2>1, <4>2 DEF CInv, Placed
      <4> QED BY <4>3 DEF Memory
    <3> QED BY <3>1, <3>2
  <2>4. ASSUME NEW r \in Ranks, NEW i \in DOMAIN results[r] PROVE results[r][i].inside = TRUE
    <3>1. i \in 1 .. Len(program) /\ results[r][i] = Outcome(program[i], r)
      BY <2>1 DEF CInv, Remembered
    <3>2. Callable(program[i]) /\ StaysInside(program[i])
      BY <2>2, <3>1
    <3> QED BY <3>1, <3>2, InsideWhenDone
  <2>5. ASSUME NEW r \in Ranks, NEW k \in DOMAIN posted[r] PROVE Inside(posted[r][k])
    <3>1. k \in 1 .. Len(posted[r])
      BY <2>1, SeqShape DEF CInv, Shape
    <3>2. PICK i \in 1 .. Len(program) : \E s \in 1 .. Rounds(program[i]) :
              k = Before(program)[i - 1] + s /\ posted[r][k] = Collective(program[i], r, s)
      BY <2>1, <3>1 DEF CInv, Planned
    <3>3. PICK s \in 1 .. Rounds(program[i]) : posted[r][k] = Collective(program[i], r, s)
      BY <3>2
    <3> QED BY <2>2, <3>3, CollectivesInside
  <2> QED BY <2>3, <2>4, <2>5 DEF ArraysHold, Inside, Fits, Sound
<1> QED BY <1>1, RanksFollowTheProgram, PTL

\* The arrays, and how many elements each has.
Arrays(arrays, told, S) ==
    /\ told \in [Ranks -> Nat] /\ arrays \in [Ranks -> Seq(S)]
    /\ \A q \in Ranks : Len(arrays[q]) = told[q]

\* The arrays joined one by one, and all of them.
JoinedSoFar(joined, arrays) ==
    joined[0] = <<>> /\ \A n \in 1 .. Size : joined[n] = joined[n - 1] \o arrays[n - 1]

LEMMA ConcatIs ==
    ASSUME NEW S, NEW a \in Seq(S), NEW b \in Seq(S)
    PROVE  /\ a \o b \in Seq(S) /\ Len(a) \in Nat /\ Len(b) \in Nat
           /\ Len(a \o b) = Len(a) + Len(b)
           /\ \A i \in 1 .. Len(a) : (a \o b)[i] = a[i]
           /\ \A j \in 1 .. Len(b) : (a \o b)[Len(a) + j] = b[j]
<1>1. a \o b \in Seq(S) /\ Len(a) \in Nat /\ Len(b) \in Nat
  OBVIOUS
<1>2. Len(a \o b) = Len(a) + Len(b)
  OBVIOUS
<1>3. \A i \in 1 .. Len(a) : (a \o b)[i] = a[i]
  OBVIOUS
<1>4. \A j \in 1 .. Len(b) : (a \o b)[Len(a) + j] = b[j]
  OBVIOUS
<1> QED BY <1>1, <1>2, <1>3, <1>4

LEMMA JoinedSteps ==
    ASSUME NEW S, NEW arrays \in [Ranks -> Seq(S)]
    PROVE  \E joined \in [0 .. Size -> Seq(S)] :
               JoinedSoFar(joined, arrays) /\ InRankOrder(arrays) = joined[Size]
<1>1. PICK N \in Nat : N = Size
  BY RanksAre
<1>2. PICK Words : Words = Seq(S)
  OBVIOUS
<1>0. <<>> \in Words
  BY <1>2
<1>3. PICK next : next = [n \in 1 .. N |-> [x \in Words |-> x \o arrays[n - 1]]]
  OBVIOUS
<1>4. \A n \in 1 .. N : n - 1 \in Ranks /\ arrays[n - 1] \in Words
  BY <1>1, <1>2, RanksAre
<1>5. next \in [1 .. N -> [Words -> Words]]
  BY <1>2, <1>3, <1>4
<1>6. PICK f \in [0 .. N -> Words] : Follows(f, <<>>, next, N)
  BY <1>0, <1>5, RecursionExists
<1>7. ASSUME NEW n \in 1 .. N PROVE f[n] = f[n - 1] \o arrays[n - 1]
  <2>1. f[n - 1] \in Words
    OBVIOUS
  <2>2. next[n][f[n - 1]] = f[n - 1] \o arrays[n - 1]
    BY <1>3, <2>1
  <2> QED BY <1>6, <2>2 DEF Follows
<1>8. f = [n \in 0 .. N |-> IF n = 0 THEN <<>> ELSE f[n - 1] \o arrays[n - 1]]
  <2>1. ASSUME NEW n \in 0 .. N PROVE f[n] = IF n = 0 THEN <<>> ELSE f[n - 1] \o arrays[n - 1]
    <3>1. CASE n = 0
      BY <1>6, <3>1 DEF Follows
    <3>2. CASE n # 0
      <4>1. n \in 1 .. N
        BY <3>2
      <4> QED BY <1>7, <3>2, <4>1
    <3> QED BY <3>1, <3>2
  <2>2. f = [n \in 0 .. N |-> f[n]]
    OBVIOUS
  <2> QED BY Zenon, <2>1, <2>2
<1>9. PICK joined : joined = CHOOSE h : h = [n \in 0 .. Size |-> IF n = 0 THEN <<>> ELSE h[n - 1] \o arrays[n - 1]]
  OBVIOUS
<1>10. joined = [n \in 0 .. Size |-> IF n = 0 THEN <<>> ELSE joined[n - 1] \o arrays[n - 1]]
  BY <1>1, <1>8, <1>9
<1>11. InRankOrder(arrays) = joined[Size]
  BY Zenon, <1>9 DEF InRankOrder
<1>12. joined[0] = <<>> /\ \A n \in 1 .. N : joined[n] = joined[n - 1] \o arrays[n - 1]
  <2>1. 0 \in 0 .. Size /\ \A n \in 1 .. N : n \in 0 .. Size /\ n # 0
    BY <1>1
  <2> QED BY Zenon, <1>10, <2>1
<1> DEFINE T == {n \in 0 .. N : joined[n] \in Words}
<1>13. 0 \in T
  <2>1. 0 \in 0 .. N
    BY <1>1
  <2> QED BY <1>0, <1>12, <2>1
<1>14. ASSUME NEW n \in T, n \in 0 .. N - 1 PROVE n + 1 \in T
  <2>1. n + 1 \in 1 .. N /\ (n + 1) - 1 = n /\ joined[n] \in Words
    BY <1>14
  <2>2. joined[n + 1] = joined[n] \o arrays[n] /\ arrays[n] \in Words
    BY <1>4, <1>12, <2>1
  <2>3. joined[n + 1] \in Words
    BY <1>2, <2>1, <2>2
  <2> QED BY <2>1, <2>3
<1>15. 0 .. N \subseteq T
  <2> HIDE DEF T
  <2> QED BY <1>13, <1>14, UpTo
<1>16. joined \in [0 .. Size -> Seq(S)]
  BY <1>1, <1>2, <1>10, <1>15
<1> QED BY <1>1, <1>11, <1>12, <1>16 DEF JoinedSoFar

\* The j-th element of rank q comes after those of the ranks before.
LEMMA InRankOrderIs ==
    ASSUME NEW S, NEW arrays, NEW told, Arrays(arrays, told, S), NEW list, list = Listed(told)
    PROVE  /\ InRankOrder(arrays) \in Seq(S) /\ Len(InRankOrder(arrays)) = Total(list)
           /\ \A q \in Ranks : \A j \in 1 .. told[q] :
                  InRankOrder(arrays)[Sums(list)[q] + j] = arrays[q][j]
<1>1. PICK N \in Nat : N = Size
  BY RanksAre
<1>2. PICK joined \in [0 .. N -> Seq(S)] :
          JoinedSoFar(joined, arrays) /\ InRankOrder(arrays) = joined[N]
  BY <1>1, JoinedSteps DEF Arrays
<1>3. PICK s \in [0 .. N -> Nat] :
          /\ s = Sums(list) /\ s[0] = 0 /\ Total(list) = s[N]
          /\ \A q \in Ranks : s[q] \in Nat /\ s[q + 1] = s[q] + told[q]
  BY <1>1, NumbersAre DEF Arrays
<1> DEFINE Right(n) == /\ Len(joined[n]) = s[n]
                       /\ \A q \in Ranks : q < n => \A j \in 1 .. told[q] : joined[n][s[q] + j] = arrays[q][j]
           T == {n \in 0 .. N : Right(n)}
<1>4. 0 \in T
  <2>1. joined[0] = <<>> /\ Len(<<>>) = 0
    BY <1>2 DEF JoinedSoFar
  <2>2. \A q \in Ranks : ~(q < 0)
    BY RanksAre
  <2> QED BY <1>3, <2>1, <2>2
<1>5. ASSUME NEW n \in T, n \in 0 .. N - 1 PROVE n + 1 \in T
  <2>1. n + 1 \in 1 .. N /\ (n + 1) - 1 = n /\ n \in Ranks /\ n \in Nat /\ n \in 0 .. N
    <3>1. n \in 0 .. N - 1
      BY <1>5
    <3> QED BY <1>1, <3>1 DEF Ranks
  <2>2. Right(n)
    BY <1>5
  <2>3. PICK a, b : a = joined[n] /\ b = arrays[n]
    OBVIOUS
  <2>4. a \in Seq(S) /\ b \in Seq(S) /\ Len(b) = told[n] /\ told[n] \in Nat
    BY <2>1, <2>3 DEF Arrays
  <2>5. joined[n + 1] = a \o b
    BY <1>1, <1>2, <2>1, <2>3 DEF JoinedSoFar
  <2>6. Len(a) = s[n] /\ s[n] \in Nat /\ s[n + 1] = s[n] + told[n]
    BY <1>3, <2>1, <2>2, <2>3
  <2>7. Len(joined[n + 1]) = s[n + 1]
    <3>1. Len(a \o b) = Len(a) + Len(b)
      BY <2>4, ConcatIs
    <3> QED BY <2>4, <2>5, <2>6, <3>1
  <2>8. ASSUME NEW q \in Ranks, q < n + 1, NEW j \in 1 .. told[q]
        PROVE  joined[n + 1][s[q] + j] = arrays[q][j]
    <3>1. q \in Nat /\ told[q] \in Nat /\ s[q] \in Nat /\ s[q + 1] = s[q] + told[q]
      BY <1>3, RanksAre DEF Arrays
    <3>2. CASE q = n
      <4>1. PICK m \in Nat : m = s[n] /\ Len(a) = m
        BY <2>6
      <4>2. PICK k \in Nat : k = told[n] /\ Len(b) = k /\ j \in 1 .. k
        BY <2>4, <2>8, <3>2
      <4>3. (a \o b)[m + j] = b[j]
        <5>1. \A x \in 1 .. Len(b) : (a \o b)[Len(a) + x] = b[x]
          BY <2>4, ConcatIs
        <5> QED BY <4>1, <4>2, <5>1
      <4> QED BY <2>3, <2>5, <3>2, <4>1, <4>3
    <3>3. CASE q # n
      <4>1. q < n /\ joined[n][s[q] + j] = arrays[q][j]
        <5>1. q < n
          BY <2>1, <2>8, <3>1, <3>3
        <5> QED BY <2>2, <5>1
      <4>2. s[q + 1] <= s[n]
        <5>1. PICK x \in 0 .. Len(list), y \in 0 .. Len(list) : x = q + 1 /\ y = n /\ x <= y
          <6>1. Len(list) = N
            BY <1>1, ListedIs DEF Arrays
          <6>2. q + 1 \in 0 .. N /\ q + 1 <= n
            BY <2>1, <3>1, <4>1
          <6> QED BY <2>1, <6>1, <6>2
        <5>2. list \in Seq(Nat)
          BY ListedIs DEF Arrays
        <5>3. Sums(list)[x] <= Sums(list)[y]
          BY <5>1, <5>2, SumsGrow
        <5> QED BY <1>3, <5>1, <5>3
      <4>3. PICK i \in Nat : i = s[q] + j /\ i \in 1 .. Len(a)
        <5>1. PICK x \in Nat, k \in Nat, m \in Nat : x = s[q] /\ k = told[q] /\ m = s[n] /\ j \in 1 .. k
          BY <2>6, <3>1
        <5>2. x + k <= m /\ Len(a) = m
          BY <2>6, <3>1, <4>2, <5>1
        <5>3. PICK y \in Nat, i \in Nat : y = j /\ 1 <= y /\ y <= k /\ i = x + y
          BY <5>1
        <5>4. 1 <= i /\ i <= m
          BY <5>2, <5>3
        <5> QED BY <5>1, <5>2, <5>3, <5>4
      <4>4. (a \o b)[i] = a[i]
        BY <2>4, <4>3, ConcatIs
      <4> QED BY <2>3, <2>5, <4>1, <4>3, <4>4
    <3> QED BY <3>2, <3>3
  <2>9. Right(n + 1)
    BY <2>7, <2>8
  <2>10. n + 1 \in 0 .. N
    BY <2>1
  <2> HIDE DEF Right
  <2> QED BY <2>9, <2>10
<1>6. 0 .. N \subseteq T
  <2> HIDE DEF T
  <2> QED BY <1>4, <1>5, UpTo
<1>7. Right(N)
  BY <1>6
<1>8. \A q \in Ranks : q < N
  BY <1>1, RanksAre
<1> QED BY <1>1, <1>2, <1>3, <1>7, <1>8

\* Each place is one rank's.
LEMMA PlacesAre ==
    ASSUME NEW told \in [Ranks -> Nat], NEW list, list = Listed(told), NEW i \in 1 .. Total(list)
    PROVE  \E q \in Ranks : /\ Sums(list)[q] < i /\ i <= Sums(list)[q] + told[q]
                            /\ \A p \in Ranks : Sums(list)[p] < i /\ i <= Sums(list)[p] + told[p] => p = q
<1>1. PICK N \in Nat : N = Size
  BY RanksAre
<1>2. PICK s \in [0 .. N -> Nat] :
          /\ s = Sums(list) /\ s[0] = 0 /\ Total(list) = s[N]
          /\ \A q \in Ranks : s[q] \in Nat /\ s[q + 1] = s[q] + told[q]
  BY <1>1, NumbersAre
<1>3. PICK T : T = {k \in 0 .. N : i <= s[k]}
  OBVIOUS
<1>4. N \in T /\ T \subseteq Nat /\ T # {} /\ s[N] \in Nat
  BY <1>2, <1>3
<1>5. PICK k \in T : \A y \in T : k <= y
  BY <1>4, LeastNumber
<1>6. k \in 0 .. N /\ i <= s[k] /\ k # 0 /\ i \in Nat
  BY <1>2, <1>3, <1>4, <1>5
<1>7. PICK q \in Ranks : q = k - 1 /\ q + 1 = k /\ q \in 0 .. N /\ q < k
  BY <1>1, <1>6, RanksAre
<1>8. s[q] < i
  <2>1. q \notin T
    BY <1>5, <1>6, <1>7
  <2> QED BY <1>2, <1>3, <1>6, <1>7, <2>1
<1>9. ASSUME NEW p \in Ranks, s[p] < i, i <= s[p + 1] PROVE p = q
  <2>1. p \in Nat /\ q \in Nat /\ p + 1 \in 1 .. N /\ q + 1 \in 1 .. N
    BY <1>1, RanksAre
  <2>2. ASSUME NEW x \in 0 .. N, NEW y \in 0 .. N, x <= y PROVE s[x] <= s[y]
    <3>1. list \in Seq(Nat) /\ Len(list) = N
      BY <1>1, ListedIs
    <3> QED BY <1>2, <2>2, <3>1, SumsGrow
  <2>3. CASE p < q
    <3>1. PICK x \in 0 .. N, y \in 0 .. N : x = p + 1 /\ y = q /\ x <= y
      BY <2>1, <2>3
    <3>2. s[x] <= s[y]
      BY <2>2, <3>1
    <3> QED BY <1>6, <1>8, <1>9, <3>1, <3>2
  <2>4. CASE q < p
    <3>1. PICK x \in 0 .. N, y \in 0 .. N : x = q + 1 /\ y = p /\ x <= y
      BY <2>1, <2>4
    <3>2. s[x] <= s[y]
      BY <2>2, <3>1
    <3> QED BY <1>6, <1>7, <1>9, <3>1, <3>2
  <2> QED BY <2>1, <2>3, <2>4
<1>10. s[q] < i /\ i <= s[q] + told[q]
  BY <1>2, <1>6, <1>7, <1>8
<1>11. \A p \in Ranks : s[p] < i /\ i <= s[p] + told[p] => p = q
  BY <1>2, <1>9
<1> QED BY <1>2, <1>10, <1>11

\* What comes from every rank, each put after the ranks before.
Collects(o, gave, arrays, told) ==
    /\ o.kind \notin Reductions /\ DOMAIN o.into = 1 .. Total(Listed(told)) /\ DOMAIN gave = Ranks
    /\ \A q \in Ranks : gave[q] = arrays[q] /\ o.place[q] = Sums(Listed(told))[q]

LEMMA DeliveredInOrder ==
    ASSUME NEW S, NEW arrays, NEW told, Arrays(arrays, told, S), NEW o, NEW gave,
           Collects(o, gave, arrays, told)
    PROVE  Delivered(o, gave) = InRankOrder(arrays)
<1>1. PICK list : list = Listed(told)
  OBVIOUS
<1>2. told \in [Ranks -> Nat]
  BY DEF Arrays
<1>3. PICK N \in Nat : N = Total(list)
  BY <1>1, <1>2, NumbersAre
<1>4. PICK got : got = Delivered(o, gave)
  OBVIOUS
<1>5. DOMAIN got = 1 .. N /\ got = [i \in DOMAIN got |-> got[i]]
  BY <1>1, <1>3, <1>4, DeliveredDomain DEF Collects
<1>6. PICK all : all = InRankOrder(arrays)
  OBVIOUS
<1>7. /\ all \in Seq(S) /\ Len(all) = N
      /\ \A q \in Ranks : \A j \in 1 .. told[q] : all[Sums(list)[q] + j] = arrays[q][j]
  BY <1>1, <1>3, <1>6, InRankOrderIs
<1>8. ASSUME NEW i \in 1 .. N PROVE got[i] = all[i]
  <2>1. PICK q \in Ranks : /\ Sums(list)[q] < i /\ i <= Sums(list)[q] + told[q]
                           /\ \A p \in Ranks : Sums(list)[p] < i /\ i <= Sums(list)[p] + told[p] => p = q
    BY <1>1, <1>2, <1>3, PlacesAre
  <2>2. \A p \in Ranks : Covers(o, gave, p, i) <=> Sums(list)[p] < i /\ i <= Sums(list)[p] + told[p]
    BY <1>1 DEF Covers, Collects, Arrays
  <2>3. OnlyFrom(o, gave, q, i)
    BY <2>1, <2>2 DEF OnlyFrom, Collects
  <2>4. i \in DOMAIN o.into
    BY <1>1, <1>3 DEF Collects
  <2>5. got[i] = gave[q][i - o.place[q]]
    <3>1. o.kind \notin Reductions
      BY DEF Collects
    <3>2. Delivered(o, gave)[i] = gave[q][i - o.place[q]]
      BY <2>3, <2>4, <3>1, DeliveredFrom
    <3> QED BY <1>4, <3>2
  <2>6. PICK j \in Nat : j = i - Sums(list)[q] /\ j \in 1 .. told[q] /\ Sums(list)[q] + j = i
    <3>1. Sums(list)[q] \in Nat /\ told[q] \in Nat
      BY <1>1, <1>2, NumbersAre
    <3> QED BY <2>1, <3>1
  <2>7. got[i] = arrays[q][j]
    BY <1>1, <2>5, <2>6 DEF Collects
  <2>8. all[i] = arrays[q][j]
    BY <1>7, <2>6
  <2> QED BY <2>7, <2>8
<1>9. all = [i \in 1 .. N |-> all[i]]
  BY <1>7
<1>10. got = [i \in 1 .. N |-> got[i]]
  BY Zenon, <1>5
<1>11. got = all
  BY <1>8, <1>9, <1>10
<1> QED BY <1>4, <1>6, <1>11

\* As many from every rank.
LEMMA EqualSums ==
    ASSUME NEW n \in Nat, NEW told, told = [q \in Ranks |-> n]
    PROVE  /\ told \in [Ranks -> Nat] /\ Total(Listed(told)) = Size * n
           /\ \A q \in Ranks : Sums(Listed(told))[q] = q * n
<1>1. PICK N \in Nat : N = Size
  BY RanksAre
<1>2. told \in [Ranks -> Nat] /\ \A q \in Ranks : told[q] = n
  OBVIOUS
<1>3. PICK s \in [0 .. N -> Nat] :
          /\ s = Sums(Listed(told)) /\ s[0] = 0 /\ Total(Listed(told)) = s[N]
          /\ \A q \in Ranks : s[q + 1] = s[q] + n
  BY <1>1, <1>2, NumbersAre
<1> DEFINE T == {k \in 0 .. N : s[k] = k * n}
<1>4. 0 \in T
  BY <1>3
<1>5. ASSUME NEW k \in T, k \in 0 .. N - 1 PROVE k + 1 \in T
  <2>1. k \in Ranks /\ k \in Nat /\ k + 1 \in 0 .. N
    <3>1. k \in 0 .. N - 1
      BY <1>5
    <3> QED BY <1>1, <3>1 DEF Ranks
  <2>2. s[k + 1] = s[k] + n /\ s[k] = k * n
    BY <1>3, <1>5, <2>1
  <2>3. (k + 1) * n = k * n + n
    BY <2>1
  <2> QED BY <2>1, <2>2, <2>3
<1>6. 0 .. N \subseteq T
  <2> HIDE DEF T
  <2> QED BY <1>4, <1>5, UpTo
<1>7. \A k \in 0 .. N : s[k] = k * n
  BY <1>6
<1>8. \A q \in Ranks : q \in 0 .. N
  BY <1>1, RanksAre
<1> QED BY <1>1, <1>2, <1>3, <1>7, <1>8

\* What a collective brings a rank is what the others' collectives at that place give it.
LEMMA BroughtIs ==
    ASSUME NEW c, NEW r, NEW s, NEW mine, mine = Collective(c, r, s)
    PROVE  \E gave : /\ Brought(c, r, s) = Delivered(mine, gave)
                     /\ DOMAIN gave = DOMAIN mine.want
                     /\ \A q \in DOMAIN mine.want : gave[q] = Collective(c, q, s).give[r]
<1>1. PICK mems : mems = Recalled(c, s)
  OBVIOUS
<1>2. mine = NextOperation(c, r, mems[r]) /\ \A q : Collective(c, q, s) = NextOperation(c, q, mems[q])
  BY <1>1 DEF Collective
<1>3. Brought(c, r, s) = Exchanged(c, r, mems)
  BY <1>1 DEF Brought
<1>4. PICK gave : /\ Exchanged(c, r, mems) = Delivered(mine, gave)
                  /\ DOMAIN gave = DOMAIN mine.want
                  /\ \A q \in DOMAIN mine.want : gave[q] = NextOperation(c, q, mems[q]).give[r]
  BY <1>2, ExchangedIs
<1>5. \A q \in DOMAIN mine.want : gave[q] = Collective(c, q, s).give[r]
  BY <1>2, <1>4
<1> QED BY Zenon, <1>3, <1>4, <1>5

\* All ranks gather their arrays, and the root puts each after those of the ranks before.
Gathers(c, s, kind, root, arrays, told) ==
    \A q \in Ranks : \E counts, displs, into :
        /\ Collective(c, q, s) = Gather(kind, q, root, arrays[q], counts, displs, into)
        /\ q = root => /\ DOMAIN into = 1 .. Total(Listed(told))
                       /\ \A p \in Ranks : displs[p + 1] = Sums(Listed(told))[p]

LEMMA GatherBrings ==
    ASSUME NEW c, NEW r \in Ranks, NEW s, NEW kind, kind \notin Reductions,
           NEW S, NEW arrays, NEW told, Arrays(arrays, told, S), Gathers(c, s, kind, r, arrays, told)
    PROVE  Brought(c, r, s) = InRankOrder(arrays)
<1>1. PICK mine : mine = Collective(c, r, s)
  OBVIOUS
<1>2. PICK gave : /\ Brought(c, r, s) = Delivered(mine, gave) /\ DOMAIN gave = DOMAIN mine.want
                  /\ \A q \in DOMAIN mine.want : gave[q] = Collective(c, q, s).give[r]
  BY <1>1, BroughtIs
<1>3. PICK counts, displs, into :
          /\ mine = Gather(kind, r, r, arrays[r], counts, displs, into)
          /\ DOMAIN into = 1 .. Total(Listed(told))
          /\ \A p \in Ranks : displs[p + 1] = Sums(Listed(told))[p]
  BY <1>1 DEF Gathers
<1>4. mine.kind = kind /\ mine.into = into /\ DOMAIN mine.want = Ranks /\ \A q \in Ranks : mine.place[q] = displs[q + 1]
  BY <1>3, GatherIs
<1>5. ASSUME NEW q \in Ranks PROVE gave[q] = arrays[q]
  <2>1. PICK other : other = Collective(c, q, s)
    OBVIOUS
  <2>2. PICK x, y, z : other = Gather(kind, q, r, arrays[q], x, y, z)
    BY <2>1 DEF Gathers
  <2>3. other.give[r] = arrays[q]
    BY <2>2, GatherIs
  <2> QED BY <1>2, <1>4, <2>1, <2>3
<1>6. Collects(mine, gave, arrays, told)
  BY <1>2, <1>3, <1>4, <1>5 DEF Collects
<1> QED BY <1>2, <1>6, DeliveredInOrder

\* Nothing is brought to the others.
LEMMA GatherElsewhere ==
    ASSUME NEW c, NEW r, NEW s, NEW kind, kind \notin Reductions, NEW root, r # root,
           NEW a, NEW counts, NEW displs, Collective(c, r, s) = Gather(kind, r, root, a, counts, displs, Blanks(0))
    PROVE  Brought(c, r, s) = <<>>
<1>1. PICK mine : mine = Collective(c, r, s)
  OBVIOUS
<1>2. PICK gave : Brought(c, r, s) = Delivered(mine, gave) /\ DOMAIN gave = DOMAIN mine.want
  BY <1>1, BroughtIs
<1>3. mine.kind = kind /\ mine.into = Blanks(0) /\ DOMAIN mine.want = {}
  BY <1>1, GatherIs
<1>4. PICK got : got = Delivered(mine, gave)
  OBVIOUS
<1>5. DOMAIN got = DOMAIN mine.into /\ got = [i \in DOMAIN got |-> got[i]]
  BY <1>3, <1>4, DeliveredDomain
<1>6. DOMAIN got = 1 .. 0
  BY <1>3, <1>5, ArraysAre
<1>7. got = <<>>
  BY <1>5, <1>6
<1> QED BY <1>2, <1>4, <1>7

AllGathers(c, s, kind, arrays, told) ==
    \A q \in Ranks : \E counts, displs, into :
        /\ Collective(c, q, s) = AllGather(kind, arrays[q], counts, displs, into)
        /\ DOMAIN into = 1 .. Total(Listed(told))
        /\ \A p \in Ranks : displs[p + 1] = Sums(Listed(told))[p]

LEMMA AllGatherBrings ==
    ASSUME NEW c, NEW r \in Ranks, NEW s, NEW kind, kind \notin Reductions,
           NEW S, NEW arrays, NEW told, Arrays(arrays, told, S), AllGathers(c, s, kind, arrays, told)
    PROVE  Brought(c, r, s) = InRankOrder(arrays)
<1>1. PICK mine : mine = Collective(c, r, s)
  OBVIOUS
<1>2. PICK gave : /\ Brought(c, r, s) = Delivered(mine, gave) /\ DOMAIN gave = DOMAIN mine.want
                  /\ \A q \in DOMAIN mine.want : gave[q] = Collective(c, q, s).give[r]
  BY <1>1, BroughtIs
<1>3. PICK counts, displs, into :
          /\ mine = AllGather(kind, arrays[r], counts, displs, into)
          /\ DOMAIN into = 1 .. Total(Listed(told))
          /\ \A p \in Ranks : displs[p + 1] = Sums(Listed(told))[p]
  BY <1>1 DEF AllGathers
<1>4. mine.kind = kind /\ mine.into = into /\ DOMAIN mine.want = Ranks /\ \A q \in Ranks : mine.place[q] = displs[q + 1]
  BY <1>3, AllGatherIs
<1>5. ASSUME NEW q \in Ranks PROVE gave[q] = arrays[q]
  <2>1. PICK other : other = Collective(c, q, s)
    OBVIOUS
  <2>2. PICK x, y, z : other = AllGather(kind, arrays[q], x, y, z)
    BY <2>1 DEF AllGathers
  <2>3. other.give[r] = arrays[q]
    BY <2>2, AllGatherIs
  <2> QED BY <1>2, <1>4, <2>1, <2>3
<1>6. Collects(mine, gave, arrays, told)
  BY <1>2, <1>3, <1>4, <1>5 DEF Collects
<1> QED BY <1>2, <1>6, DeliveredInOrder

\* A slice inside an array is a part of it.
LEMMA SliceOf ==
    ASSUME NEW S, NEW a \in Seq(S), NEW from \in Nat, NEW n \in Nat, from + n <= Len(a)
    PROVE  /\ Slice(a, from, n) = SubSeq(a, from + 1, from + n) /\ Slice(a, from, n) \in Seq(S)
           /\ Len(SubSeq(a, from + 1, from + n)) = n
<1>1. PICK b : b = Slice(a, from, n)
  OBVIOUS
<1>2. b = [i \in 1 .. n |-> IF from + i <= Len(a) THEN a[from + i] ELSE Outside]
  BY <1>1 DEF Slice
<1>3. PICK d : d = SubSeq(a, from + 1, from + n)
  OBVIOUS
<1>4. d = [i \in 1 .. n |-> a[from + i]]
  <2>1. PICK x \in Nat, y \in Nat : x = from + 1 /\ y = from + n /\ d = SubSeq(a, x, y)
    BY <1>3
  <2>2. d = [i \in 1 .. (1 + y) - x |-> a[(x + i) - 1]]
    BY <2>1 DEF SubSeq
  <2>3. (1 + y) - x = n /\ \A i \in 1 .. n : (x + i) - 1 = from + i
    BY <2>1
  <2> QED BY <2>2, <2>3
<1>5. \A i \in 1 .. n : b[i] = a[from + i] /\ a[from + i] \in S
  <2>1. \A i \in 1 .. n : from + i <= Len(a) /\ from + i \in 1 .. Len(a)
    OBVIOUS
  <2> QED BY <1>2, <2>1
<1>6. b = d
  <2>1. b = [i \in 1 .. n |-> b[i]]
    BY <1>2
  <2> QED BY <1>4, <1>5, <2>1
<1>7. d \in Seq(S) /\ Len(d) = n
  <2>1. \A i \in 1 .. n : d[i] \in S
    BY <1>4, <1>5
  <2> QED BY <1>4, <2>1
<1> QED BY <1>1, <1>3, <1>6, <1>7

Pairs == Nat \X Nat

\* The part of an array behind a place.
IsPart(d, a, from, n) == d = SubSeq(a, from + 1, from + n)

LEMMA SliceIsPart ==
    ASSUME NEW S, NEW a \in Seq(S), NEW from \in Nat, NEW n \in Nat, from + n <= Len(a)
    PROVE  IsPart(Slice(a, from, n), a, from, n) /\ Slice(a, from, n) \in Seq(S)
BY SliceOf DEF IsPart

LEMMA OwnIs ==
    ASSUME NEW r \in Nat, NEW n \in Nat
    PROVE  Own(r, n) \in Seq(Pairs) /\ Len(Own(r, n)) = n
<1>1. \A i \in 1 .. n : <<r, i>> \in Pairs
  BY DEF Pairs
<1> QED BY <1>1 DEF Own

\* A part of one rank's array is given to another.
LEMMA PartIs ==
    ASSUME NEW r \in Ranks, NEW q \in Ranks, NEW n \in Nat
    PROVE  /\ Slice(Own(q, Size * n), r * n, n) = SubSeq(Own(q, Size * n), r * n + 1, (r + 1) * n)
           /\ Slice(Own(q, Size * n), r * n, n) \in Seq(Pairs)
           /\ Len(Slice(Own(q, Size * n), r * n, n)) = n
<1>1. PICK from \in Nat, N \in Nat : from = r * n /\ N = Size * n /\ from + n <= N
  BY EqualParts
<1>2. PICK a : a = Own(q, N)
  OBVIOUS
<1>3. q \in Nat /\ r \in Nat
  BY RanksAre
<1>4. a \in Seq(Pairs) /\ Len(a) = N
  BY <1>2, <1>3, OwnIs
<1>5. /\ Slice(a, from, n) = SubSeq(a, from + 1, from + n) /\ Slice(a, from, n) \in Seq(Pairs)
      /\ Len(Slice(a, from, n)) = n
  <2>1. PICK b \in Seq(Pairs) : b = a
    BY <1>4
  <2>2. from \in Nat /\ n \in Nat /\ from + n <= Len(b)
    BY <1>1, <1>4, <2>1
  <2>3. IsPart(Slice(b, from, n), b, from, n) /\ Slice(b, from, n) \in Seq(Pairs)
    BY <2>2, SliceIsPart
  <2>4. Slice(b, from, n) = SubSeq(b, from + 1, from + n)
    BY <2>3 DEF IsPart
  <2>5. Len(Slice(b, from, n)) = n
    BY <2>2, SliceIs
  <2> QED BY <2>1, <2>3, <2>4, <2>5
<1>6. (r + 1) * n = from + n
  BY <1>1, <1>3
<1> QED BY <1>1, <1>2, <1>5, <1>6

Alltoalls(c, s, n) ==
    \A q \in Ranks : \E into : /\ Collective(c, q, s) = Alltoall(Own(q, Size * n), n, into)
                               /\ DOMAIN into = 1 .. Size * n

LEMMA AlltoallBrings ==
    ASSUME NEW c, NEW r \in Ranks, NEW s, NEW n \in Nat, Alltoalls(c, s, n),
           NEW told, told = [q \in Ranks |-> n], NEW arrays, arrays = [q \in Ranks |-> arrays[q]],
           \A q \in Ranks : arrays[q] = SubSeq(Own(q, Size * n), r * n + 1, (r + 1) * n)
    PROVE  Brought(c, r, s) = InRankOrder(arrays) /\ Arrays(arrays, told, Pairs)
<1>1. PICK mine : mine = Collective(c, r, s)
  OBVIOUS
<1>2. PICK gave : /\ Brought(c, r, s) = Delivered(mine, gave) /\ DOMAIN gave = DOMAIN mine.want
                  /\ \A q \in DOMAIN mine.want : gave[q] = Collective(c, q, s).give[r]
  BY <1>1, BroughtIs
<1>3. \A q \in Ranks : told[q] = n
  OBVIOUS
<1>4. /\ told \in [Ranks -> Nat] /\ Total(Listed(told)) = Size * n
      /\ \A q \in Ranks : Sums(Listed(told))[q] = q * n
  BY EqualSums
<1>5. PICK into : mine = Alltoall(Own(r, Size * n), n, into) /\ DOMAIN into = 1 .. Size * n
  BY <1>1 DEF Alltoalls
<1>6. mine.kind = "alltoall" /\ mine.into = into /\ DOMAIN mine.want = Ranks /\ \A q \in Ranks : mine.place[q] = q * n
  BY <1>5, AlltoallIs
<1>7. ASSUME NEW q \in Ranks PROVE gave[q] = arrays[q] /\ arrays[q] \in Seq(Pairs) /\ Len(arrays[q]) = n
  <2>1. PICK other : other = Collective(c, q, s)
    OBVIOUS
  <2>2. PICK into2 : other = Alltoall(Own(q, Size * n), n, into2)
    BY <2>1 DEF Alltoalls
  <2>3. other.give[r] = Slice(Own(q, Size * n), r * n, n)
    BY <2>2, AlltoallIs
  <2>4. arrays[q] = Slice(Own(q, Size * n), r * n, n) /\ arrays[q] \in Seq(Pairs) /\ Len(arrays[q]) = n
    <3>1. arrays[q] = SubSeq(Own(q, Size * n), r * n + 1, (r + 1) * n)
      OBVIOUS
    <3>2. /\ Slice(Own(q, Size * n), r * n, n) = SubSeq(Own(q, Size * n), r * n + 1, (r + 1) * n)
          /\ Slice(Own(q, Size * n), r * n, n) \in Seq(Pairs)
          /\ Len(Slice(Own(q, Size * n), r * n, n)) = n
      BY PartIs
    <3> QED BY Zenon, <3>1, <3>2
  <2> QED BY <1>2, <1>6, <2>1, <2>3, <2>4
<1>8. Arrays(arrays, told, Pairs)
  BY <1>3, <1>4, <1>7 DEF Arrays
<1>9. mine.kind \notin Reductions
  BY <1>6 DEF Reductions
<1>10. Collects(mine, gave, arrays, told)
  BY <1>2, <1>4, <1>5, <1>6, <1>7, <1>9 DEF Collects
<1> QED BY <1>2, <1>8, <1>10, DeliveredInOrder

\* Every rank has room for as many elements as the root gives.
Broadcasts(c, s, kind, a, n) ==
    \A q \in Ranks : \E b : /\ Collective(c, q, s) = Bcast(kind, q, c.root, b, n)
                            /\ DOMAIN b = 1 .. n /\ (q = c.root => b = a)

LEMMA BcastBrings ==
    ASSUME NEW c, c.root \in Ranks, NEW r \in Ranks, NEW s, NEW kind, kind \notin Reductions,
           NEW a, NEW n \in Nat, Len(a) = n, a = [i \in 1 .. n |-> a[i]], Broadcasts(c, s, kind, a, n)
    PROVE  Brought(c, r, s) = a
<1>1. PICK mine : mine = Collective(c, r, s)
  OBVIOUS
<1>2. PICK gave : /\ Brought(c, r, s) = Delivered(mine, gave) /\ DOMAIN gave = DOMAIN mine.want
                  /\ \A q \in DOMAIN mine.want : gave[q] = Collective(c, q, s).give[r]
  BY <1>1, BroughtIs
<1>3. PICK b : mine = Bcast(kind, r, c.root, b, n) /\ DOMAIN b = 1 .. n /\ (r = c.root => b = a)
  BY <1>1 DEF Broadcasts
<1>4. mine.kind = kind /\ mine.into = b
  BY <1>3, BcastIs
<1>5. PICK got : got = Delivered(mine, gave)
  OBVIOUS
<1>6. CASE r = c.root
  <2>1. DOMAIN mine.want = {}
    BY <1>3, <1>6, BcastIs
  <2>2. FromNone(mine, gave)
    BY <1>2, <1>4, <2>1 DEF FromNone
  <2>3. Delivered(mine, gave) = [i \in DOMAIN mine.into |-> Delivered(mine, gave)[i]]
        /\ \A i \in DOMAIN mine.into : Delivered(mine, gave)[i] = mine.into[i]
    BY <2>2, NothingSent
  <2>4. mine.into = a /\ DOMAIN mine.into = 1 .. n
    BY <1>3, <1>4, <1>6
  <2>5. got = [i \in 1 .. n |-> got[i]] /\ \A i \in 1 .. n : got[i] = a[i]
    BY Zenon, <1>5, <2>3, <2>4
  <2> QED BY <1>2, <1>5, <2>5
<1>7. CASE r # c.root
  <2>1. DOMAIN mine.want = {c.root} /\ mine.place[c.root] = 0
    BY <1>3, <1>7, BcastIs
  <2>2. PICK o : o = Collective(c, c.root, s)
    OBVIOUS
  <2>3. o = Bcast(kind, c.root, c.root, a, n)
    BY <2>2 DEF Broadcasts
  <2>4. gave[c.root] = Slice(a, 0, n)
    <3>1. o.give[r] = Slice(a, 0, n)
      BY <1>7, <2>3, BcastIs
    <3> QED BY <1>2, <2>1, <2>2, <3>1
  <2>5. Slice(a, 0, n) = [i \in 1 .. n |-> a[i]]
    BY DEF Slice
  <2>6. gave[c.root] = a
    BY <2>4, <2>5
  <2>7. FromOne(mine, gave, c.root, n)
    BY <1>2, <1>3, <1>4, <2>1, <2>6 DEF FromOne
  <2>8. /\ Delivered(mine, gave) = [i \in 1 .. n |-> Delivered(mine, gave)[i]]
        /\ \A i \in 1 .. n : Delivered(mine, gave)[i] = gave[c.root][i]
    BY <2>7, AllFromOne
  <2>9. got = [i \in 1 .. n |-> got[i]] /\ \A i \in 1 .. n : got[i] = a[i]
    BY Zenon, <1>5, <2>6, <2>8
  <2> QED BY <1>2, <1>5, <2>9
<1> QED BY <1>6, <1>7

\* The root scatters all, of which n elements from a place on are for rank r.
Scatters(c, s, kind, root, all, r, from, n) ==
    /\ kind \notin Reductions /\ all \in Seq(Pairs) /\ from \in Nat /\ n \in Nat /\ from + n <= Len(all)
    /\ \E counts, displs, k, into :
           /\ Collective(c, root, s) = Scatter(kind, root, root, all, counts, displs, k, into)
           /\ displs[r + 1] = from /\ counts[r + 1] = n
    /\ \E a, counts, displs, into :
           /\ Collective(c, r, s) = Scatter(kind, r, root, a, counts, displs, n, into)
           /\ DOMAIN into = 1 .. n

LEMMA ScatterBrings ==
    ASSUME NEW c, NEW s, NEW kind, NEW root, NEW all, NEW r \in Ranks, NEW from, NEW n,
           Scatters(c, s, kind, root, all, r, from, n)
    PROVE  Brought(c, r, s) = Slice(all, from, n)
<1>0. kind \notin Reductions /\ all \in Seq(Pairs) /\ from \in Nat /\ n \in Nat /\ from + n <= Len(all)
  BY DEF Scatters
<1>1. PICK mine : mine = Collective(c, r, s)
  OBVIOUS
<1>2. PICK gave : /\ Brought(c, r, s) = Delivered(mine, gave) /\ DOMAIN gave = DOMAIN mine.want
                  /\ \A q \in DOMAIN mine.want : gave[q] = Collective(c, q, s).give[r]
  BY <1>1, BroughtIs
<1>3. PICK into : \E a, counts, displs :
          mine = Scatter(kind, r, root, a, counts, displs, n, into) /\ DOMAIN into = 1 .. n
  BY <1>1 DEF Scatters
<1>4. mine.kind = kind /\ mine.into = into /\ DOMAIN mine.want = {root} /\ mine.place[root] = 0
  BY <1>3, ScatterIs
<1>5. PICK part : part = Slice(all, from, n)
  OBVIOUS
<1>6. gave[root] = part
  <2>1. PICK o : o = Collective(c, root, s)
    OBVIOUS
  <2>2. PICK counts, displs : \E k, x :
            o = Scatter(kind, root, root, all, counts, displs, k, x) /\ displs[r + 1] = from /\ counts[r + 1] = n
    BY <2>1 DEF Scatters
  <2>3. o.give[r] = part
    BY <1>5, <2>2, ScatterIs
  <2> QED BY <1>2, <1>4, <2>1, <2>3
<1>7. part = SubSeq(all, from + 1, from + n) /\ part \in Seq(Pairs) /\ Len(part) = n
  BY <1>0, <1>5, SliceOf, SliceIs
<1>8. FromOne(mine, gave, root, n)
  BY <1>0, <1>2, <1>3, <1>4, <1>6, <1>7 DEF FromOne
<1>9. PICK got : got = Delivered(mine, gave)
  OBVIOUS
<1>10. got = [i \in 1 .. n |-> got[i]] /\ \A i \in 1 .. n : got[i] = part[i]
  <2>1. /\ Delivered(mine, gave) = [i \in 1 .. n |-> Delivered(mine, gave)[i]]
        /\ \A i \in 1 .. n : Delivered(mine, gave)[i] = gave[root][i]
    BY <1>0, <1>8, AllFromOne
  <2> QED BY Zenon, <1>6, <1>9, <2>1
<1>11. part = [i \in 1 .. n |-> part[i]]
  <2>1. part = [i \in 1 .. n |-> IF from + i <= Len(all) THEN all[from + i] ELSE Outside]
    BY <1>5 DEF Slice
  <2> QED BY Zenon, <2>1
<1>12. got = part
  BY <1>10, <1>11
<1> QED BY <1>2, <1>5, <1>9, <1>12

\* What is reduced.
Reduced(kind, gave, n) == [i \in 1 .. n |-> Combined(kind, {gave[q][i] : q \in Ranks})]

LEMMA ReducedIs ==
    ASSUME NEW o, o.kind \in Reductions, DOMAIN o.want = Ranks, NEW n, DOMAIN o.into = 1 .. n,
           NEW gave, DOMAIN gave = Ranks
    PROVE  Delivered(o, gave) = Reduced(o.kind, gave, n)
<1>1. o.want # <<>>
  <2>1. DOMAIN <<>> = {} /\ Ranks # {}
    BY RanksAre
  <2> QED BY <2>1
<1>2. Delivered(o, gave) = [i \in DOMAIN o.into |-> Combined(o.kind, {gave[q][i] : q \in DOMAIN gave})]
  BY Zenon, <1>1 DEF Delivered
<1> QED BY Zenon, <1>2 DEF Reduced

\* A sum of everybody's arrays keeps their terms.
SumOf(n) == [i \in 1 .. n |-> {<<q, i>> : q \in Ranks}]

LEMMA SumIs ==
    ASSUME NEW n \in Nat, NEW gave, DOMAIN gave = Ranks, \A q \in Ranks : gave[q] = Own(q, n),
           NEW kind, kind \in {"reduce", "allreduce"}
    PROVE  Reduced(kind, gave, n) = SumOf(n)
<1>1. ASSUME NEW i \in 1 .. n PROVE Combined(kind, {gave[q][i] : q \in Ranks}) = {<<q, i>> : q \in Ranks}
  <2>1. \A q \in Ranks : gave[q][i] = <<q, i>>
    BY ArraysAre
  <2>2. {gave[q][i] : q \in Ranks} = {<<q, i>> : q \in Ranks}
    BY <2>1
  <2>3. \A terms : Combined(kind, terms) = terms
    BY DEF Combined
  <2> QED BY <2>2, <2>3
<1> QED BY Zenon, <1>1 DEF SumOf, Reduced

\* The root has room for the reduction.
Reduces(c, s, root, n) ==
    \A q \in Ranks : \E into : /\ Collective(c, q, s) = Reduce(q, root, Own(q, n), into)
                               /\ (q = root => DOMAIN into = 1 .. n)

LEMMA ReduceBrings ==
    ASSUME NEW c, NEW r \in Ranks, NEW s, NEW root \in Ranks, NEW n \in Nat, Reduces(c, s, root, n)
    PROVE  /\ r = root => Brought(c, r, s) = SumOf(n)
           /\ r # root => Brought(c, r, s) = Collective(c, r, s).into
<1>1. PICK mine : mine = Collective(c, r, s)
  OBVIOUS
<1>2. PICK gave : /\ Brought(c, r, s) = Delivered(mine, gave) /\ DOMAIN gave = DOMAIN mine.want
                  /\ \A q \in DOMAIN mine.want : gave[q] = Collective(c, q, s).give[r]
  BY <1>1, BroughtIs
<1>3. PICK into : mine = Reduce(r, root, Own(r, n), into) /\ (r = root => DOMAIN into = 1 .. n)
  BY <1>1 DEF Reduces
<1>4. mine.kind = "reduce" /\ mine.into = into /\ mine.kind \in Reductions
  <2>1. mine.kind = "reduce" /\ mine.into = into
    BY <1>3, ReduceIs
  <2> QED BY <2>1 DEF Reductions
<1>5. ASSUME r = root PROVE Brought(c, r, s) = SumOf(n)
  <2>1. DOMAIN mine.want = Ranks
    BY <1>3, <1>5, ReduceIs
  <2>2. ASSUME NEW q \in Ranks PROVE gave[q] = Own(q, n)
    <3>1. PICK o : o = Collective(c, q, s)
      OBVIOUS
    <3>2. PICK x : o = Reduce(q, root, Own(q, n), x)
      BY <3>1 DEF Reduces
    <3>3. o.give[root] = Own(q, n)
      BY <3>2, ReduceIs
    <3> QED BY <1>2, <1>5, <2>1, <3>1, <3>3
  <2>3. DOMAIN gave = Ranks /\ DOMAIN mine.into = 1 .. n
    BY <1>2, <1>3, <1>4, <1>5, <2>1
  <2>4. Delivered(mine, gave) = Reduced(mine.kind, gave, n)
    BY <1>4, <2>1, <2>3, ReducedIs
  <2>5. Reduced(mine.kind, gave, n) = SumOf(n)
    BY <1>4, <2>2, <2>3, SumIs
  <2> QED BY Zenon, <1>2, <2>4, <2>5
<1>6. ASSUME r # root PROVE Brought(c, r, s) = mine.into
  <2>1. mine.want = <<>>
    BY <1>3, <1>6, ReduceIs
  <2>2. Delivered(mine, gave) = mine.into
    BY <1>4, <2>1 DEF Delivered
  <2> QED BY <1>2, <2>2
<1> QED BY <1>1, <1>5, <1>6

\* Every rank has room for the reduction.
Allreduces(c, s, kind, arrays, n) ==
    \A q \in Ranks : \E into : Collective(c, q, s) = Allreduce(kind, arrays[q], into) /\ DOMAIN into = 1 .. n

LEMMA AllreduceBrings ==
    ASSUME NEW c, NEW r \in Ranks, NEW s, NEW kind, kind \in Reductions, NEW n, NEW arrays,
           Allreduces(c, s, kind, arrays, n)
    PROVE  \E gave : /\ DOMAIN gave = Ranks /\ \A q \in Ranks : gave[q] = arrays[q]
                     /\ Brought(c, r, s) = Reduced(kind, gave, n)
<1>1. PICK mine : mine = Collective(c, r, s)
  OBVIOUS
<1>2. PICK gave : /\ Brought(c, r, s) = Delivered(mine, gave) /\ DOMAIN gave = DOMAIN mine.want
                  /\ \A q \in DOMAIN mine.want : gave[q] = Collective(c, q, s).give[r]
  BY <1>1, BroughtIs
<1>3. PICK into : mine = Allreduce(kind, arrays[r], into) /\ DOMAIN into = 1 .. n
  BY <1>1 DEF Allreduces
<1>4. mine.kind = kind /\ mine.into = into /\ DOMAIN mine.want = Ranks
  BY <1>3, AllreduceIs
<1>5. ASSUME NEW q \in Ranks PROVE gave[q] = arrays[q]
  <2>1. PICK o : o = Collective(c, q, s)
    OBVIOUS
  <2>2. PICK x : o = Allreduce(kind, arrays[q], x)
    BY <2>1 DEF Allreduces
  <2>3. o.give[r] = arrays[q]
    BY <2>2, AllreduceIs
  <2> QED BY <1>2, <1>4, <2>1, <2>3
<1>6. Delivered(mine, gave) = Reduced(mine.kind, gave, n)
  BY <1>2, <1>3, <1>4, ReducedIs
<1>7. Brought(c, r, s) = Reduced(kind, gave, n)
  BY Zenon, <1>2, <1>4, <1>6
<1> QED BY Zenon, <1>2, <1>4, <1>5, <1>7

\* The first of the ranks with the largest number.
FirstLargest(told, q) ==
    q \in Ranks /\ \A p \in Ranks : told[p] < told[q] \/ (told[p] = told[q] /\ q <= p)

LEMMA LargestIs ==
    ASSUME NEW told \in [Ranks -> Nat]
    PROVE  \E q : FirstLargest(told, q)
<1>1. PICK N \in Nat : N = Total(Listed(told))
  BY NumbersAre
<1>2. ASSUME NEW p \in Ranks PROVE told[p] \in Nat /\ told[p] <= N
  BY <1>1, NumbersAre
<1>3. PICK T : T = {N - told[p] : p \in Ranks}
  OBVIOUS
<1>4. T \subseteq Nat /\ T # {}
  <2>1. \A p \in Ranks : N - told[p] \in Nat
    BY <1>2
  <2> QED BY <1>3, <2>1, RanksAre
<1>5. PICK x \in T : \A y \in T : x <= y
  BY <1>4, LeastNumber
<1>6. PICK best \in Ranks : x = N - told[best]
  BY <1>3
<1>7. ASSUME NEW p \in Ranks PROVE told[p] <= told[best]
  <2>1. x <= N - told[p]
    BY <1>3, <1>5
  <2>2. told[p] \in Nat /\ told[best] \in Nat
    BY <1>2
  <2> QED BY <1>6, <2>1, <2>2
<1>8. PICK U : U = {p \in Ranks : told[p] = told[best]}
  OBVIOUS
<1>9. U \subseteq Nat /\ U # {}
  BY <1>8, RanksAre
<1>10. PICK q \in U : \A p \in U : q <= p
  BY <1>9, LeastNumber
<1>11. ASSUME NEW p \in Ranks PROVE told[p] < told[q] \/ (told[p] = told[q] /\ q <= p)
  <2>1. told[q] = told[best] /\ told[p] <= told[best] /\ told[p] \in Nat /\ told[best] \in Nat
    BY <1>2, <1>7, <1>8
  <2>2. CASE told[p] = told[best]
    BY <1>8, <1>10, <2>1, <2>2
  <2>3. CASE told[p] # told[best]
    BY <2>1, <2>3
  <2> QED BY <2>2, <2>3
<1> QED BY <1>8, <1>11 DEF FirstLargest

LEMMA SmallestIs ==
    ASSUME NEW told \in [Ranks -> Nat]
    PROVE  \E q \in Ranks : \A p \in Ranks : told[q] <= told[p]
<1>1. PICK T : T = {told[p] : p \in Ranks}
  OBVIOUS
<1>2. T \subseteq Nat /\ T # {}
  BY <1>1, RanksAre
<1>3. PICK x \in T : \A y \in T : x <= y
  BY <1>2, LeastNumber
<1> QED BY <1>1, <1>3

\* The reductions of one number of each rank.
LEMMA ExtremaAre ==
    ASSUME NEW told \in [Ranks -> Nat], NEW kind, NEW x, x = Combined(kind, {<<told[q]>> : q \in Ranks})
    PROVE  /\ kind \in {"max", "or"} => \E q \in Ranks : x = <<told[q]>> /\ \A p \in Ranks : told[p] <= told[q]
           /\ kind \in {"min", "and"} => \E q \in Ranks : x = <<told[q]>> /\ \A p \in Ranks : told[q] <= told[p]
<1>1. PICK terms : terms = {<<told[q]>> : q \in Ranks}
  OBVIOUS
<1>2. \A q \in Ranks : <<told[q]>> \in terms /\ <<told[q]>>[1] = told[q] /\ told[q] \in Nat
  BY <1>1
<1>3. ASSUME kind \in {"max", "or"}
      PROVE  \E q \in Ranks : x = <<told[q]>> /\ \A p \in Ranks : told[p] <= told[q]
  <2>1. x = CHOOSE y \in terms : \A z \in terms : z[1] <= y[1]
    BY <1>1, <1>3 DEF Combined
  <2>2. PICK best : FirstLargest(told, best)
    BY LargestIs
  <2>3. \E y \in terms : \A z \in terms : z[1] <= y[1]
    <3>1. best \in Ranks /\ \A p \in Ranks : told[p] <= told[best]
      BY <1>2, <2>2 DEF FirstLargest
    <3>2. \A z \in terms : z[1] <= <<told[best]>>[1]
      BY <1>1, <1>2, <3>1
    <3> QED BY <1>2, <3>1, <3>2
  <2>4. x \in terms /\ \A z \in terms : z[1] <= x[1]
    BY <2>1, <2>3
  <2>5. PICK q \in Ranks : x = <<told[q]>>
    BY <1>1, <2>4
  <2>6. ASSUME NEW p \in Ranks PROVE told[p] <= told[q]
    BY <1>2, <2>4, <2>5
  <2> QED BY <2>5, <2>6
<1>4. ASSUME kind \in {"min", "and"}
      PROVE  \E q \in Ranks : x = <<told[q]>> /\ \A p \in Ranks : told[q] <= told[p]
  <2>1. x = CHOOSE y \in terms : \A z \in terms : y[1] <= z[1]
    BY <1>1, <1>4 DEF Combined
  <2>2. PICK best \in Ranks : \A p \in Ranks : told[best] <= told[p]
    BY SmallestIs
  <2>3. \E y \in terms : \A z \in terms : y[1] <= z[1]
    <3>2. \A z \in terms : <<told[best]>>[1] <= z[1]
      BY <1>1, <1>2, <2>2
    <3> QED BY <1>2, <3>2
  <2>4. x \in terms /\ \A z \in terms : x[1] <= z[1]
    BY <2>1, <2>3
  <2>5. PICK q \in Ranks : x = <<told[q]>>
    BY <1>1, <2>4
  <2>6. ASSUME NEW p \in Ranks PROVE told[q] <= told[p]
    BY <1>2, <2>4, <2>5
  <2> QED BY <2>5, <2>6
<1> QED BY <1>3, <1>4

LEMMA MaxLocIs ==
    ASSUME NEW told \in [Ranks -> Nat], NEW x, x = Combined("max_loc", {<<told[q], q>> : q \in Ranks}),
           NEW first, first = CHOOSE q \in Ranks : \A p \in Ranks : told[p] < told[q] \/ (told[p] = told[q] /\ q <= p)
    PROVE  x = <<told[first], first>>
<1>1. PICK terms : terms = {<<told[q], q>> : q \in Ranks}
  OBVIOUS
<1>2. \A q \in Ranks : /\ <<told[q], q>> \in terms /\ <<told[q], q>>[1] = told[q] /\ <<told[q], q>>[2] = q
                       /\ told[q] \in Nat /\ q \in Nat
  BY <1>1, RanksAre
<1>3. first \in Ranks /\ \A p \in Ranks : told[p] < told[first] \/ (told[p] = told[first] /\ first <= p)
  BY LargestIs DEF FirstLargest
<1>4. x = CHOOSE y \in terms : \A z \in terms : z[1] < y[1] \/ (z[1] = y[1] /\ y[2] <= z[2])
  BY <1>1 DEF Combined
<1>5. \E y \in terms : \A z \in terms : z[1] < y[1] \/ (z[1] = y[1] /\ y[2] <= z[2])
  <2>1. PICK y : y = <<told[first], first>> /\ y \in terms /\ y[1] = told[first] /\ y[2] = first
    BY <1>2, <1>3
  <2>2. ASSUME NEW z \in terms PROVE z[1] < y[1] \/ (z[1] = y[1] /\ y[2] <= z[2])
    <3>1. PICK p \in Ranks : z = <<told[p], p>> /\ z[1] = told[p] /\ z[2] = p
      BY <1>1
    <3> QED BY <1>3, <2>1, <3>1
  <2> QED BY <2>1, <2>2
<1>6. x \in terms /\ \A z \in terms : z[1] < x[1] \/ (z[1] = x[1] /\ x[2] <= z[2])
  BY <1>4, <1>5
<1>7. PICK q \in Ranks : x = <<told[q], q>> /\ x[1] = told[q] /\ x[2] = q
  BY <1>1, <1>6
<1>8. told[first] < told[q] \/ (told[first] = told[q] /\ q <= first)
  <2>1. PICK z \in terms : z = <<told[first], first>> /\ z[1] = told[first] /\ z[2] = first
    BY <1>2, <1>3
  <2> QED BY <1>6, <1>7, <2>1
<1>9. told[q] < told[first] \/ (told[q] = told[first] /\ first <= q)
  BY <1>3
<1>10. q = first
  <2>1. told[q] \in Nat /\ told[first] \in Nat /\ q \in Nat /\ first \in Nat
    BY <1>2, <1>3
  <2> QED BY <1>8, <1>9, <2>1
<1> QED BY <1>7, <1>10

LEMMA MaxByValueIs ==
    ASSUME NEW told \in [Ranks -> Nat], NEW x, x = Combined("max_by_value", {<<told[q], q>> : q \in Ranks}),
           NEW first, first = CHOOSE q \in Ranks : \A p \in Ranks : told[p] < told[q] \/ (told[p] = told[q] /\ q <= p)
    PROVE  x = <<told[first], {q \in Ranks : told[q] = told[first]}>>
<1>1. PICK terms : terms = {<<told[q], q>> : q \in Ranks}
  OBVIOUS
<1>2. PICK largest : largest = {y \in terms : \A z \in terms : z[1] <= y[1]}
  OBVIOUS
<1>3. x = <<(CHOOSE y \in largest : TRUE)[1], {y[2] : y \in largest}>>
  BY Zenon, <1>1, <1>2 DEF Combined
<1>4. first \in Ranks /\ \A p \in Ranks : told[p] <= told[first] /\ told[p] \in Nat
  <2>1. first \in Ranks /\ \A p \in Ranks : told[p] < told[first] \/ (told[p] = told[first] /\ first <= p)
    BY LargestIs DEF FirstLargest
  <2> QED BY <2>1
<1>5. ASSUME NEW y PROVE y \in largest <=> \E q \in Ranks : y = <<told[q], q>> /\ told[q] = told[first]
  <2>1. ASSUME y \in largest PROVE \E q \in Ranks : y = <<told[q], q>> /\ told[q] = told[first]
    <3>0. y \in terms /\ \A z \in terms : z[1] <= y[1]
      BY <1>2, <2>1
    <3>1. PICK q \in Ranks : y = <<told[q], q>> /\ y[1] = told[q]
      BY <1>1, <3>0
    <3>7. PICK top : top = told[first]
      OBVIOUS
    <3>8. <<top, first>>[1] = top
      OBVIOUS
    <3>2. PICK z : z = <<top, first>>
      OBVIOUS
    <3>9. z[1] = told[first]
      BY <3>2, <3>7, <3>8
    <3>10. z \in {<<told[p], p>> : p \in Ranks}
      BY Zenon, <1>4, <3>2, <3>7
    <3>3. z \in terms
      BY <1>1, <3>10
    <3>4. told[first] <= told[q]
      BY <3>0, <3>1, <3>3, <3>9
    <3>5. told[q] \in Nat /\ told[first] \in Nat /\ told[q] <= told[first]
      BY <1>4, <3>1
    <3>6. told[q] = told[first]
      BY <3>4, <3>5
    <3> QED BY Zenon, <3>1, <3>6
  <2>2. ASSUME NEW q \in Ranks, y = <<told[q], q>>, told[q] = told[first] PROVE y \in largest
    <3>1. y \in terms /\ y[1] = told[first]
      BY <1>1, <2>2
    <3>2. ASSUME NEW z \in terms PROVE z[1] <= y[1]
      <4>1. PICK p \in Ranks : z = <<told[p], p>> /\ z[1] = told[p]
        BY <1>1
      <4> QED BY <1>4, <3>1, <4>1
    <3> QED BY <1>2, <3>1, <3>2
  <2> QED BY <2>1, <2>2
<1>6. (CHOOSE y \in largest : TRUE)[1] = told[first]
  <2>1. <<told[first], first>> \in largest
    BY <1>4, <1>5
  <2>2. PICK y : y = CHOOSE z \in largest : TRUE
    OBVIOUS
  <2>3. y \in largest
    BY <2>1, <2>2
  <2>4. y[1] = told[first]
    BY <1>5, <2>3
  <2> QED BY <2>2, <2>4
<1>7. {y[2] : y \in largest} = {q \in Ranks : told[q] = told[first]}
  <2>1. ASSUME NEW q \in {y[2] : y \in largest} PROVE q \in Ranks /\ told[q] = told[first]
    <3>1. PICK y \in largest : q = y[2]
      OBVIOUS
    <3>2. PICK p \in Ranks : y = <<told[p], p>> /\ told[p] = told[first]
      BY <1>5
    <3> QED BY <3>1, <3>2
  <2>2. ASSUME NEW q \in Ranks, told[q] = told[first] PROVE q \in {y[2] : y \in largest}
    <3>1. <<told[q], q>> \in largest /\ <<told[q], q>>[2] = q
      BY <1>5, <2>2
    <3> QED BY <3>1
  <2> QED BY <2>1, <2>2
<1> QED BY <1>3, <1>6, <1>7

\* One element of every rank is reduced to one.
LEMMA ReducedOne ==
    ASSUME NEW kind, NEW gave, NEW arrays, \A q \in Ranks : gave[q] = arrays[q] /\ arrays[q] = <<arrays[q][1]>>
    PROVE  Reduced(kind, gave, 1) = <<Combined(kind, {arrays[q][1] : q \in Ranks})>>
<1>1. PICK x : x = Combined(kind, {gave[q][1] : q \in Ranks})
  OBVIOUS
<1>2. {gave[q][1] : q \in Ranks} = {arrays[q][1] : q \in Ranks}
  OBVIOUS
<1>3. PICK a : a = Reduced(kind, gave, 1)
  OBVIOUS
<1>4. DOMAIN a = 1 .. 1 /\ a[1] = x /\ a = [i \in 1 .. 1 |-> a[i]]
  BY <1>1, <1>3 DEF Reduced
<1>5. a = <<x>>
  BY <1>4
<1> QED BY <1>1, <1>2, <1>3, <1>5

\* The arrays of a call, and what of them is for rank r in an exchange of all with all.
OwnOf(c) == [q \in Ranks |-> Own(q, c.n[q])]
ColumnsOf(c, r) == [q \in Ranks |-> SubSeq(Own(q, Size * c.n[q]), r * c.n[q] + 1, (r + 1) * c.n[q])]
Largest(c) == CHOOSE q \in Ranks : \A p \in Ranks : c.n[p] < c.n[q] \/ (c.n[p] = c.n[q] /\ q <= p)
AllLargest(c) == {q \in Ranks : c.n[q] = c.n[Largest(c)]}

LEMMA ExpectedIs ==
    ASSUME NEW c, NEW r, NEW e, e = Expected(c, r)
    PROVE  /\ c.op = "barrier" => e = <<>>
           /\ c.op \in {"broadcast_value", "broadcast", "ibroadcast"} => e = OwnOf(c)[c.root]
           /\ c.op \in {"reduce", "reduce_value"} => e = IF r = c.root THEN SumOf(c.n[r]) ELSE Blanks(c.n[r])
           /\ c.op = "reduce_in_place" => e = IF r = c.root THEN SumOf(c.n[r]) ELSE OwnOf(c)[r]
           /\ c.op \in {"all_reduce", "all_reduce_value", "all_reduce_in_place"} => e = SumOf(c.n[r])
           /\ c.op = "max" => e = <<<<Max({c.n[q] : q \in Ranks})>>>>
           /\ c.op = "min" => e = <<<<Min({c.n[q] : q \in Ranks})>>>>
           /\ c.op = "and" => e = <<<<IF \A q \in Ranks : c.n[q] > 0 THEN 1 ELSE 0>>>>
           /\ c.op = "or" => e = <<<<IF \E q \in Ranks : c.n[q] > 0 THEN 1 ELSE 0>>>>
           /\ c.op \in {"max_element", "max_location"} => e = <<<<c.n[Largest(c)], Largest(c)>>>>
           /\ c.op = "max_location_other" => e = <<<<c.n[Largest(c)], AllLargest(c)>>>>
           /\ c.op \in {"scatter", "scatter_list"} => e = <<<<c.root, r + 1>>>>
           /\ c.op = "scatter_n" => e = SubSeq(Own(c.root, Size * c.n[r]), r * c.n[r] + 1, (r + 1) * c.n[r])
           /\ c.op \in {"scatterv", "scatterv_n_from"}
                 => e = SubSeq(Own(c.root, Sums(Sizes(c))[r] + c.n[r]), Sums(Sizes(c))[r] + 1, Sums(Sizes(c))[r] + c.n[r])
           /\ c.op \in {"gather", "igather", "gather_value", "gather_package", "gatherv"}
                 => e = IF r = c.root THEN InRankOrder(OwnOf(c)) ELSE <<>>
           /\ c.op = "gatherv_told" => e = IF r = 0 THEN InRankOrder(OwnOf(c)) ELSE <<>>
           /\ c.op \in {"all_gather", "iall_gather", "all_gather_value", "all_gather_package", "all_gatherv",
                        "all_gatherv_output"} => e = InRankOrder(OwnOf(c))
           /\ c.op \in {"all_to_all_n", "all_to_all_in_place"} => e = InRankOrder(ColumnsOf(c, r))
<1>1. ASSUME c.op = "barrier" PROVE e = <<>>
  BY Zenon, <1>1 DEF Expected
<1>2. ASSUME c.op \in {"broadcast_value", "broadcast", "ibroadcast"} PROVE e = OwnOf(c)[c.root]
  BY <1>2 DEF Expected, OwnOf
<1>3. ASSUME c.op \in {"reduce", "reduce_value"} PROVE e = IF r = c.root THEN SumOf(c.n[r]) ELSE Blanks(c.n[r])
  BY <1>3 DEF Expected, SumOf
<1>4. ASSUME c.op = "reduce_in_place" PROVE e = IF r = c.root THEN SumOf(c.n[r]) ELSE OwnOf(c)[r]
  BY <1>4 DEF Expected, SumOf, OwnOf
<1>5. ASSUME c.op \in {"all_reduce", "all_reduce_value", "all_reduce_in_place"} PROVE e = SumOf(c.n[r])
  BY <1>5 DEF Expected, SumOf
<1>6. ASSUME c.op = "max" PROVE e = <<<<Max({c.n[q] : q \in Ranks})>>>>
  BY <1>6 DEF Expected
<1>7. ASSUME c.op = "min" PROVE e = <<<<Min({c.n[q] : q \in Ranks})>>>>
  BY <1>7 DEF Expected
<1>8. ASSUME c.op = "and" PROVE e = <<<<IF \A q \in Ranks : c.n[q] > 0 THEN 1 ELSE 0>>>>
  BY <1>8 DEF Expected
<1>9. ASSUME c.op = "or" PROVE e = <<<<IF \E q \in Ranks : c.n[q] > 0 THEN 1 ELSE 0>>>>
  BY <1>9 DEF Expected
<1>20. ASSUME c.op = "max_location_other" PROVE e = <<<<c.n[Largest(c)], AllLargest(c)>>>>
  BY <1>20 DEF Expected, Largest, AllLargest
<1>10. ASSUME c.op \in {"max_element", "max_location"} PROVE e = <<<<c.n[Largest(c)], Largest(c)>>>>
  BY <1>10 DEF Expected, Largest
<1>11. ASSUME c.op \in {"scatter", "scatter_list"} PROVE e = <<<<c.root, r + 1>>>>
  BY <1>11 DEF Expected
<1>12. ASSUME c.op = "scatter_n" PROVE e = SubSeq(Own(c.root, Size * c.n[r]), r * c.n[r] + 1, (r + 1) * c.n[r])
  BY <1>12 DEF Expected
<1>13. ASSUME c.op \in {"scatterv", "scatterv_n_from"}
       PROVE  e = SubSeq(Own(c.root, Sums(Sizes(c))[r] + c.n[r]), Sums(Sizes(c))[r] + 1, Sums(Sizes(c))[r] + c.n[r])
  BY <1>13 DEF Expected
<1>14. ASSUME c.op \in {"gather", "igather", "gather_value", "gather_package", "gatherv"}
       PROVE  e = IF r = c.root THEN InRankOrder(OwnOf(c)) ELSE <<>>
  BY <1>14 DEF Expected, OwnOf
<1>15. ASSUME c.op = "gatherv_told" PROVE e = IF r = 0 THEN InRankOrder(OwnOf(c)) ELSE <<>>
  BY <1>15 DEF Expected, OwnOf
<1>16. ASSUME c.op \in {"all_gather", "iall_gather", "all_gather_value", "all_gather_package", "all_gatherv",
                        "all_gatherv_output"}
       PROVE  e = InRankOrder(OwnOf(c))
  BY <1>16 DEF Expected, OwnOf
<1>17. ASSUME c.op \in {"all_to_all_n", "all_to_all_in_place"} PROVE e = InRankOrder(ColumnsOf(c, r))
  BY <1>17 DEF Expected, ColumnsOf
<1> QED BY Zenon, <1>1, <1>2, <1>3, <1>4, <1>5, <1>6, <1>7, <1>8, <1>9, <1>10, <1>11, <1>12, <1>13, <1>14, <1>15, <1>16, <1>17, <1>20

LEMMA OwnArrays ==
    ASSUME NEW c, Callable(c)
    PROVE  Arrays(OwnOf(c), c.n, Pairs) /\ \A q \in Ranks : OwnOf(c)[q] = Own(q, c.n[q])
<1>4. \A q \in Ranks : OwnOf(c)[q] = Own(q, c.n[q])
  BY DEF OwnOf
<1>1. ASSUME NEW q \in Ranks PROVE OwnOf(c)[q] \in Seq(Pairs) /\ Len(OwnOf(c)[q]) = c.n[q]
  <2>1. q \in Nat /\ c.n[q] \in Nat /\ OwnOf(c)[q] = Own(q, c.n[q])
    BY <1>4, RanksAre, CallableIs
  <2> QED BY <2>1, OwnIs
<1>2. OwnOf(c) = [q \in Ranks |-> OwnOf(c)[q]]
  BY DEF OwnOf
<1>3. OwnOf(c) \in [Ranks -> Seq(Pairs)]
  BY <1>1, <1>2
<1>5. Arrays(OwnOf(c), c.n, Pairs)
  BY <1>1, <1>3, CallableIs DEF Arrays
<1> QED BY <1>4, <1>5

\* Calls with one number of values for all ranks.
LEMMA OneNumber ==
    ASSUME NEW c, Callable(c), c.op \in OfOneValue \cup OfEqualNumbers, NEW r \in Ranks, NEW n, n = c.n[r]
    PROVE  /\ n \in Nat /\ \A q \in Ranks : c.n[q] = n
           /\ c.op \in OfOneValue => n = 1
           /\ Total(Listed(c.n)) = Size * n /\ Size * n \in Nat
           /\ \A p \in Ranks : Steps(n)[p + 1] = Sums(Listed(c.n))[p]
<1>1. n \in Nat /\ \A q \in Ranks : c.n[q] = n
  BY CallableIs DEF Callable
<1>2. c.op \in OfOneValue => n = 1
  BY DEF Callable
<1>3. PICK told : told = [q \in Ranks |-> n]
  OBVIOUS
<1>4. c.n = told
  <2>1. c.n = [q \in Ranks |-> c.n[q]]
    BY CallableIs
  <2> QED BY <1>1, <1>3, <2>1
<1>5. Total(Listed(c.n)) = Size * n /\ \A q \in Ranks : Sums(Listed(c.n))[q] = q * n
  BY <1>1, <1>3, <1>4, EqualSums
<1>6. ASSUME NEW p \in Ranks PROVE Steps(n)[p + 1] = p * n
  <2>1. p + 1 \in 1 .. Size /\ (p + 1) - 1 = p
    BY RanksAre
  <2> QED BY <2>1 DEF Steps
<1>7. Size * n \in Nat
  BY <1>1, EqualParts
<1> QED BY <1>1, <1>2, <1>5, <1>6, <1>7

LEMMA GatheredInOne ==
    ASSUME NEW c, Callable(c), NEW r \in Ranks, c.op \in {"gather", "igather", "gather_value", "gatherv"}
    PROVE  Brought(c, r, 1) = Expected(c, r)
<1>0. PICK arrays : arrays = OwnOf(c)
  OBVIOUS
<1>1. arrays = OwnOf(c) /\ Arrays(arrays, c.n, Pairs) /\ \A q \in Ranks : arrays[q] = Own(q, c.n[q])
  BY <1>0, OwnArrays
<1>2. PICK kind : kind = IF c.op = "igather" THEN "igather" ELSE IF c.op = "gatherv" THEN "gatherv" ELSE "gather"
  OBVIOUS
<1>3. kind \notin Reductions
  BY <1>2 DEF Reductions
<1>4. PICK N \in Nat : N = Total(Listed(c.n))
  BY CallableIs, NumbersAre
<1>5. ASSUME NEW q \in Ranks
      PROVE  \E counts, displs :
                 /\ Collective(c, q, 1) = Gather(kind, q, c.root, arrays[q], counts, displs, Blanks(AtRoot(c, q, N)))
                 /\ \A p \in Ranks : displs[p + 1] = Sums(Listed(c.n))[p]
  <2>1. PICK n : n = c.n[q]
    OBVIOUS
  <2>2. CASE c.op \in {"gather", "igather"}
    <3>1. Collective(c, q, 1) = Gather(kind, q, c.root, Own(q, n), Each(n), Steps(n), Blanks(AtRoot(c, q, Size * n)))
      BY <1>2, <2>1, <2>2, FormsOfOne
    <3>2. Total(Listed(c.n)) = Size * n /\ \A p \in Ranks : Steps(n)[p + 1] = Sums(Listed(c.n))[p]
      BY <2>1, <2>2, OneNumber DEF OfEqualNumbers
    <3> QED BY <1>1, <1>4, <2>1, <3>1, <3>2
  <2>3. CASE c.op = "gather_value"
    <3>1. n = 1 /\ Total(Listed(c.n)) = Size * n /\ \A p \in Ranks : Steps(n)[p + 1] = Sums(Listed(c.n))[p]
      BY <2>1, <2>3, OneNumber DEF OfOneValue
    <3>2. Size * n = Size
      BY <3>1, RanksAre
    <3>3. Collective(c, q, 1) = Gather(kind, q, c.root, Own(q, 1), Ones, Steps(1), Blanks(AtRoot(c, q, Size)))
      BY <1>2, <2>3, FormsOfOne
    <3>4. N = Size /\ arrays[q] = Own(q, 1)
      BY <1>1, <1>4, <2>1, <3>1, <3>2
    <3>5. \A p \in Ranks : Steps(1)[p + 1] = Sums(Listed(c.n))[p]
      BY <3>1
    <3> QED BY <3>3, <3>4, <3>5
  <2>4. CASE c.op = "gatherv"
    <3>1. Collective(c, q, 1)
          = Gather(kind, q, c.root, Own(q, n), Sizes(c), PartialSums(Sizes(c), Size), Blanks(AtRoot(c, q, Total(Sizes(c)))))
      BY <1>2, <2>1, <2>4, FormsOfOne
    <3>2. Sizes(c) = Listed(c.n)
      BY SizesAre
    <3>3. \A p \in Ranks : PartialSums(Listed(c.n), Size)[p + 1] = Sums(Listed(c.n))[p]
      BY CallableIs, NumbersAre
    <3> QED BY <1>1, <1>4, <2>1, <3>1, <3>2, <3>3
  <2> QED BY <2>2, <2>3, <2>4
<1>6. CASE r = c.root
  <2>1. Gathers(c, 1, kind, r, arrays, c.n)
    <3>1. ASSUME NEW q \in Ranks
          PROVE  \E counts, displs, into :
                     /\ Collective(c, q, 1) = Gather(kind, q, r, arrays[q], counts, displs, into)
                     /\ q = r => /\ DOMAIN into = 1 .. Total(Listed(c.n))
                                 /\ \A p \in Ranks : displs[p + 1] = Sums(Listed(c.n))[p]
      <4>1. PICK counts, displs :
                 /\ Collective(c, q, 1) = Gather(kind, q, c.root, arrays[q], counts, displs, Blanks(AtRoot(c, q, N)))
                 /\ \A p \in Ranks : displs[p + 1] = Sums(Listed(c.n))[p]
        BY <1>5
      <4>2. q = r => DOMAIN Blanks(AtRoot(c, q, N)) = 1 .. N
        BY <1>6 DEF Blanks, AtRoot
      <4> QED BY <1>4, <1>6, <4>1, <4>2
    <3> QED BY Zenon, <3>1 DEF Gathers
  <2>2. Brought(c, r, 1) = InRankOrder(arrays)
    BY <1>1, <1>3, <2>1, GatherBrings
  <2> QED BY <1>1, <1>6, <2>2, ExpectedIs
<1>7. CASE r # c.root
  <2>1. PICK counts, displs :
             Collective(c, r, 1) = Gather(kind, r, c.root, arrays[r], counts, displs, Blanks(AtRoot(c, r, N)))
    BY <1>5
  <2>2. AtRoot(c, r, N) = 0
    BY <1>7 DEF AtRoot
  <2>3. Brought(c, r, 1) = <<>>
    BY <1>3, <1>7, <2>1, <2>2, GatherElsewhere
  <2> QED BY <1>7, <2>3, ExpectedIs
<1> QED BY <1>6, <1>7

LEMMA AllGatheredInOne ==
    ASSUME NEW c, Callable(c), NEW r \in Ranks, c.op \in {"all_gather", "iall_gather", "all_gather_value"}
    PROVE  Brought(c, r, 1) = Expected(c, r)
<1>0. PICK arrays : arrays = OwnOf(c)
  OBVIOUS
<1>1. arrays = OwnOf(c) /\ Arrays(arrays, c.n, Pairs) /\ \A q \in Ranks : arrays[q] = Own(q, c.n[q])
  BY <1>0, OwnArrays
<1>2. PICK kind : kind = IF c.op = "iall_gather" THEN "iallgather" ELSE "allgather"
  OBVIOUS
<1>3. kind \notin Reductions
  BY <1>2 DEF Reductions
<1>4. PICK N \in Nat : N = Total(Listed(c.n))
  BY CallableIs, NumbersAre
<1>5. ASSUME NEW q \in Ranks
      PROVE  \E counts, displs, into :
                 /\ Collective(c, q, 1) = AllGather(kind, arrays[q], counts, displs, into)
                 /\ DOMAIN into = 1 .. Total(Listed(c.n))
                 /\ \A p \in Ranks : displs[p + 1] = Sums(Listed(c.n))[p]
  <2>1. PICK n : n = c.n[q]
    OBVIOUS
  <2>2. n \in Nat /\ Total(Listed(c.n)) = Size * n /\ \A p \in Ranks : Steps(n)[p + 1] = Sums(Listed(c.n))[p]
    BY <2>1, OneNumber DEF OfEqualNumbers, OfOneValue
  <2>3. DOMAIN Blanks(N) = 1 .. N
    BY ArraysAre
  <2>4. CASE c.op \in {"all_gather", "iall_gather"}
    <3>1. Collective(c, q, 1) = AllGather(kind, Own(q, n), Each(n), Steps(n), Blanks(Size * n))
      BY <1>2, <2>1, <2>4, FormsOfOne
    <3> QED BY <1>1, <1>4, <2>1, <2>2, <2>3, <3>1
  <2>5. CASE c.op = "all_gather_value"
    <3>1. n = 1
      BY <2>1, <2>5, OneNumber DEF OfOneValue
    <3>2. Size * n = Size
      BY <3>1, RanksAre
    <3>3. Collective(c, q, 1) = AllGather(kind, Own(q, 1), Ones, Steps(1), Blanks(Size))
      BY <1>2, <2>5, FormsOfOne
    <3>4. Collective(c, q, 1) = AllGather(kind, arrays[q], Ones, Steps(1), Blanks(Size))
      BY <1>1, <2>1, <3>1, <3>3
    <3>5. DOMAIN Blanks(Size) = 1 .. Total(Listed(c.n))
      BY <1>4, <2>2, <2>3, <3>2
    <3>6. \A p \in Ranks : Steps(1)[p + 1] = Sums(Listed(c.n))[p]
      BY <2>2, <3>1
    <3> QED BY Zenon, <3>4, <3>5, <3>6
  <2> QED BY <2>4, <2>5
<1>6. AllGathers(c, 1, kind, arrays, c.n)
  BY Zenon, <1>5 DEF AllGathers
<1>7. Brought(c, r, 1) = InRankOrder(arrays)
  BY <1>1, <1>3, <1>6, AllGatherBrings
<1> QED BY <1>1, <1>7, ExpectedIs

LEMMA ExchangedInOne ==
    ASSUME NEW c, Callable(c), NEW r \in Ranks, c.op \in {"all_to_all_n", "all_to_all_in_place"}
    PROVE  Brought(c, r, 1) = Expected(c, r) /\ Len(Expected(c, r)) = Size * c.n[r]
<1>1. PICK n \in Nat : n = c.n[r] /\ (\A q \in Ranks : c.n[q] = n) /\ Size * n \in Nat
  BY OneNumber DEF OfEqualNumbers
<1>2. ASSUME NEW q \in Ranks
      PROVE  \E into : Collective(c, q, 1) = Alltoall(Own(q, Size * n), n, into) /\ DOMAIN into = 1 .. Size * n
  <2>1. DOMAIN Own(q, Size * n) = 1 .. Size * n /\ DOMAIN Blanks(Size * n) = 1 .. Size * n
    BY <1>1, ArraysAre
  <2> QED BY <1>1, <2>1, FormsOfOne
<1>3. Alltoalls(c, 1, n)
  BY <1>2 DEF Alltoalls
<1>4. PICK arrays : arrays = [q \in Ranks |-> SubSeq(Own(q, Size * n), r * n + 1, (r + 1) * n)]
  OBVIOUS
<1>5. arrays = ColumnsOf(c, r)
  BY <1>1, <1>4 DEF ColumnsOf
<1>8. PICK told : told = [q \in Ranks |-> n]
  OBVIOUS
<1>6. Brought(c, r, 1) = InRankOrder(arrays) /\ Arrays(arrays, told, Pairs)
  <2>1. /\ arrays = [q \in Ranks |-> arrays[q]]
        /\ \A q \in Ranks : arrays[q] = SubSeq(Own(q, Size * n), r * n + 1, (r + 1) * n)
    BY <1>4
  <2> QED BY <1>3, <1>8, <2>1, AlltoallBrings
<1>7. Len(InRankOrder(arrays)) = Size * n
  <2>2. Total(Listed(told)) = Size * n
    BY <1>8, EqualSums
  <2> QED BY <1>6, <2>2, InRankOrderIs
<1> QED BY <1>1, <1>5, <1>6, <1>7, ExpectedIs

LEMMA NothingInOne ==
    ASSUME NEW c, Callable(c), NEW r \in Ranks, c.op = "barrier"
    PROVE  Brought(c, r, 1) = Expected(c, r)
<1>1. PICK mine : mine = Collective(c, r, 1)
  OBVIOUS
<1>2. PICK gave : Brought(c, r, 1) = Delivered(mine, gave)
  BY <1>1, BroughtIs
<1>3. mine = Barrier
  BY <1>1, FormsOfOne
<1>4. mine.into = <<>> /\ mine.kind \notin Reductions
  BY <1>3 DEF Barrier, Operation, Reductions
<1>5. PICK got : got = Delivered(mine, gave)
  OBVIOUS
<1>6. DOMAIN got = DOMAIN mine.into /\ got = [i \in DOMAIN got |-> got[i]]
  BY <1>4, <1>5, DeliveredDomain
<1>7. DOMAIN got = {}
  BY <1>4, <1>6
<1>8. got = <<>>
  BY <1>6, <1>7
<1> QED BY <1>2, <1>5, <1>8, ExpectedIs

LEMMA OwnFunction ==
    ASSUME NEW r, NEW n \in Nat
    PROVE  Own(r, n) = [i \in 1 .. n |-> Own(r, n)[i]]
BY DEF Own

LEMMA BroadcastInOne ==
    ASSUME NEW c, Callable(c), NEW r \in Ranks, c.op \in {"broadcast", "ibroadcast"}
    PROVE  Brought(c, r, 1) = Expected(c, r) /\ Len(Expected(c, r)) = c.n[r]
<1>1. PICK n \in Nat : n = c.n[r] /\ \A q \in Ranks : c.n[q] = n
  BY OneNumber DEF OfEqualNumbers
<1>2. c.root \in Ranks
  BY CallableIs
<1>3. PICK a : a = Own(c.root, n)
  OBVIOUS
<1>4. a = OwnOf(c)[c.root] /\ Len(a) = n /\ DOMAIN a = 1 .. n /\ a = [i \in 1 .. n |-> a[i]]
  <2>1. a = OwnOf(c)[c.root]
    BY <1>1, <1>2, <1>3, OwnArrays
  <2>2. Len(a) = n /\ DOMAIN a = 1 .. n
    BY <1>3, ArraysAre
  <2>3. a = [i \in 1 .. n |-> a[i]]
    BY <1>3, OwnFunction
  <2> QED BY <2>1, <2>2, <2>3
<1>5. PICK kind : kind = IF c.op = "broadcast" THEN "bcast" ELSE "ibcast"
  OBVIOUS
<1>6. kind \notin Reductions
  BY <1>5 DEF Reductions
<1>7. ASSUME NEW q \in Ranks
      PROVE  \E b : Collective(c, q, 1) = Bcast(kind, q, c.root, b, n) /\ DOMAIN b = 1 .. n /\ (q = c.root => b = a)
  <2>1. PICK b : b = Own(q, n)
    OBVIOUS
  <2>2. Collective(c, q, 1) = Bcast(kind, q, c.root, b, n)
    BY <1>1, <1>5, <2>1, FormsOfOne
  <2>3. DOMAIN b = 1 .. n /\ (q = c.root => b = a)
    BY <1>3, <2>1, ArraysAre
  <2> QED BY <2>2, <2>3
<1>8. Broadcasts(c, 1, kind, a, n)
  BY Zenon, <1>7 DEF Broadcasts
<1>9. Brought(c, r, 1) = a
  BY <1>2, <1>4, <1>6, <1>8, BcastBrings
<1> QED BY <1>1, <1>4, <1>9, ExpectedIs

LEMMA ReducedInOne ==
    ASSUME NEW c, Callable(c), NEW r \in Ranks, c.op \in {"reduce", "reduce_in_place", "reduce_value"}
    PROVE  /\ c.op # "reduce_in_place" \/ r = c.root => Brought(c, r, 1) = Expected(c, r)
           /\ c.op = "reduce_in_place" /\ r # c.root => Expected(c, r) = Own(r, c.n[r])
<1>1. PICK n \in Nat : n = c.n[r] /\ (\A q \in Ranks : c.n[q] = n) /\ (c.op = "reduce_value" => n = 1)
  BY OneNumber DEF OfEqualNumbers, OfOneValue
<1>2. c.root \in Ranks
  BY CallableIs
<1>3. ASSUME NEW q \in Ranks
      PROVE  \E into : /\ Collective(c, q, 1) = Reduce(q, c.root, Own(q, n), into)
                       /\ q = c.root => DOMAIN into = 1 .. n
                       /\ c.op # "reduce_in_place" => into = Blanks(n)
  <2>1. DOMAIN Own(q, n) = 1 .. n /\ DOMAIN Blanks(n) = 1 .. n
    BY ArraysAre
  <2>2. CASE c.op = "reduce_in_place"
    BY <1>1, <2>1, <2>2, FormsOfOne
  <2>3. CASE c.op = "reduce"
    <3>1. Collective(c, q, 1) = Reduce(q, c.root, Own(q, n), Blanks(n))
      BY <1>1, <2>3, FormsOfOne
    <3> QED BY <2>1, <3>1
  <2>4. CASE c.op = "reduce_value"
    <3>1. Collective(c, q, 1) = Reduce(q, c.root, Own(q, n), Blanks(n))
      BY <1>1, <2>4, FormsOfOne
    <3> QED BY <2>1, <3>1
  <2> QED BY <2>2, <2>3, <2>4
<1>8. Reduces(c, 1, c.root, n)
  <2>1. ASSUME NEW q \in Ranks
        PROVE  \E into : Collective(c, q, 1) = Reduce(q, c.root, Own(q, n), into) /\ (q = c.root => DOMAIN into = 1 .. n)
    BY <1>3
  <2> QED BY Zenon, <2>1 DEF Reduces
<1>9. PICK root \in Ranks : root = c.root
  BY <1>2
<1>10. Reduces(c, 1, root, n)
  BY <1>8, <1>9
<1>4. /\ r = c.root => Brought(c, r, 1) = SumOf(n)
      /\ r # c.root => Brought(c, r, 1) = Collective(c, r, 1).into
  BY <1>9, <1>10, ReduceBrings
<1>5. c.op # "reduce_in_place" => Collective(c, r, 1).into = Blanks(n)
  BY <1>3, ReduceIs
<1>6. ASSUME c.op # "reduce_in_place" \/ r = c.root PROVE Brought(c, r, 1) = Expected(c, r)
  <2>1. CASE r = c.root
    BY <1>1, <1>4, <2>1, ExpectedIs
  <2>2. CASE r # c.root
    BY <1>1, <1>4, <1>5, <1>6, <2>2, ExpectedIs
  <2> QED BY <2>1, <2>2
<1>7. ASSUME c.op = "reduce_in_place", r # c.root PROVE Expected(c, r) = Own(r, c.n[r])
  <2>1. Expected(c, r) = OwnOf(c)[r]
    BY <1>7, ExpectedIs
  <2> QED BY <2>1, OwnArrays
<1> QED BY <1>6, <1>7

LEMMA SummedInOne ==
    ASSUME NEW c, Callable(c), NEW r \in Ranks, c.op \in {"all_reduce", "all_reduce_in_place", "all_reduce_value"}
    PROVE  Brought(c, r, 1) = Expected(c, r)
<1>1. PICK n \in Nat : n = c.n[r] /\ (\A q \in Ranks : c.n[q] = n) /\ (c.op = "all_reduce_value" => n = 1)
  BY OneNumber DEF OfEqualNumbers, OfOneValue
<1>2. PICK arrays : arrays = OwnOf(c)
  OBVIOUS
<1>3. \A q \in Ranks : arrays[q] = Own(q, n)
  BY <1>1, <1>2, OwnArrays
<1>4. PICK kind : kind = "allreduce" /\ kind \in Reductions
  BY DEF Reductions
<1>5. ASSUME NEW q \in Ranks
      PROVE  \E into : Collective(c, q, 1) = Allreduce(kind, arrays[q], into) /\ DOMAIN into = 1 .. n
  <2>1. DOMAIN Own(q, n) = 1 .. n /\ DOMAIN Blanks(n) = 1 .. n
    BY ArraysAre
  <2>2. CASE c.op = "all_reduce_in_place"
    BY <1>1, <1>3, <1>4, <2>1, <2>2, FormsOfOne
  <2>3. CASE c.op = "all_reduce"
    BY <1>1, <1>3, <1>4, <2>1, <2>3, FormsOfOne
  <2>4. CASE c.op = "all_reduce_value"
    BY <1>1, <1>3, <1>4, <2>1, <2>4, FormsOfOne
  <2> QED BY <2>2, <2>3, <2>4
<1>6. PICK gave : /\ DOMAIN gave = Ranks /\ \A q \in Ranks : gave[q] = arrays[q]
                  /\ Brought(c, r, 1) = Reduced(kind, gave, n)
  <2>1. Allreduces(c, 1, kind, arrays, n)
    BY Zenon, <1>5 DEF Allreduces
  <2> QED BY <1>4, <2>1, AllreduceBrings
<1>7. Reduced(kind, gave, n) = SumOf(n)
  BY <1>3, <1>4, <1>6, SumIs
<1>8. Expected(c, r) = SumOf(n)
  BY <1>1, ExpectedIs
<1> QED BY Zenon, <1>6, <1>7, <1>8

\* The calls that reduce one element of every rank to one.
LEMMA OneReduced ==
    ASSUME NEW c, NEW r \in Ranks, NEW kind, kind \in Reductions, NEW arrays,
           \A q \in Ranks : /\ arrays[q] = <<arrays[q][1]>>
                            /\ Collective(c, q, 1) = Allreduce(kind, arrays[q], Blanks(1))
    PROVE  Brought(c, r, 1) = <<Combined(kind, {arrays[q][1] : q \in Ranks})>>
<1>1. DOMAIN Blanks(1) = 1 .. 1
  BY DEF Blanks
<1>2. ASSUME NEW q \in Ranks
      PROVE  \E into : Collective(c, q, 1) = Allreduce(kind, arrays[q], into) /\ DOMAIN into = 1 .. 1
  BY <1>1
<1>5. PICK n : n = 1
  OBVIOUS
<1>6. Allreduces(c, 1, kind, arrays, n)
  BY Zenon, <1>2, <1>5 DEF Allreduces
<1>3. PICK gave : /\ DOMAIN gave = Ranks /\ \A q \in Ranks : gave[q] = arrays[q]
                  /\ Brought(c, r, 1) = Reduced(kind, gave, 1)
  BY <1>5, <1>6, AllreduceBrings
<1>4. Reduced(kind, gave, 1) = <<Combined(kind, {arrays[q][1] : q \in Ranks})>>
  BY <1>3, ReducedOne
<1> QED BY <1>3, <1>4

LEMMA ExtremaInOne ==
    ASSUME NEW c, Callable(c), NEW r \in Ranks, c.op \in {"max", "min", "and", "or"}
    PROVE  Brought(c, r, 1) = Expected(c, r)
<1>1. PICK told : told = IF c.op \in {"max", "min"} THEN c.n ELSE [q \in Ranks |-> IF c.n[q] > 0 THEN 1 ELSE 0]
  OBVIOUS
<1>2. told \in [Ranks -> Nat]
  <2>1. [q \in Ranks |-> IF c.n[q] > 0 THEN 1 ELSE 0] \in [Ranks -> Nat]
    OBVIOUS
  <2> QED BY <1>1, <2>1, CallableIs
<1>3. PICK arrays : arrays = [q \in Ranks |-> <<<<told[q]>>>>]
  OBVIOUS
<1>4. \A q \in Ranks : arrays[q] = <<<<told[q]>>>> /\ arrays[q][1] = <<told[q]>>
  BY <1>3
<1>5. PICK kind : kind = c.op /\ kind \in Reductions
  BY DEF Reductions
<1>6. ASSUME NEW q \in Ranks PROVE Collective(c, q, 1) = Allreduce(kind, arrays[q], Blanks(1))
  <2>1. CASE c.op \in {"max", "min"}
    BY <1>1, <1>4, <1>5, <2>1, FormsOfOne
  <2>2. CASE c.op \in {"and", "or"}
    <3>1. told[q] = IF c.n[q] > 0 THEN 1 ELSE 0
      BY <1>1, <2>2
    <3>2. Collective(c, q, 1) = Allreduce(c.op, <<<<IF c.n[q] > 0 THEN 1 ELSE 0>>>>, Blanks(1))
      BY <2>2, FormsOfOne
    <3> QED BY <1>4, <1>5, <3>1, <3>2
  <2> QED BY <2>1, <2>2
<1>7. PICK x : x = Combined(kind, {<<told[q]>> : q \in Ranks})
  OBVIOUS
<1>8. Brought(c, r, 1) = <<x>>
  <2>1. Brought(c, r, 1) = <<Combined(kind, {arrays[q][1] : q \in Ranks})>>
    <3>1. \A q \in Ranks : arrays[q] = <<arrays[q][1]>>
      BY <1>4
    <3> QED BY <1>5, <1>6, <3>1, OneReduced
  <2>2. {arrays[q][1] : q \in Ranks} = {<<told[q]>> : q \in Ranks}
    BY <1>4
  <2> QED BY <1>7, <2>1, <2>2
<1>9. CASE c.op = "max"
  <2>1. PICK q \in Ranks : x = <<c.n[q]>> /\ \A p \in Ranks : c.n[p] <= c.n[q]
    BY <1>1, <1>2, <1>5, <1>7, <1>9, ExtremaAre
  <2>2. PICK all : all = {c.n[p] : p \in Ranks}
    OBVIOUS
  <2>3. c.n[q] \in all /\ (\A y \in all : c.n[q] >= y) /\ all \subseteq Nat
    BY <2>1, <2>2, CallableIs
  <2>4. Max(all) \in all /\ \A y \in all : Max(all) >= y
    BY <2>3 DEF Max
  <2>5. Max(all) = c.n[q]
    <3>1. Max(all) \in Nat /\ c.n[q] \in Nat /\ Max(all) >= c.n[q] /\ c.n[q] >= Max(all)
      BY <2>3, <2>4
    <3> QED BY <3>1
  <2> QED BY <1>8, <1>9, <2>1, <2>2, <2>5, ExpectedIs
<1>10. CASE c.op = "min"
  <2>1. PICK q \in Ranks : x = <<c.n[q]>> /\ \A p \in Ranks : c.n[q] <= c.n[p]
    BY <1>1, <1>2, <1>5, <1>7, <1>10, ExtremaAre
  <2>2. PICK all : all = {c.n[p] : p \in Ranks}
    OBVIOUS
  <2>3. c.n[q] \in all /\ (\A y \in all : c.n[q] <= y) /\ all \subseteq Nat
    BY <2>1, <2>2, CallableIs
  <2>4. Min(all) \in all /\ \A y \in all : Min(all) <= y
    BY <2>3 DEF Min
  <2>5. Min(all) = c.n[q]
    <3>1. Min(all) \in Nat /\ c.n[q] \in Nat /\ Min(all) <= c.n[q] /\ c.n[q] <= Min(all)
      BY <2>3, <2>4
    <3> QED BY <3>1
  <2> QED BY <1>8, <1>10, <2>1, <2>2, <2>5, ExpectedIs
<1>11. ASSUME c.op \in {"and", "or"} PROVE \A q \in Ranks : told[q] = IF c.n[q] > 0 THEN 1 ELSE 0
  BY <1>1, <1>11
<1>12. CASE c.op = "and"
  <2>1. PICK q \in Ranks : x = <<told[q]>> /\ \A p \in Ranks : told[q] <= told[p]
    BY <1>2, <1>5, <1>7, <1>12, ExtremaAre
  <2>2. told[q] = IF \A p \in Ranks : c.n[p] > 0 THEN 1 ELSE 0
    BY <1>11, <1>12, <2>1
  <2> QED BY <1>8, <1>12, <2>1, <2>2, ExpectedIs
<1>13. CASE c.op = "or"
  <2>1. PICK q \in Ranks : x = <<told[q]>> /\ \A p \in Ranks : told[p] <= told[q]
    BY <1>2, <1>5, <1>7, <1>13, ExtremaAre
  <2>2. told[q] = IF \E p \in Ranks : c.n[p] > 0 THEN 1 ELSE 0
    BY <1>11, <1>13, <2>1
  <2> QED BY <1>8, <1>13, <2>1, <2>2, ExpectedIs
<1> QED BY <1>9, <1>10, <1>12, <1>13

LEMMA LargestInOne ==
    ASSUME NEW c, Callable(c), NEW r \in Ranks, c.op \in {"max_element", "max_location", "max_location_other"}
    PROVE  Brought(c, r, 1) = Expected(c, r)
<1>1. PICK arrays : arrays = [q \in Ranks |-> <<<<c.n[q], q>>>>]
  OBVIOUS
<1>2. \A q \in Ranks : arrays[q] = <<<<c.n[q], q>>>> /\ arrays[q][1] = <<c.n[q], q>>
  BY <1>1
<1>3. PICK kind : kind = Located(c) /\ kind \in Reductions
  BY DEF Located, Reductions
<1>4. PICK x : x = Combined(kind, {<<c.n[q], q>> : q \in Ranks})
  OBVIOUS
<1>5. Brought(c, r, 1) = <<x>>
  <2>1. Brought(c, r, 1) = <<Combined(kind, {arrays[q][1] : q \in Ranks})>>
    <3>1. \A q \in Ranks : arrays[q] = <<arrays[q][1]>> /\ Collective(c, q, 1) = Allreduce(kind, arrays[q], Blanks(1))
      BY <1>2, <1>3, FormsOfOne
    <3> QED BY <1>3, <3>1, OneReduced
  <2>2. {arrays[q][1] : q \in Ranks} = {<<c.n[q], q>> : q \in Ranks}
    BY <1>2
  <2> QED BY <1>4, <2>1, <2>2
<1>6. PICK told \in [Ranks -> Nat] : told = c.n
  BY CallableIs
<1>7. Largest(c) = CHOOSE q \in Ranks : \A p \in Ranks : told[p] < told[q] \/ (told[p] = told[q] /\ q <= p)
  BY <1>6 DEF Largest
<1>8. CASE c.op \in {"max_element", "max_location"}
  <2>1. x = Combined("max_loc", {<<told[q], q>> : q \in Ranks})
    BY <1>3, <1>4, <1>6, <1>8 DEF Located
  <2>2. x = <<told[Largest(c)], Largest(c)>>
    BY <1>7, <2>1, MaxLocIs
  <2> QED BY <1>5, <1>6, <1>8, <2>2, ExpectedIs
<1>9. CASE c.op = "max_location_other"
  <2>1. x = Combined("max_by_value", {<<told[q], q>> : q \in Ranks})
    BY <1>3, <1>4, <1>6, <1>9 DEF Located
  <2>2. x = <<told[Largest(c)], {q \in Ranks : told[q] = told[Largest(c)]}>>
    BY <1>7, <2>1, MaxByValueIs
  <2>3. x = <<c.n[Largest(c)], AllLargest(c)>>
    BY <1>6, <2>2 DEF AllLargest
  <2> QED BY <1>5, <1>9, <2>3, ExpectedIs
<1> QED BY <1>8, <1>9

LEMMA ScatteredInOne ==
    ASSUME NEW c, Callable(c), NEW r \in Ranks, c.op \in {"scatter_n", "scatter", "scatter_list"}
    PROVE  Brought(c, r, 1) = Expected(c, r)
<1>1. c.root \in Ranks /\ c.root \in Nat /\ r \in Nat /\ r + 1 \in 1 .. Size /\ (r + 1) - 1 = r
  BY CallableIs, RanksAre
<1>2. PICK n : n = Taken(c, r)
  OBVIOUS
<1>3. n \in Nat /\ Taken(c, c.root) = n
  <2>1. CASE c.op = "scatter_n"
    <3>1. c.n[r] \in Nat /\ c.n[c.root] = c.n[r]
      BY <1>1, <2>1, OneNumber DEF OfEqualNumbers
    <3> QED BY <1>2, <2>1, <3>1 DEF Taken
  <2>2. CASE c.op # "scatter_n"
    BY <1>2, <2>2 DEF Taken
  <2> QED BY <2>1, <2>2
<1>4. PICK from \in Nat, N \in Nat : from = r * n /\ N = Size * n /\ from + n <= N
  BY <1>3, EqualParts
<1>5. PICK all : all = Own(c.root, N)
  OBVIOUS
<1>6. all \in Seq(Pairs) /\ Len(all) = N
  BY <1>1, <1>5, OwnIs
<1>7. Steps(n)[r + 1] = from /\ Each(n)[r + 1] = n
  BY <1>1, <1>4 DEF Steps, Each
<1>8. Collective(c, c.root, 1) = Scatter("scatter", c.root, c.root, all, Each(n), Steps(n), n, Blanks(n))
  BY <1>1, <1>3, <1>4, <1>5, FormOfScatter
<1>9. PICK a : Collective(c, r, 1) = Scatter("scatter", r, c.root, a, Each(n), Steps(n), n, Blanks(n))
  BY <1>2, FormOfScatter
<1>10. DOMAIN Blanks(n) = 1 .. n
  BY <1>3, ArraysAre
<1>15. PICK kind : kind = "scatter" /\ kind \notin Reductions
  BY DEF Reductions
<1>16. from + n <= Len(all)
  BY <1>4, <1>6
<1>11. Scatters(c, 1, kind, c.root, all, r, from, n)
  BY Zenon, <1>3, <1>4, <1>6, <1>7, <1>8, <1>9, <1>10, <1>15, <1>16 DEF Scatters
<1>12. Brought(c, r, 1) = SubSeq(all, from + 1, from + n)
  <2>1. PICK s : s = 1
    OBVIOUS
  <2>2. PICK root : root = c.root
    OBVIOUS
  <2>3. Scatters(c, s, kind, root, all, r, from, n)
    BY <1>11, <2>1, <2>2
  <2>4. Brought(c, r, s) = Slice(all, from, n)
    BY <2>3, ScatterBrings
  <2>5. Slice(all, from, n) = SubSeq(all, from + 1, from + n)
    <3>1. IsPart(Slice(all, from, n), all, from, n)
      BY <1>3, <1>6, <1>16, SliceIsPart
    <3> QED BY <3>1 DEF IsPart
  <2> QED BY <2>1, <2>4, <2>5
<1>13. CASE c.op = "scatter_n"
  <2>1. n = c.n[r]
    BY <1>2, <1>13 DEF Taken
  <2>2. (r + 1) * n = from + n
    BY <1>1, <1>3, <1>4, EqualParts
  <2>3. Expected(c, r) = SubSeq(Own(c.root, Size * c.n[r]), r * c.n[r] + 1, (r + 1) * c.n[r])
    BY <1>13, ExpectedIs
  <2>4. Expected(c, r) = SubSeq(Own(c.root, Size * n), r * n + 1, (r + 1) * n)
    BY <2>1, <2>3
  <2>5. Expected(c, r) = SubSeq(all, from + 1, from + n)
    BY <1>4, <1>5, <2>2, <2>4
  <2> QED BY <1>12, <2>5
<1>14. CASE c.op \in {"scatter", "scatter_list"}
  <2>1. n = 1 /\ from = r /\ N = Size
    BY <1>1, <1>2, <1>4, <1>14, RanksAre DEF Taken
  <2>2. PICK d : d = SubSeq(all, from + 1, from + n)
    OBVIOUS
  <2>3. d = Slice(all, from, n)
    <3>1. Slice(all, from, n) = SubSeq(all, from + 1, from + n)
      <4>1. IsPart(Slice(all, from, n), all, from, n)
        BY <1>3, <1>6, <1>16, SliceIsPart
      <4> QED BY <4>1 DEF IsPart
    <3> QED BY Zenon, <2>2, <3>1
  <2>4. r + 1 <= Len(all) /\ all[r + 1] = <<c.root, r + 1>>
    BY <1>1, <1>5, <1>6, <2>1, ArraysAre
  <2>5. d = [i \in 1 .. 1 |-> IF from + i <= Len(all) THEN all[from + i] ELSE Outside]
    BY <2>1, <2>3 DEF Slice
  <2>6. d[1] = <<c.root, r + 1>>
    BY <2>1, <2>4, <2>5
  <2>7. d = [i \in 1 .. 1 |-> d[i]]
    BY <2>5
  <2>8. d = <<d[1]>>
    BY <2>7
  <2>9. Expected(c, r) = <<<<c.root, r + 1>>>>
    BY <1>14, ExpectedIs
  <2> QED BY Zenon, <1>12, <2>2, <2>6, <2>8, <2>9
<1> QED BY <1>13, <1>14

\* The same elements of one rank, from an array with more after them.
LEMMA SameSlice ==
    ASSUME NEW r \in Nat, NEW N \in Nat, NEW from \in Nat, NEW n \in Nat, from + n <= N
    PROVE  Slice(Own(r, N), from, n) = Slice(Own(r, from + n), from, n)
<1>1. PICK M \in Nat : M = from + n /\ M <= N
  OBVIOUS
<1>2. ASSUME NEW m \in Nat, M <= m PROVE Slice(Own(r, m), from, n) = [i \in 1 .. n |-> <<r, from + i>>]
  <2>1. PICK a : a = Own(r, m)
    OBVIOUS
  <2>2. Len(a) = m /\ \A j \in 1 .. m : a[j] = <<r, j>>
    BY <2>1, ArraysAre
  <2>3. ASSUME NEW i \in 1 .. n PROVE (IF from + i <= Len(a) THEN a[from + i] ELSE Outside) = <<r, from + i>>
    <3>1. from + i \in 1 .. m
      BY <1>1, <1>2
    <3> QED BY <2>2, <3>1
  <2>4. Slice(a, from, n) = [i \in 1 .. n |-> <<r, from + i>>]
    BY <2>3 DEF Slice
  <2> QED BY <2>1, <2>4
<1>3. M <= M
  BY <1>1
<1> QED BY <1>1, <1>2, <1>3

LEMMA BroadcastInTwo ==
    ASSUME NEW c, Callable(c), NEW r \in Ranks, c.op = "broadcast_value"
    PROVE  Brought(c, r, 2) = Expected(c, r)
<1>1. PICK root \in Ranks, n \in Nat : root = c.root /\ n = c.n[root]
  BY CallableIs
<1>2. PICK a : a = Own(root, n)
  OBVIOUS
<1>3. Len(a) = n /\ DOMAIN a = 1 .. n /\ a = [i \in 1 .. n |-> a[i]]
  <2>1. Len(a) = n /\ DOMAIN a = 1 .. n
    BY <1>2, ArraysAre
  <2>2. a = [i \in 1 .. n |-> a[i]]
    BY <1>2, OwnFunction
  <2> QED BY <2>1, <2>2
<1>4. PICK kind : kind = "bcast" /\ kind \notin Reductions
  BY DEF Reductions
<1>5. ASSUME NEW q \in Ranks
      PROVE  \E b : Collective(c, q, 2) = Bcast(kind, q, c.root, b, n) /\ DOMAIN b = 1 .. n /\ (q = c.root => b = a)
  <2>1. PICK b : b = Resized(Own(q, c.n[q]), n)
    OBVIOUS
  <2>2. Collective(c, q, 2) = Bcast(kind, q, c.root, b, n)
    BY <1>1, <1>4, <2>1, FormsOfSecond
  <2>3. DOMAIN b = 1 .. n
    BY <2>1 DEF Resized
  <2>4. ASSUME q = c.root PROVE b = a
    <3>1. Own(q, c.n[q]) = a
      BY <1>1, <1>2, <2>4
    <3>2. b = [i \in 1 .. n |-> IF i <= Len(a) THEN a[i] ELSE Blank]
      BY <2>1, <3>1 DEF Resized
    <3>3. \A i \in 1 .. n : (IF i <= Len(a) THEN a[i] ELSE Blank) = a[i]
      BY <1>3
    <3> QED BY <1>3, <3>2, <3>3
  <2> QED BY <2>2, <2>3, <2>4
<1>6. PICK s : s = 2
  OBVIOUS
<1>7. Broadcasts(c, s, kind, a, n)
  BY Zenon, <1>5, <1>6 DEF Broadcasts
<1>8. Brought(c, r, s) = a
  BY <1>1, <1>3, <1>4, <1>7, BcastBrings
<1>9. Expected(c, r) = OwnOf(c)[c.root]
  BY ExpectedIs
<1>10. OwnOf(c)[c.root] = a
  BY <1>1, <1>2, OwnArrays
<1> QED BY <1>6, <1>8, <1>9, <1>10

LEMMA ScatteredInTwo ==
    ASSUME NEW c, Callable(c), NEW r \in Ranks, c.op \in {"scatterv", "scatterv_n_from"}
    PROVE  Brought(c, r, 2) = Expected(c, r) /\ Len(Expected(c, r)) = c.n[r]
<1>1. PICK root \in Ranks : root = c.root /\ root \in Nat
  BY CallableIs
<1>2. PICK counts : counts = Listed(c.n)
  OBVIOUS
<1>3. PICK n \in Nat, from \in Nat, N \in Nat :
          n = c.n[r] /\ from = Sums(counts)[r] /\ N = Total(counts) /\ Sums(counts)[r + 1] = from + n
          /\ Sums(counts)[r + 1] <= N
  BY <1>2, CallableIs, NumbersAre
<1>4. from + n <= N
  BY <1>3
<1>5. PICK all : all = Own(root, N)
  OBVIOUS
<1>6. all \in Seq(Pairs) /\ Len(all) = N
  BY <1>1, <1>5, OwnIs
<1>7. PICK kind : kind = "scatterv" /\ kind \notin Reductions
  BY DEF Reductions
<1>8. PICK displs : displs = PartialSums(counts, Size)
  OBVIOUS
<1>9. displs[r + 1] = from /\ counts[r + 1] = n
  <2>1. PartialSums(Listed(c.n), Size)[r + 1] = Sums(Listed(c.n))[r]
    BY CallableIs, NumbersAre
  <2>2. Listed(c.n)[r + 1] = c.n[r]
    BY CallableIs, ListedIs
  <2> QED BY <1>2, <1>3, <1>8, <2>1, <2>2
<1>10. Told(c) = c.n
  BY ToldIs DEF Packed
<1>11. \E k, into : Collective(c, root, 2) = Scatter(kind, root, root, all, counts, displs, k, into)
  <2>1. CASE c.op = "scatterv"
    <3>0. root = 0
      BY <1>1, <2>1 DEF Callable
    <3>1. PICK cs : /\ cs = Listed(c.n)
                    /\ Collective(c, root, 2) = Scatter("scatterv", root, 0, Own(root, Total(cs)), cs, PartialSums(cs, Size),
                                                        c.n[root], Blanks(c.n[root]))
      BY <2>1, <3>0, FormsOfSecond
    <3> QED BY <1>2, <1>3, <1>5, <1>7, <1>8, <3>0, <3>1
  <2>2. CASE c.op = "scatterv_n_from"
    <3>1. PICK cs, ds : /\ cs = Listed(Told(c)) /\ ds = PartialSums(Listed(Told(c)), Size)
                        /\ Collective(c, root, 2) = Scatter("scatterv", root, c.root, Own(root, Total(cs)), cs, ds,
                                                            c.n[root], Blanks(c.n[root]))
      BY <1>1, <2>2, FormsOfSecond
    <3> QED BY <1>1, <1>2, <1>3, <1>5, <1>7, <1>8, <1>10, <3>1
  <2> QED BY <2>1, <2>2
<1>12. \E a, cs, ds : Collective(c, r, 2) = Scatter(kind, r, root, a, cs, ds, n, Blanks(n))
  <2>1. CASE c.op = "scatterv"
    <3>0. root = 0
      BY <1>1, <2>1 DEF Callable
    <3>1. PICK cs : Collective(c, r, 2) = Scatter("scatterv", r, 0, Own(r, Total(cs)), cs, PartialSums(cs, Size),
                                                  c.n[r], Blanks(c.n[r]))
      BY <2>1, FormsOfSecond
    <3> QED BY <1>3, <1>7, <3>0, <3>1
  <2>2. CASE c.op = "scatterv_n_from"
    <3>1. PICK cs, ds : Collective(c, r, 2) = Scatter("scatterv", r, c.root, Own(r, Total(cs)), cs, ds,
                                                      c.n[r], Blanks(c.n[r]))
      BY <2>2, FormsOfSecond
    <3> QED BY <1>1, <1>3, <1>7, <3>1
  <2> QED BY <2>1, <2>2
<1>13. DOMAIN Blanks(n) = 1 .. n
  BY ArraysAre
<1>14. from + n <= Len(all)
  BY <1>4, <1>6
<1>15. Scatters(c, 2, kind, root, all, r, from, n)
  BY Zenon, <1>3, <1>6, <1>7, <1>9, <1>11, <1>12, <1>13, <1>14 DEF Scatters
<1>16. Brought(c, r, 2) = Slice(all, from, n)
  <2>1. PICK s : s = 2
    OBVIOUS
  <2>2. Scatters(c, s, kind, root, all, r, from, n)
    BY <1>15, <2>1
  <2>3. Brought(c, r, s) = Slice(all, from, n)
    BY <2>2, ScatterBrings
  <2> QED BY <2>1, <2>3
<1>22. PICK M \in Nat : M = from + n
  OBVIOUS
<1>17. PICK part : M = from + n /\ part = Own(root, M)
  BY <1>22
<1>18. Slice(all, from, n) = Slice(part, from, n)
  BY <1>1, <1>4, <1>5, <1>17, SameSlice
<1>19. part \in Seq(Pairs) /\ Len(part) = M /\ from + n <= Len(part)
  BY <1>1, <1>17, OwnIs
<1>20. Slice(part, from, n) = SubSeq(part, from + 1, from + n) /\ Len(SubSeq(part, from + 1, from + n)) = n
  BY <1>19, SliceOf
<1>21. Expected(c, r) = SubSeq(part, from + 1, from + n)
  <2>1. Expected(c, r)
        = SubSeq(Own(c.root, Sums(Sizes(c))[r] + c.n[r]), Sums(Sizes(c))[r] + 1, Sums(Sizes(c))[r] + c.n[r])
    BY ExpectedIs
  <2>2. Sizes(c) = counts
    BY <1>2, SizesAre
  <2>3. Sums(Sizes(c))[r] = from
    BY <1>3, <2>2
  <2>4. Expected(c, r) = SubSeq(Own(root, from + n), from + 1, from + n)
    BY <1>1, <1>3, <2>1, <2>3
  <2> QED BY <1>17, <2>4
<1> QED BY <1>3, <1>16, <1>18, <1>20, <1>21

\* The ranks' packages.
PackagesOf(c) == [q \in Ranks |-> Package(q, c.n[q])]

LEMMA OwnPackages ==
    ASSUME NEW c, Callable(c), c.op \in Packed
    PROVE  Arrays(PackagesOf(c), Told(c), Byte) /\ \A q \in Ranks : PackagesOf(c)[q] = Package(q, c.n[q])
<1>1. \A q \in Ranks : PackagesOf(c)[q] = Package(q, c.n[q])
  BY DEF PackagesOf
<1>2. ASSUME NEW q \in Ranks PROVE PackagesOf(c)[q] \in Seq(Byte) /\ Len(PackagesOf(c)[q]) = Told(c)[q]
  <2>1. q \in Nat /\ c.n[q] \in Nat
    BY RanksAre, CallableIs
  <2>2. Package(q, c.n[q]) \in Seq(Byte)
    BY <2>1, PackageIs
  <2>3. Told(c)[q] = Len(Package(q, c.n[q]))
    BY ToldIs
  <2> QED BY <1>1, <2>2, <2>3
<1>3. PackagesOf(c) = [q \in Ranks |-> PackagesOf(c)[q]]
  BY DEF PackagesOf
<1>4. PackagesOf(c) \in [Ranks -> Seq(Byte)]
  BY <1>2, <1>3
<1>5. Arrays(PackagesOf(c), Told(c), Byte)
  BY <1>2, <1>4, ToldIs DEF Arrays
<1> QED BY <1>1, <1>5

\* What the ranks gather in the second of two collectives.
LEMMA GivenInTwo ==
    ASSUME NEW c, Callable(c), NEW S, S = (IF c.op \in Packed THEN Byte ELSE Pairs),
           NEW arrays, arrays = (IF c.op \in Packed THEN PackagesOf(c) ELSE OwnOf(c))
    PROVE  /\ Arrays(arrays, Told(c), S)
           /\ \A q \in Ranks : arrays[q] = IF c.op \in Packed THEN Package(q, c.n[q]) ELSE Own(q, c.n[q])
<1>1. CASE c.op \in Packed
  BY <1>1, OwnPackages
<1>2. CASE c.op \notin Packed
  <2>1. Told(c) = c.n
    BY <1>2, ToldIs
  <2> QED BY <1>2, <2>1, OwnArrays
<1> QED BY <1>1, <1>2

LEMMA AllGatheredInTwo ==
    ASSUME NEW c, Callable(c), NEW r \in Ranks, c.op \in {"all_gather_package", "all_gatherv", "all_gatherv_output"}
    PROVE  Brought(c, r, 2) = InRankOrder(IF c.op \in Packed THEN PackagesOf(c) ELSE OwnOf(c))
<1>1. PICK arrays : arrays = IF c.op \in Packed THEN PackagesOf(c) ELSE OwnOf(c)
  OBVIOUS
<1>2. PICK S : S = IF c.op \in Packed THEN Byte ELSE Pairs
  OBVIOUS
<1>3. PICK numbers : numbers = Told(c)
  OBVIOUS
<1>4. /\ Arrays(arrays, numbers, S)
      /\ \A q \in Ranks : arrays[q] = IF c.op \in Packed THEN Package(q, c.n[q]) ELSE Own(q, c.n[q])
  BY <1>1, <1>2, <1>3, GivenInTwo
<1>5. PICK kind : kind = "allgatherv" /\ kind \notin Reductions
  BY DEF Reductions
<1>6. PICK told : told = Listed(numbers)
  OBVIOUS
<1>7. /\ Total(told) \in Nat
      /\ \A q \in Ranks, room \in {Size, Size + 1} : PartialSums(told, room)[q + 1] = Sums(told)[q]
  BY <1>3, <1>6, ToldIs, NumbersAre
<1>8. DOMAIN Blanks(Total(told)) = 1 .. Total(told)
  BY <1>7, ArraysAre
<1>9. ASSUME NEW q \in Ranks
      PROVE  \E counts, displs, into :
                 /\ Collective(c, q, 2) = AllGather(kind, arrays[q], counts, displs, into)
                 /\ DOMAIN into = 1 .. Total(Listed(numbers))
                 /\ \A p \in Ranks : displs[p + 1] = Sums(Listed(numbers))[p]
  <2>1. PICK o : o = Collective(c, q, 2)
    OBVIOUS
  <2>2. PICK room \in {Size, Size + 1} : o = AllGather("allgatherv", arrays[q], told, PartialSums(told, room), Blanks(Total(told)))
    <3>1. CASE c.op = "all_gather_package"
      <4>1. o = AllGather("allgatherv", Package(q, c.n[q]), told, PartialSums(told, Size), Blanks(Total(told)))
        BY <1>3, <1>6, <2>1, <3>1, FormsOfSecond
      <4>2. arrays[q] = Package(q, c.n[q])
        BY <1>4, <3>1 DEF Packed
      <4> QED BY <4>1, <4>2
    <3>2. CASE c.op \in {"all_gatherv", "all_gatherv_output"}
      <4>1. o = AllGather("allgatherv", Own(q, c.n[q]), told, PartialSums(told, Size + 1), Blanks(Total(told)))
        BY <1>3, <1>6, <2>1, <3>2, FormsOfSecond
      <4>2. arrays[q] = Own(q, c.n[q])
        BY <1>4, <3>2 DEF Packed
      <4> QED BY <4>1, <4>2
    <3> QED BY <3>1, <3>2
  <2>3. PICK displs : displs = PartialSums(told, room)
    OBVIOUS
  <2>4. \A p \in Ranks : displs[p + 1] = Sums(told)[p]
    BY <1>7, <2>3
  <2> QED BY <1>5, <1>6, <1>8, <2>1, <2>2, <2>3, <2>4
<1>10. PICK s : s = 2
  OBVIOUS
<1>13. AllGathers(c, 2, kind, arrays, numbers)
  BY Zenon, <1>9 DEF AllGathers
<1>11. AllGathers(c, s, kind, arrays, numbers)
  BY <1>10, <1>13
<1>12. Brought(c, r, s) = InRankOrder(arrays)
  BY <1>4, <1>5, <1>11, AllGatherBrings
<1> QED BY <1>1, <1>10, <1>12

LEMMA GatheredInTwo ==
    ASSUME NEW c, Callable(c), NEW r \in Ranks, c.op \in {"gather_package", "gatherv_told"},
           NEW root, root = IF c.op = "gatherv_told" THEN 0 ELSE c.root
    PROVE  /\ r = root => Brought(c, r, 2) = InRankOrder(IF c.op \in Packed THEN PackagesOf(c) ELSE OwnOf(c))
           /\ c.op = "gatherv_told" /\ r # root => Brought(c, r, 2) = <<>>
<1>1. PICK arrays : arrays = IF c.op \in Packed THEN PackagesOf(c) ELSE OwnOf(c)
  OBVIOUS
<1>2. PICK S : S = IF c.op \in Packed THEN Byte ELSE Pairs
  OBVIOUS
<1>3. PICK numbers : numbers = Told(c)
  OBVIOUS
<1>4. /\ Arrays(arrays, numbers, S)
      /\ \A q \in Ranks : arrays[q] = IF c.op \in Packed THEN Package(q, c.n[q]) ELSE Own(q, c.n[q])
  BY <1>1, <1>2, <1>3, GivenInTwo
<1>5. PICK kind : kind = "gatherv" /\ kind \notin Reductions
  BY DEF Reductions
<1>6. PICK told : told = Listed(numbers)
  OBVIOUS
<1>7. /\ Total(told) \in Nat
      /\ \A q \in Ranks, room \in {Size, Size + 1} : PartialSums(told, room)[q + 1] = Sums(told)[q]
  BY <1>3, <1>6, ToldIs, NumbersAre
<1>8. DOMAIN Blanks(Total(told)) = 1 .. Total(told)
  BY <1>7, ArraysAre
<1>9. PICK displs : displs = PartialSums(told, Size + 1) /\ \A p \in Ranks : displs[p + 1] = Sums(told)[p]
  BY <1>7
<1>10. ASSUME NEW q \in Ranks
       PROVE  \E cs, ds, into :
                  /\ Collective(c, q, 2) = Gather(kind, q, root, arrays[q], cs, ds, into)
                  /\ q = root => ds = displs /\ DOMAIN into = 1 .. Total(told)
                  /\ c.op = "gatherv_told" /\ q # root => into = Blanks(0)
  <2>1. PICK o : o = Collective(c, q, 2)
    OBVIOUS
  <2>2. CASE c.op = "gatherv_told"
    <3>1. root = 0 /\ arrays[q] = Own(q, c.n[q])
      BY <1>4, <2>2 DEF Packed
    <3>2. o = Gather("gatherv", q, 0, Own(q, c.n[q]), told, PartialSums(told, Size + 1),
                     Blanks(IF q = 0 THEN Total(told) ELSE 0))
      BY <1>3, <1>6, <2>1, <2>2, FormsOfSecond
    <3>3. CASE q = 0
      BY <1>5, <1>8, <1>9, <2>1, <3>1, <3>2, <3>3
    <3>4. CASE q # 0
      BY <1>5, <1>9, <2>1, <3>1, <3>2, <3>4
    <3> QED BY <3>3, <3>4
  <2>3. CASE c.op = "gather_package"
    <3>1. root = c.root /\ arrays[q] = Package(q, c.n[q])
      BY <1>4, <2>3 DEF Packed
    <3>2. PICK cs, ds :
               /\ q = c.root => cs = told /\ ds = PartialSums(told, Size + 1)
               /\ o = Gather("gatherv", q, c.root, Package(q, c.n[q]), cs, ds, Blanks(Total(cs)))
      BY <1>3, <1>6, <2>1, <2>3, FormsOfSecond
    <3>3. PICK into : into = Blanks(Total(cs))
      OBVIOUS
    <3>4. q = root => ds = displs /\ DOMAIN into = 1 .. Total(told)
      BY <1>8, <1>9, <3>1, <3>2, <3>3
    <3> QED BY <1>5, <2>1, <2>3, <3>1, <3>2, <3>3, <3>4
  <2> QED BY <2>2, <2>3
<1>11. PICK s : s = 2
  OBVIOUS
<1>12. ASSUME r = root PROVE Brought(c, r, 2) = InRankOrder(arrays)
  <2>1. ASSUME NEW q \in Ranks
        PROVE  \E cs, ds, into :
                   /\ Collective(c, q, 2) = Gather(kind, q, r, arrays[q], cs, ds, into)
                   /\ q = r => /\ DOMAIN into = 1 .. Total(Listed(numbers))
                               /\ \A p \in Ranks : ds[p + 1] = Sums(Listed(numbers))[p]
    <3>1. PICK cs, ds, into :
               /\ Collective(c, q, 2) = Gather(kind, q, root, arrays[q], cs, ds, into)
               /\ q = root => ds = displs /\ DOMAIN into = 1 .. Total(told)
      BY <1>10
    <3> QED BY <1>6, <1>9, <1>12, <3>1
  <2>4. Gathers(c, 2, kind, r, arrays, numbers)
    BY Zenon, <2>1 DEF Gathers
  <2>2. Gathers(c, s, kind, r, arrays, numbers)
    BY <1>11, <2>4
  <2>3. Brought(c, r, s) = InRankOrder(arrays)
    BY <1>4, <1>5, <2>2, GatherBrings
  <2> QED BY <1>11, <2>3
<1>13. ASSUME c.op = "gatherv_told", r # root PROVE Brought(c, r, 2) = <<>>
  <2>1. PICK cs, ds : Collective(c, r, s) = Gather(kind, r, root, arrays[r], cs, ds, Blanks(0))
    BY <1>10, <1>11, <1>13
  <2>2. Brought(c, r, s) = <<>>
    BY <1>5, <1>13, <2>1, GatherElsewhere
  <2> QED BY <1>11, <2>2
<1> QED BY <1>1, <1>12, <1>13

LEMMA Associative ==
    ASSUME NEW S, NEW a \in Seq(S), NEW b \in Seq(S), NEW x \in Seq(S)
    PROVE  (a \o b) \o x = a \o (b \o x)
OBVIOUS

LEMMA InSeq ==
    ASSUME NEW S, NEW a \in Seq(S)
    PROVE  \A i \in 1 .. Len(a) : a[i] \in S
OBVIOUS

\* A value is packed in the same way behind any buffer.
LEMMA PackBehind ==
    ASSUME NEW a \in Seq(Byte), NEW b \in Seq(Byte), NEW xs \in Seq(Nat), NEW width \in Widths
    PROVE  PackN(a \o b, xs, width) = a \o PackN(b, xs, width) /\ PackN(b, xs, width) \in Seq(Byte)
<1>1. PICK bytes \in Seq(Byte) : bytes = BytesOf(xs, width)
  BY BytesOfBytes
<1>2. (a \o b) \o bytes = a \o (b \o bytes)
  BY Associative
<1>3. PackN(a \o b, xs, width) = (a \o b) \o bytes /\ PackN(b, xs, width) = b \o bytes
  BY <1>1 DEF PackN
<1> QED BY <1>2, <1>3

PackedBehind(a, b, xs, width) == PackN(a \o b, xs, width) = a \o PackN(b, xs, width)

LEMMA PackedBehindIt ==
    ASSUME NEW a \in Seq(Byte), NEW b \in Seq(Byte), NEW xs \in Seq(Nat), NEW width \in Widths
    PROVE  PackedBehind(a, b, xs, width)
BY PackBehind DEF PackedBehind

LEMMA SaveBehind ==
    ASSUME NEW a \in Seq(Byte), NEW b \in Seq(Byte), NEW v \in Strings
    PROVE  Save(a \o b, v) = a \o Save(b, v)
<1>1. v.type = "string" /\ v.x \in Seq(Nat)
  BY DEF Strings
<1>2. SizeWidth \in Widths /\ CharWidth \in Widths
  BY DEF Widths
<1>3. PICK length \in Seq(Nat) : length = <<Len(v.x)>>
  <2>1. Len(v.x) \in Nat
    BY <1>1
  <2>2. <<Len(v.x)>> \in Seq(Nat)
    BY <2>1
  <2> QED BY Zenon, <2>2
<1>4. \A buffer : Save(buffer, v) = PackN(PackN(buffer, length, SizeWidth), v.x, CharWidth)
  BY <1>1, <1>3 DEF Save, SavePlain, SaveString
<1>5. PICK sized \in Seq(Byte) : sized = PackN(b, length, SizeWidth)
  BY <1>2, PackBehind
<1>6. PackN(a \o b, length, SizeWidth) = a \o sized
  <2>1. PackN(a \o b, length, SizeWidth) = a \o PackN(b, length, SizeWidth)
    BY Zenon, <1>2, <1>3, PackBehind
  <2> QED BY Zenon, <1>5, <2>1
<1>7. PackN(a \o sized, v.x, CharWidth) = a \o PackN(sized, v.x, CharWidth)
  <2>1. sized \in Seq(Byte) /\ v.x \in Seq(Nat) /\ CharWidth \in Widths
    BY <1>1, <1>2, <1>5
  <2>2. PackedBehind(a, sized, v.x, CharWidth)
    BY <2>1, PackedBehindIt
  <2> QED BY Zenon, <2>2 DEF PackedBehind
<1> QED BY <1>4, <1>5, <1>6, <1>7

\* Values saved after others make the packages of both, one after the other.
LEMMA SaveAllJoined ==
    ASSUME NEW vs \in Seq(Strings), NEW ws \in Seq(Strings)
    PROVE  SaveAll(vs \o ws) = SaveAll(vs) \o SaveAll(ws)
<1>1. Strings \subseteq Serialized
  BY DEF Serialized
<1>2. PICK M \in Nat, N \in Nat : M = Len(vs) /\ N = Len(ws)
  OBVIOUS
<1>3. PICK all \in Seq(Strings) : all = vs \o ws
  BY ConcatIs
<1>4. Len(all) = M + N /\ (\A i \in 1 .. M : all[i] = vs[i]) /\ \A j \in 1 .. N : all[M + j] = ws[j]
  BY <1>2, <1>3, ConcatIs
<1>5. all \in Seq(Serialized) /\ vs \in Seq(Serialized) /\ ws \in Seq(Serialized)
  BY <1>1
<1>6. PICK f \in [0 .. M + N -> Seq(Byte)] : SavedSoFar(f, all, M + N) /\ SaveAll(all) = f[M + N]
  <2>1. PICK f \in [0 .. Len(all) -> Seq(Byte)] : SavedSoFar(f, all, Len(all)) /\ SaveAll(all) = f[Len(all)]
    BY <1>5, SaveAllSteps
  <2> QED BY <1>4, <2>1
<1>7. PICK g \in [0 .. M -> Seq(Byte)] : SavedSoFar(g, vs, M) /\ SaveAll(vs) = g[M]
  <2>1. PICK g \in [0 .. Len(vs) -> Seq(Byte)] : SavedSoFar(g, vs, Len(vs)) /\ SaveAll(vs) = g[Len(vs)]
    BY <1>5, SaveAllSteps
  <2> QED BY <1>2, <2>1
<1>8. PICK h \in [0 .. N -> Seq(Byte)] : SavedSoFar(h, ws, N) /\ SaveAll(ws) = h[N]
  <2>1. PICK h \in [0 .. Len(ws) -> Seq(Byte)] : SavedSoFar(h, ws, Len(ws)) /\ SaveAll(ws) = h[Len(ws)]
    BY <1>5, SaveAllSteps
  <2> QED BY <1>2, <2>1
<1>9. f[0] = <<>> /\ g[0] = <<>> /\ h[0] = <<>>
  BY <1>6, <1>7, <1>8 DEF SavedSoFar
<1> DEFINE T == {n \in 0 .. M : f[n] = g[n]}
<1>10. 0 \in T
  BY <1>9
<1>11. ASSUME NEW n \in T, n \in 0 .. M - 1 PROVE n + 1 \in T
  <2>1. n + 1 \in 1 .. M /\ n + 1 \in 1 .. M + N /\ (n + 1) - 1 = n
    BY <1>11
  <2>2. f[n + 1] = Save(f[n], all[n + 1])
    BY <1>6, <2>1 DEF SavedSoFar
  <2>3. g[n + 1] = Save(g[n], vs[n + 1])
    BY <1>7, <2>1 DEF SavedSoFar
  <2>4. all[n + 1] = vs[n + 1] /\ f[n] = g[n]
    BY <1>4, <2>1
  <2> QED BY <2>1, <2>2, <2>3, <2>4
<1>12. 0 .. M \subseteq T
  <2> HIDE DEF T
  <2> QED BY <1>10, <1>11, UpTo
<1>13. PICK pack \in Seq(Byte) : pack = g[M] /\ f[M] = pack
  BY <1>12
<1> DEFINE R == {k \in 0 .. N : f[M + k] = pack \o h[k]}
<1>14. 0 \in R
  <2>1. pack \o <<>> = pack
    OBVIOUS
  <2>2. f[M + 0] = pack
    BY <1>13
  <2>3. 0 \in 0 .. N
    OBVIOUS
  <2> QED BY <1>9, <2>1, <2>2, <2>3
<1>15. ASSUME NEW k \in R, k \in 0 .. N - 1 PROVE k + 1 \in R
  <2>1. PICK j \in 1 .. N : j = k + 1 /\ j - 1 = k
    BY <1>15
  <2>2. PICK m \in 1 .. M + N : m = M + j /\ m - 1 = M + k
    BY <2>1
  <2>3. f[m] = Save(f[m - 1], all[m])
    BY <1>6 DEF SavedSoFar
  <2>4. h[j] = Save(h[k], ws[j])
    BY <1>8, <2>1 DEF SavedSoFar
  <2>5. all[m] = ws[j] /\ f[m - 1] = pack \o h[k]
    BY <1>4, <2>2
  <2>6. h[k] \in Seq(Byte) /\ ws[j] \in Strings
    <3>1. k \in 0 .. N
      BY <1>15
    <3>2. h[k] \in Seq(Byte)
      BY <3>1
    <3>3. j \in 1 .. Len(ws)
      BY <1>2
    <3>4. ws[j] \in Strings
      BY <3>3, InSeq
    <3> QED BY <3>2, <3>4
  <2>7. Save(pack \o h[k], ws[j]) = pack \o Save(h[k], ws[j])
    BY <2>6, SaveBehind
  <2>8. f[M + j] = pack \o h[j]
    BY <2>2, <2>3, <2>4, <2>5, <2>7
  <2>9. k + 1 \in 0 .. N
    BY <2>1
  <2> QED BY <2>1, <2>8, <2>9
<1>16. 0 .. N \subseteq R
  <2> HIDE DEF R
  <2> QED BY <1>14, <1>15, UpTo
<1>17. f[M + N] = pack \o h[N]
  <2>1. N \in R
    <3> HIDE DEF R
    <3> QED BY <1>16
  <2> QED BY <2>1
<1> QED BY <1>3, <1>6, <1>7, <1>8, <1>13, <1>17

LEMMA AsTextIs ==
    ASSUME NEW xs \in Seq(Pairs)
    PROVE  AsText(xs) \in Seq(Strings) /\ Len(AsText(xs)) = Len(xs)
           /\ \A i \in 1 .. Len(xs) : AsText(xs)[i] = Text(xs[i][1], xs[i][2])
<1>1. PICK N \in Nat : N = Len(xs) /\ DOMAIN xs = 1 .. N
  OBVIOUS
<1>2. ASSUME NEW i \in 1 .. N PROVE Text(xs[i][1], xs[i][2]) \in Strings
  <2>1. xs[i] \in Pairs
    BY <1>1
  <2>2. xs[i][1] \in Nat /\ xs[i][2] \in Nat
    BY <2>1 DEF Pairs
  <2> QED BY <2>2, TextIs
<1>3. PICK t : t = AsText(xs)
  OBVIOUS
<1>4. t = [i \in 1 .. N |-> Text(xs[i][1], xs[i][2])]
  BY <1>1, <1>3 DEF AsText
<1>5. t \in [1 .. N -> Strings]
  BY <1>2, <1>4
<1>6. t \in Seq(Strings) /\ Len(t) = N
  BY <1>5
<1>7. \A i \in 1 .. N : t[i] = Text(xs[i][1], xs[i][2])
  BY <1>4
<1> QED BY <1>1, <1>3, <1>6, <1>7

LEMMA AsTextJoined ==
    ASSUME NEW xs \in Seq(Pairs), NEW ys \in Seq(Pairs)
    PROVE  AsText(xs \o ys) = AsText(xs) \o AsText(ys)
<1>1. PICK M \in Nat, N \in Nat : M = Len(xs) /\ N = Len(ys)
  OBVIOUS
<1>2. PICK all \in Seq(Pairs) : all = xs \o ys
  BY ConcatIs
<1>3. Len(all) = M + N /\ (\A i \in 1 .. M : all[i] = xs[i]) /\ \A j \in 1 .. N : all[M + j] = ys[j]
  BY <1>1, <1>2, ConcatIs
<1>4. PICK s \in Seq(Strings) : s = AsText(xs)
  BY AsTextIs
<1>5. PICK t \in Seq(Strings) : t = AsText(ys)
  BY AsTextIs
<1>6. PICK u \in Seq(Strings) : u = AsText(all)
  BY AsTextIs
<1>7. Len(s) = M /\ \A i \in 1 .. M : s[i] = Text(xs[i][1], xs[i][2])
  BY <1>1, <1>4, AsTextIs
<1>8. Len(t) = N /\ \A i \in 1 .. N : t[i] = Text(ys[i][1], ys[i][2])
  BY <1>1, <1>5, AsTextIs
<1>9. Len(u) = M + N /\ \A i \in 1 .. M + N : u[i] = Text(all[i][1], all[i][2])
  BY <1>3, <1>6, AsTextIs
<1>10. PICK st \in Seq(Strings) : st = s \o t
  BY ConcatIs
<1>11. Len(st) = M + N /\ (\A i \in 1 .. M : st[i] = s[i]) /\ \A j \in 1 .. N : st[M + j] = t[j]
  <2>1. Len(s) = M /\ Len(t) = N
    BY <1>7, <1>8
  <2>2. /\ Len(s \o t) = Len(s) + Len(t) /\ \A i \in 1 .. Len(s) : (s \o t)[i] = s[i]
        /\ \A j \in 1 .. Len(t) : (s \o t)[Len(s) + j] = t[j]
    BY <1>4, <1>5, ConcatIs
  <2> QED BY <1>10, <2>1, <2>2
<1>12. ASSUME NEW i \in 1 .. M + N PROVE st[i] = u[i]
  <2>1. CASE i \in 1 .. M
    <3>1. st[i] = s[i] /\ all[i] = xs[i]
      BY <1>3, <1>11, <2>1
    <3>2. s[i] = Text(xs[i][1], xs[i][2])
      BY <1>7, <2>1
    <3>3. u[i] = Text(all[i][1], all[i][2])
      BY <1>9
    <3> QED BY <3>1, <3>2, <3>3
  <2>2. CASE i \notin 1 .. M
    <3>1. PICK j \in 1 .. N : i = M + j
      <4>1. i - M \in 1 .. N /\ i = M + (i - M)
        BY <2>2
      <4> QED BY <4>1
    <3>2. st[i] = t[j] /\ all[i] = ys[j] /\ u[i] = Text(all[i][1], all[i][2])
      BY <1>3, <1>9, <1>11, <3>1
    <3>3. t[j] = Text(ys[j][1], ys[j][2])
      BY <1>8
    <3> QED BY <3>2, <3>3
  <2> QED BY <2>1, <2>2
<1>13. st = u
  BY <1>9, <1>11, <1>12
<1> QED BY <1>2, <1>4, <1>5, <1>6, <1>10, <1>13

LEMMA PackageOfOwn ==
    ASSUME NEW r \in Nat, NEW n \in Nat
    PROVE  Package(r, n) = SaveAll(AsText(Own(r, n)))
<1>1. PICK a : a = Own(r, n)
  OBVIOUS
<1>2. DOMAIN a = 1 .. n /\ \A i \in 1 .. n : a[i] = <<r, i>>
  BY <1>1, ArraysAre
<1>3. \A i \in 1 .. n : a[i][1] = r /\ a[i][2] = i
  BY <1>2
<1>4. AsText(a) = [i \in 1 .. n |-> Text(a[i][1], a[i][2])]
  BY <1>2 DEF AsText
<1>5. [i \in 1 .. n |-> Text(a[i][1], a[i][2])] = [i \in 1 .. n |-> Text(r, i)]
  BY <1>3
<1> QED BY Zenon, <1>1, <1>4, <1>5 DEF Package

\* The packages one after the other are the package of all values.
LEMMA PackagesInOrder ==
    ASSUME NEW c, Callable(c), c.op \in Packed, NEW vs, vs = AsText(InRankOrder(OwnOf(c)))
    PROVE  InRankOrder(PackagesOf(c)) = SaveAll(vs) /\ vs \in Seq(Strings) /\ Len(vs) = Total(Listed(c.n))
<1>1. PICK own : own = OwnOf(c) /\ own \in [Ranks -> Seq(Pairs)] /\ \A q \in Ranks : own[q] = Own(q, c.n[q])
  BY OwnArrays DEF Arrays
<1>2. PICK packs : /\ packs = PackagesOf(c) /\ packs \in [Ranks -> Seq(Byte)]
                   /\ \A q \in Ranks : packs[q] = Package(q, c.n[q])
  BY OwnPackages DEF Arrays
<1>3. PICK N \in Nat : N = Size
  BY RanksAre
<1>4. PICK f \in [0 .. N -> Seq(Pairs)] : JoinedSoFar(f, own) /\ InRankOrder(own) = f[N]
  <2>1. \E f \in [0 .. Size -> Seq(Pairs)] : JoinedSoFar(f, own) /\ InRankOrder(own) = f[Size]
    BY <1>1, JoinedSteps
  <2> QED BY <1>3, <2>1
<1>5. PICK g \in [0 .. N -> Seq(Byte)] : JoinedSoFar(g, packs) /\ InRankOrder(packs) = g[N]
  <2>1. \E g \in [0 .. Size -> Seq(Byte)] : JoinedSoFar(g, packs) /\ InRankOrder(packs) = g[Size]
    BY <1>2, JoinedSteps
  <2> QED BY <1>3, <2>1
<1> DEFINE T == {n \in 0 .. N : g[n] = SaveAll(AsText(f[n]))}
<1>6. 0 \in T
  <2>1. f[0] = <<>> /\ g[0] = <<>>
    BY <1>4, <1>5 DEF JoinedSoFar
  <2>10. <<>> \in Seq(Pairs)
    OBVIOUS
  <2>2. PICK none \in Seq(Pairs) : none = <<>>
    BY Zenon, <2>10
  <2>3. PICK t \in Seq(Strings) : t = AsText(none)
    BY AsTextIs
  <2>4. Len(t) = 0
    BY <2>2, <2>3, AsTextIs
  <2>5. t \in Seq(Serialized)
    BY <2>3 DEF Serialized
  <2>6. PICK saved \in [0 .. Len(t) -> Seq(Byte)] : SavedSoFar(saved, t, Len(t)) /\ SaveAll(t) = saved[Len(t)]
    BY <2>5, SaveAllSteps
  <2>7. SaveAll(t) = <<>>
    BY <2>4, <2>6 DEF SavedSoFar
  <2>8. 0 \in 0 .. N
    OBVIOUS
  <2>9. g[0] = SaveAll(AsText(f[0]))
    BY <2>1, <2>2, <2>3, <2>7
  <2> QED BY <2>8, <2>9
<1>7. ASSUME NEW n \in T, n \in 0 .. N - 1 PROVE n + 1 \in T
  <2>1. PICK m \in 1 .. N : m = n + 1 /\ m - 1 = n
    BY <1>7
  <2>2. n \in Ranks /\ n \in Nat /\ c.n[n] \in Nat
    <3>1. n \in Ranks
      BY <1>3, <1>7 DEF Ranks
    <3> QED BY <3>1, RanksAre, CallableIs
  <2>3. f[m] = f[n] \o own[n] /\ g[m] = g[n] \o packs[n]
    <3>1. m \in 1 .. Size
      BY <1>3
    <3> QED BY <1>4, <1>5, <2>1, <3>1 DEF JoinedSoFar
  <2>4. g[n] = SaveAll(AsText(f[n])) /\ f[n] \in Seq(Pairs)
    BY <1>7
  <2>5. PICK x \in Seq(Pairs) : x = f[n]
    BY <2>4
  <2>6. PICK y \in Seq(Pairs) : y = own[n]
    BY <1>1, <2>2
  <2>7. PICK tx \in Seq(Strings) : tx = AsText(x)
    BY AsTextIs
  <2>8. PICK ty \in Seq(Strings) : ty = AsText(y)
    BY AsTextIs
  <2>9. AsText(x \o y) = tx \o ty
    BY <2>7, <2>8, AsTextJoined
  <2>10. SaveAll(tx \o ty) = SaveAll(tx) \o SaveAll(ty)
    BY SaveAllJoined
  <2>11. packs[n] = SaveAll(ty)
    <3>1. Package(n, c.n[n]) = SaveAll(AsText(Own(n, c.n[n])))
      BY <2>2, PackageOfOwn
    <3> QED BY <1>1, <1>2, <2>2, <2>6, <2>8, <3>1
  <2>12. g[m] = SaveAll(AsText(f[m]))
    BY <2>3, <2>4, <2>5, <2>6, <2>7, <2>9, <2>10, <2>11
  <2>13. n + 1 \in 0 .. N
    BY <2>1
  <2> QED BY <2>1, <2>12, <2>13
<1>8. 0 .. N \subseteq T
  <2> HIDE DEF T
  <2> QED BY <1>6, <1>7, UpTo
<1>9. g[N] = SaveAll(AsText(f[N])) /\ f[N] \in Seq(Pairs)
  BY <1>8
<1>10. vs = AsText(f[N])
  BY <1>1, <1>4
<1>11. vs \in Seq(Strings) /\ Len(vs) = Len(f[N])
  BY <1>9, <1>10, AsTextIs
<1>12. Len(f[N]) = Total(Listed(c.n))
  <2>1. Arrays(own, c.n, Pairs)
    BY <1>1, OwnArrays
  <2>2. Len(InRankOrder(own)) = Total(Listed(c.n))
    BY <2>1, InRankOrderIs
  <2> QED BY <1>4, <2>2
<1> QED BY <1>2, <1>5, <1>9, <1>10, <1>11, <1>12

\* What a rank that reads the packages finds: the values of all ranks, if there are any.
Found(c, m) ==
    IF InRankOrder(OwnOf(c)) = <<>> THEN Overruns(m.out, Reading(m))
    ELSE Reading(m).value = AsText(InRankOrder(OwnOf(c)))

\* Reading as many values from the packages gives the ranks' values, in rank order.
LEMMA PackagesRead ==
    ASSUME NEW c, Callable(c), c.op \in Packed, NEW n \in Nat, \A q \in Ranks : c.n[q] = n,
           NEW m, m.out = InRankOrder(PackagesOf(c)), m.end = n * Size
    PROVE  Found(c, m) /\ Len(InRankOrder(OwnOf(c))) = n * Size
<1>1. PICK vs : vs = AsText(InRankOrder(OwnOf(c)))
  OBVIOUS
<1>2. PICK N \in Nat : N = n * Size /\ Total(Listed(c.n)) = N
  <2>1. PICK told : told = [q \in Ranks |-> n]
    OBVIOUS
  <2>2. c.n = told
    <3>1. c.n = [q \in Ranks |-> c.n[q]]
      BY CallableIs
    <3> QED BY <2>1, <3>1
  <2>3. Total(Listed(c.n)) = Size * n
    BY <2>1, <2>2, EqualSums
  <2>4. Size * n \in Nat /\ Size * n = n * Size
    BY RanksAre
  <2> QED BY <2>3, <2>4
<1>3. InRankOrder(PackagesOf(c)) = SaveAll(vs) /\ vs \in Seq(Strings) /\ Len(vs) = N
  BY <1>1, <1>2, PackagesInOrder
<1>4. Len(InRankOrder(OwnOf(c))) = N
  <2>1. Arrays(OwnOf(c), c.n, Pairs)
    BY OwnArrays
  <2> QED BY <1>2, <2>1, InRankOrderIs
<1>5. PICK kind : kind = "string" /\ kind \in {"int", "string", "vector", "variant"}
  OBVIOUS
<1>6. vs \in Seq(Serialized) /\ \A i \in 1 .. Len(vs) : vs[i].type = kind
  <2>1. vs \in Seq(Serialized)
    BY <1>3 DEF Serialized
  <2>2. ASSUME NEW i \in 1 .. Len(vs) PROVE vs[i].type = kind
    <3>1. vs[i] \in Strings
      BY <1>3
    <3> QED BY <1>5, <3>1 DEF Strings
  <2> QED BY <2>1, <2>2
<1>7. IF vs = <<>> THEN Overruns(SaveAll(vs), LoadN(SaveAll(vs), kind, Len(vs)))
      ELSE LoadN(SaveAll(vs), kind, Len(vs)) = Read(vs, Len(SaveAll(vs)))
  BY <1>5, <1>6, LoadNSaved
<1>8. m.out = SaveAll(vs) /\ Reading(m) = LoadN(SaveAll(vs), kind, Len(vs))
  BY <1>2, <1>3, <1>5 DEF Reading
<1>9. InRankOrder(OwnOf(c)) = <<>> <=> vs = <<>>
  <2>1. vs = <<>> <=> Len(vs) = 0
    BY <1>3
  <2>2. InRankOrder(OwnOf(c)) \in Seq(Pairs)
    BY OwnArrays, InRankOrderIs
  <2>3. InRankOrder(OwnOf(c)) = <<>> <=> N = 0
    BY <1>4, <2>2
  <2> QED BY <1>3, <2>1, <2>3
<1>10. CASE vs = <<>>
  <2>1. InRankOrder(OwnOf(c)) = <<>> /\ Overruns(m.out, Reading(m))
    BY <1>7, <1>8, <1>9, <1>10
  <2> QED BY <1>2, <1>4, <2>1 DEF Found
<1>11. CASE vs # <<>>
  <2>1. InRankOrder(OwnOf(c)) # <<>> /\ Reading(m).value = vs
    BY <1>7, <1>8, <1>9, <1>11 DEF Read
  <2> QED BY <1>1, <1>2, <1>4, <2>1 DEF Found
<1> QED BY <1>10, <1>11

-----------------------------------------------------------------------------
(* What a call has left when it has returned.                              *)

\* The last collective of a call that waits, and what was delivered by it.
LEMMA LastBrought ==
    ASSUME NEW c, Callable(c), NEW r \in Ranks, ~Immediate(c)
    PROVE  \E m, got : /\ Left(c, r, m, got, Outcome(c, r))
                       /\ m = (IF c.op \in OfTwoRounds THEN Going(c)[r] ELSE Start(c, r))
                       /\ got = (IF c.op \in OfTwoRounds THEN Brought(c, r, 2) ELSE Brought(c, r, 1))
<1>1. PICK s : s = Rounds(c)
  OBVIOUS
<1>2. PICK m : m = Recalled(c, s)[r]
  OBVIOUS
<1>3. PICK got : got = Brought(c, r, s)
  OBVIOUS
<1>4. PICK n : n = Outcome(c, r)
  OBVIOUS
<1>5. At(m, Rounds(c)) /\ n = AfterOperation(c, r, m, got)
  BY <1>1, <1>2, <1>3, <1>4, OutcomeIs
<1>6. Left(c, r, m, got, n)
  BY <1>5, LastStep
<1>7. s = IF c.op \in OfTwoRounds THEN 2 ELSE 1
  BY <1>1 DEF Rounds
<1>8. m = IF c.op \in OfTwoRounds THEN Going(c)[r] ELSE Start(c, r)
  BY <1>2, <1>7, BegunIs DEF Recalled
<1>9. got = IF c.op \in OfTwoRounds THEN Brought(c, r, 2) ELSE Brought(c, r, 1)
  BY <1>3, <1>7
<1> QED BY <1>4, <1>6, <1>8, <1>9

\* A call leaves in each rank's destination what it is for, where that is a range of values.
LEMMA DestinationHolds ==
    ASSUME NEW c, Callable(c), NEW r \in Ranks, c.op \notin Packed \cup {"all_to_all"}
    PROVE  Outcome(c, r).out = Expected(c, r)
<1>1. PICK n : n = Outcome(c, r)
  OBVIOUS
<1>2. CASE Immediate(c)
  <2>1. n.out = Brought(c, r, 1)
    BY <1>1, <1>2, OutcomeAtOnce
  <2>2. Brought(c, r, 1) = Expected(c, r)
    BY <1>2, GatheredInOne, AllGatheredInOne, BroadcastInOne DEF Immediate
  <2> QED BY <1>1, <2>1, <2>2
<1>3. CASE ~Immediate(c)
  <2>1. PICK m, got : /\ Left(c, r, m, got, n)
                      /\ m = (IF c.op \in OfTwoRounds THEN Going(c)[r] ELSE Start(c, r))
                      /\ got = (IF c.op \in OfTwoRounds THEN Brought(c, r, 2) ELSE Brought(c, r, 1))
    BY <1>1, <1>3, LastBrought
  <2>2. n.out = IF c.op = "reduce_in_place" /\ r # c.root THEN m.out ELSE got
    BY <2>1 DEF Left
  <2>3. CASE c.op = "reduce_in_place" /\ r # c.root
    <3>1. m = Start(c, r)
      BY <2>1, <2>3 DEF OfTwoRounds
    <3>2. m.out = Own(r, c.n[r])
      BY <2>3, <3>1, StartOut
    <3>3. Expected(c, r) = Own(r, c.n[r])
      BY <2>3, ReducedInOne
    <3> QED BY <1>1, <2>2, <2>3, <3>2, <3>3
  <2>4. CASE c.op \notin OfTwoRounds /\ ~(c.op = "reduce_in_place" /\ r # c.root)
    <3>1. n.out = Brought(c, r, 1)
      BY <2>1, <2>2, <2>4
    <3>2. c.op \in {"barrier", "broadcast", "reduce", "reduce_in_place", "reduce_value", "all_reduce",
                    "all_reduce_in_place", "all_reduce_value", "max", "min", "and", "or", "max_element",
                    "max_location", "max_location_other", "scatter_n", "scatter", "scatter_list", "gather", "gather_value",
                    "gatherv", "all_gather", "all_gather_value", "all_to_all_n", "all_to_all_in_place"}
      BY <1>3, <2>4 DEF Callable, OfOneValue, OfEqualNumbers, OfOtherNumbers, OfTwoRounds, Packed, Immediate
    <3>3. Brought(c, r, 1) = Expected(c, r)
      <4>1. CASE c.op = "barrier"
        BY <4>1, NothingInOne
      <4>2. CASE c.op = "broadcast"
        BY <4>2, BroadcastInOne
      <4>3. CASE c.op \in {"reduce", "reduce_in_place", "reduce_value"}
        BY <2>4, <4>3, ReducedInOne
      <4>4. CASE c.op \in {"all_reduce", "all_reduce_in_place", "all_reduce_value"}
        BY <4>4, SummedInOne
      <4>5. CASE c.op \in {"max", "min", "and", "or"}
        BY <4>5, ExtremaInOne
      <4>6. CASE c.op \in {"max_element", "max_location", "max_location_other"}
        BY <4>6, LargestInOne
      <4>7. CASE c.op \in {"scatter_n", "scatter", "scatter_list"}
        BY <4>7, ScatteredInOne
      <4>8. CASE c.op \in {"gather", "gather_value", "gatherv"}
        BY <4>8, GatheredInOne
      <4>9. CASE c.op \in {"all_gather", "all_gather_value"}
        BY <4>9, AllGatheredInOne
      <4>10. CASE c.op \in {"all_to_all_n", "all_to_all_in_place"}
        BY <4>10, ExchangedInOne
      <4> QED BY <3>2, <4>1, <4>2, <4>3, <4>4, <4>5, <4>6, <4>7, <4>8, <4>9, <4>10
    <3> QED BY <1>1, <3>1, <3>3
  <2>5. CASE c.op \in OfTwoRounds
    <3>1. n.out = Brought(c, r, 2)
      BY <2>1, <2>2, <2>5 DEF OfTwoRounds
    <3>2. Brought(c, r, 2) = Expected(c, r)
      <4>2. CASE c.op = "broadcast_value"
        BY <4>2, BroadcastInTwo
      <4>3. CASE c.op \in {"scatterv", "scatterv_n_from"}
        BY <4>3, ScatteredInTwo
      <4>4. CASE c.op \in {"all_gatherv", "all_gatherv_output"}
        <5>1. Brought(c, r, 2) = InRankOrder(OwnOf(c))
          BY <4>4, AllGatheredInTwo DEF Packed
        <5>2. Expected(c, r) = InRankOrder(OwnOf(c))
          BY <4>4 DEF Expected, OwnOf
        <5> QED BY <5>1, <5>2
      <4>5. CASE c.op = "gatherv_told"
        <5>1. PICK root : root = IF c.op = "gatherv_told" THEN 0 ELSE c.root
          OBVIOUS
        <5>2. /\ r = root => Brought(c, r, 2) = InRankOrder(IF c.op \in Packed THEN PackagesOf(c) ELSE OwnOf(c))
              /\ c.op = "gatherv_told" /\ r # root => Brought(c, r, 2) = <<>>
          BY <4>5, <5>1, GatheredInTwo
        <5>3. c.op \notin Packed /\ root = 0
          BY <4>5, <5>1 DEF Packed
        <5>4. Brought(c, r, 2) = IF r = 0 THEN InRankOrder(OwnOf(c)) ELSE <<>>
          BY <4>5, <5>2, <5>3
        <5>5. Expected(c, r) = IF r = 0 THEN InRankOrder(OwnOf(c)) ELSE <<>>
          BY <4>5 DEF Expected, OwnOf
        <5> QED BY <5>4, <5>5
      <4> QED BY <2>5, <4>2, <4>3, <4>4, <4>5 DEF OfTwoRounds, Packed
    <3> QED BY <1>1, <3>1, <3>2
  <2> QED BY <2>3, <2>4, <2>5
<1> QED BY <1>2, <1>3

\* Packages of equally many values hold the values of all ranks, and their number is told.
LEMMA PackagesHold ==
    ASSUME NEW c, Callable(c), NEW r \in Ranks, c.op \in Packed, \A q, p \in Ranks : c.n[q] = c.n[p]
    PROVE  /\ Reads(c, r) => /\ Expected(c, r) = InRankOrder(OwnOf(c))
                             /\ Found(c, Outcome(c, r))
           /\ ~Reads(c, r) => c.op = "gather_package"
           /\ Outcome(c, r).end = Len(Expected(c, r))
<1>1. PICK n : n = Outcome(c, r)
  OBVIOUS
<1>2. ~Immediate(c) /\ c.op \in OfTwoRounds
  BY DEF Immediate, Packed, OfTwoRounds
<1>3. PICK m, got : /\ Left(c, r, m, got, n)
                    /\ m = (IF c.op \in OfTwoRounds THEN Going(c)[r] ELSE Start(c, r))
                    /\ got = (IF c.op \in OfTwoRounds THEN Brought(c, r, 2) ELSE Brought(c, r, 1))
  BY <1>1, <1>2, LastBrought
<1>4. n.out = Brought(c, r, 2)
  BY <1>2, <1>3 DEF Left, Packed
<1>5. PICK k \in Nat : k = c.n[r]
  BY CallableIs
<1>6. \A q \in Ranks : c.n[q] = k
  BY <1>5
<1>8. CASE c.op = "all_gather_package" \/ r = c.root
  <2>1. n.end = k * Size
    <3>1. CASE c.op = "all_gather_package"
      BY <1>3, <1>5, <3>1 DEF Left
    <3>2. CASE c.op = "gather_package"
      BY <1>3, <1>5, <1>8, <3>2 DEF Left, AtRoot
    <3> QED BY <3>1, <3>2 DEF Packed
  <2>2. n.out = InRankOrder(PackagesOf(c))
    <3>1. CASE c.op = "all_gather_package"
      BY <1>4, <3>1, AllGatheredInTwo
    <3>2. CASE c.op = "gather_package"
      <4>1. PICK root : root = IF c.op = "gatherv_told" THEN 0 ELSE c.root
        OBVIOUS
      <4>2. r = root => Brought(c, r, 2) = InRankOrder(IF c.op \in Packed THEN PackagesOf(c) ELSE OwnOf(c))
        BY <3>2, <4>1, GatheredInTwo
      <4> QED BY <1>4, <1>8, <3>2, <4>1, <4>2
    <3> QED BY <3>1, <3>2 DEF Packed
  <2>3. Found(c, n) /\ Len(InRankOrder(OwnOf(c))) = k * Size
    BY <1>6, <2>1, <2>2, PackagesRead
  <2>4. Expected(c, r) = InRankOrder(OwnOf(c))
    <3>1. CASE c.op = "all_gather_package"
      BY <3>1 DEF Expected, OwnOf
    <3>2. CASE c.op = "gather_package"
      BY <1>8, <3>2 DEF Expected, OwnOf
    <3> QED BY <3>1, <3>2 DEF Packed
  <2>5. Reads(c, r)
    BY <1>8 DEF Reads, Packed
  <2> QED BY <1>1, <2>1, <2>3, <2>4, <2>5
<1>9. CASE c.op = "gather_package" /\ r # c.root
  <2>1. n.end = 0
    BY <1>3, <1>9 DEF Left, AtRoot
  <2>2. Expected(c, r) = <<>>
    BY <1>9 DEF Expected, OwnOf
  <2>4. ~Reads(c, r)
    BY <1>9 DEF Reads
  <2>5. Len(Expected(c, r)) = 0
    BY <2>2
  <2> QED BY <1>1, <1>9, <2>1, <2>4, <2>5
<1> QED BY <1>8, <1>9 DEF Packed

\* The position that a call is to return.
LEMMA EndOfIs ==
    ASSUME NEW c, NEW r, NEW e, e = EndOf(c, r)
    PROVE  /\ c.op = "max_element" => e = IF Expected(c, r)[1][2] = r THEN 1 ELSE 0
           /\ c.op = "scatterv_n_from" => e = AtRoot(c, r, Total(Sizes(c)))
           /\ c.op \in ReturnsEnd /\ (c.op = "reduce" => r = c.root) => e = Len(Expected(c, r))
           /\ c.op = "reduce" /\ r # c.root => e = 0
           /\ c.op \notin ReturnsEnd \cup {"max_element", "scatterv_n_from"} => e = 0
<1>1. ASSUME c.op = "max_element" PROVE e = IF Expected(c, r)[1][2] = r THEN 1 ELSE 0
  BY <1>1 DEF EndOf, ReturnsEnd
<1>2. ASSUME c.op = "scatterv_n_from" PROVE e = AtRoot(c, r, Total(Sizes(c)))
  BY <1>2 DEF EndOf, ReturnsEnd
<1>3. ASSUME c.op \in ReturnsEnd, c.op = "reduce" => r = c.root PROVE e = Len(Expected(c, r))
  BY <1>3 DEF EndOf, ReturnsEnd
<1>4. ASSUME c.op = "reduce", r # c.root PROVE e = 0
  BY <1>4 DEF EndOf, ReturnsEnd
<1>5. ASSUME c.op \notin ReturnsEnd \cup {"max_element", "scatterv_n_from"} PROVE e = 0
  BY <1>5 DEF EndOf
<1> QED BY <1>1, <1>2, <1>3, <1>4, <1>5

\* The position that a call of one collective returns.
LEMMA ReturnedEndIs ==
    ASSUME NEW c, NEW r, NEW m, NEW e, e = ReturnedEnd(c, r, m)
    PROVE  /\ c.op \in {"broadcast", "all_reduce"} => e = c.n[r]
           /\ c.op = "reduce" => e = AtRoot(c, r, c.n[r])
           /\ c.op = "gather" => e = AtRoot(c, r, Size * c.n[r])
           /\ c.op \in {"all_gather", "all_to_all_in_place"} => e = Size * c.n[r]
           /\ c.op \notin ReturnsEnd => e = 0
<1>1. ASSUME c.op \in {"broadcast", "all_reduce"} PROVE e = c.n[r]
  BY <1>1 DEF ReturnedEnd
<1>2. ASSUME c.op = "reduce" PROVE e = AtRoot(c, r, c.n[r])
  BY <1>2 DEF ReturnedEnd
<1>3. ASSUME c.op = "gather" PROVE e = AtRoot(c, r, Size * c.n[r])
  BY <1>3 DEF ReturnedEnd
<1>4. ASSUME c.op \in {"all_gather", "all_to_all_in_place"} PROVE e = Size * c.n[r]
  BY <1>4 DEF ReturnedEnd
<1>5. ASSUME c.op \notin ReturnsEnd PROVE e = 0
  BY <1>5 DEF ReturnedEnd, ReturnsEnd
<1> QED BY <1>1, <1>2, <1>3, <1>4, <1>5

\* The position is not touched before the last collective, where the call returns none.
LEMMA GoingEnd ==
    ASSUME NEW c, NEW r \in Ranks, c.op \in {"broadcast_value", "gatherv_told"}
    PROVE  Going(c)[r].end = 0
<1>1. PICK m : m = Start(c, r)
  OBVIOUS
<1>2. PICK got : got = Exchanged(c, r, Begun(c))
  OBVIOUS
<1>3. IsMemory(m) /\ m.step = 1 /\ m.end = 0
  BY <1>1, StartIs, StartIsMemory
<1>4. Going(c)[r] = AfterOperation(c, r, m, got)
  BY <1>1, <1>2, GoingOn
<1>5. CASE c.op = "broadcast_value"
  <2>1. PICK sizes, out : sizes = Counts(got) /\ out = Resized(m.out, got[1][1])
    OBVIOUS
  <2>2. AfterOperation(c, r, m, got) = BroadcastValueAfter(c, r, m, got)
    BY <1>5 DEF AfterOperation
  <2>3. BroadcastValueAfter(c, r, m, got) = [m EXCEPT !.step = 2, !.sizes = sizes, !.out = out]
    BY <1>3, <2>1 DEF BroadcastValueAfter
  <2> QED BY <1>3, <1>4, <2>2, <2>3, MemoryChanges
<1>6. CASE c.op = "gatherv_told"
  <2>1. PICK sizes, displs : sizes = Counts(got) /\ displs = PartialSums(Counts(got), Size + 1)
    OBVIOUS
  <2>2. AfterOperation(c, r, m, got) = GathervToldAfter(c, r, m, got)
    BY <1>6 DEF AfterOperation
  <2>3. GathervToldAfter(c, r, m, got) = [m EXCEPT !.step = 2, !.sizes = sizes, !.displs = displs]
    BY <1>3, <2>1 DEF GathervToldAfter
  <2> QED BY <1>3, <1>4, <2>2, <2>3, MemoryChanges
<1> QED BY <1>5, <1>6

\* The calls that return the end of what they write, or another position that is theirs: not
\* scatter_n, which returns the end of the values it sends, and all_to_all_n, which returns
\* the end of those for one rank.
ReturnsItsEnd(c) == c.op \notin {"scatter_n", "all_to_all_n", "all_to_all"}

\* The position, by the number of elements that each call is to write.
LEMMA NumbersWritten ==
    ASSUME NEW c, Callable(c), NEW r \in Ranks, NEW k, k = Len(Expected(c, r))
    PROVE  /\ c.op \in {"broadcast", "all_reduce", "scatterv"} => k = c.n[r]
           /\ c.op = "reduce" /\ r = c.root => k = c.n[r]
           /\ c.op = "gather" => k = AtRoot(c, r, Size * c.n[r])
           /\ c.op \in {"all_gather", "all_to_all_in_place"} => k = Size * c.n[r]
           /\ c.op = "scatter_list" => k = 1
           /\ c.op \in {"all_gatherv", "all_gatherv_output"} => k = Total(Sizes(c))
<1>1. PICK n \in Nat : n = c.n[r]
  BY CallableIs
<1>2. Len(InRankOrder(OwnOf(c))) = Total(Listed(c.n))
  <2>1. Arrays(OwnOf(c), c.n, Pairs)
    BY OwnArrays
  <2> QED BY <2>1, InRankOrderIs
<1>3. ASSUME c.op \in {"gather", "all_gather"} PROVE Total(Listed(c.n)) = Size * n
  <2>1. c.op \in OfOneValue \cup OfEqualNumbers
    BY <1>3 DEF OfEqualNumbers
  <2> QED BY <1>1, <2>1, OneNumber
<1>4. Len(SumOf(n)) = n
  BY <1>1 DEF SumOf
<1>5. CASE c.op \in {"broadcast"}
  BY <1>5, BroadcastInOne
<1>6. CASE c.op = "scatterv"
  BY <1>6, ScatteredInTwo
<1>7. CASE c.op = "all_reduce"
  <2>1. Expected(c, r) = SumOf(n)
    BY <1>1, <1>7 DEF Expected, SumOf
  <2> QED BY <1>1, <1>4, <1>7, <2>1
<1>8. CASE c.op = "reduce"
  <2>1. r = c.root => Expected(c, r) = SumOf(n)
    BY <1>1, <1>8 DEF Expected, SumOf
  <2> QED BY <1>1, <1>4, <1>8, <2>1
<1>9. CASE c.op = "gather"
  <2>1. Expected(c, r) = IF r = c.root THEN InRankOrder(OwnOf(c)) ELSE <<>>
    BY <1>9 DEF Expected, OwnOf
  <2>2. r = c.root => k = Size * n
    BY <1>2, <1>3, <1>9, <2>1
  <2>3. r # c.root => k = 0
    BY <2>1
  <2> QED BY <1>1, <1>9, <2>2, <2>3 DEF AtRoot
<1>10. CASE c.op = "all_gather"
  <2>1. Expected(c, r) = InRankOrder(OwnOf(c))
    BY <1>10 DEF Expected, OwnOf
  <2> QED BY <1>1, <1>2, <1>3, <1>10, <2>1
<1>11. CASE c.op = "all_to_all_in_place"
  BY <1>11, ExchangedInOne
<1>12. CASE c.op = "scatter_list"
  <2>1. Expected(c, r) = <<<<c.root, r + 1>>>>
    BY <1>12 DEF Expected
  <2> QED BY <1>12, <2>1
<1>13. CASE c.op \in {"all_gatherv", "all_gatherv_output"}
  <2>1. Expected(c, r) = InRankOrder(OwnOf(c))
    BY <1>13 DEF Expected, OwnOf
  <2> QED BY <1>2, <1>13, <2>1, SizesAre
<1> QED BY <1>5, <1>6, <1>7, <1>8, <1>9, <1>10, <1>11, <1>12, <1>13

\* The displacement of the last rank and its number make the number of them all.
LEMMA LastPlace ==
    ASSUME NEW told \in [Ranks -> Nat], NEW list, list = Listed(told), NEW room \in {Size, Size + 1}
    PROVE  PartialSums(list, room)[Size] + list[Size] = Total(list)
<1>1. PICK q \in Ranks : q + 1 = Size /\ q = Size - 1
  <2>1. Size \in 1 .. Size
    BY RanksAre
  <2> QED BY <2>1, RanksAre
<1>2. PartialSums(list, room)[q + 1] = Sums(list)[q]
  BY NumbersAre
<1>3. list[q + 1] = told[q]
  BY ListedIs
<1>4. Sums(list)[q + 1] = Sums(list)[q] + told[q] /\ Total(list) = Sums(list)[Size]
  BY NumbersAre
<1> QED BY <1>1, <1>2, <1>3, <1>4

\* A call returns the position that it is to.
LEMMA PositionReturned ==
    ASSUME NEW c, Callable(c), ReturnsItsEnd(c), NEW r \in Ranks, c.op \notin Packed
    PROVE  Outcome(c, r).end = EndOf(c, r)
<1>1. PICK n : n = Outcome(c, r)
  OBVIOUS
<1>2. PICK e : e = EndOf(c, r)
  OBVIOUS
<1>3. PICK k : k = Len(Expected(c, r))
  OBVIOUS
<1>4. CASE Immediate(c)
  <2>1. n.end = 0
    BY <1>1, <1>4, OutcomeAtOnce
  <2>2. c.op \notin ReturnsEnd \cup {"max_element", "scatterv_n_from"}
    BY <1>4 DEF Immediate, ReturnsEnd
  <2>3. e = 0
    BY <1>2, <2>2, EndOfIs
  <2> QED BY <1>1, <1>2, <2>1, <2>3
<1>5. CASE ~Immediate(c)
  <2>1. PICK m, got : /\ Left(c, r, m, got, n)
                      /\ m = (IF c.op \in OfTwoRounds THEN Going(c)[r] ELSE Start(c, r))
                      /\ got = (IF c.op \in OfTwoRounds THEN Brought(c, r, 2) ELSE Brought(c, r, 1))
    BY <1>1, <1>5, LastBrought
  <2>2. CASE c.op \in {"broadcast_value", "gatherv_told"}
    <3>1. ~PlainAfter(c, r)
      BY <2>2 DEF PlainAfter, OfTwoRounds
    <3>2. n.end = m.end
      BY <2>1, <2>2, <3>1 DEF Left
    <3>3. m.end = 0
      BY <2>1, <2>2, GoingEnd DEF OfTwoRounds
    <3>4. c.op \notin ReturnsEnd \cup {"max_element", "scatterv_n_from"}
      BY <2>2 DEF ReturnsEnd
    <3> QED BY <1>1, <1>2, <3>2, <3>3, <3>4, EndOfIs
  <2>3. CASE c.op = "scatterv"
    <3>1. n.end = m.sizes[1]
      BY <2>1, <2>3 DEF Left
    <3>2. m = Going(c)[r]
      BY <2>1, <2>3 DEF OfTwoRounds
    <3>3. m.sizes[1] = c.n[r]
      BY <2>3, <3>2, ScattervGoing
    <3>4. k = c.n[r]
      BY <1>3, <2>3, NumbersWritten
    <3>5. e = k
      BY <1>2, <1>3, <2>3, EndOfIs DEF ReturnsEnd
    <3> QED BY <1>1, <1>2, <3>1, <3>3, <3>4, <3>5
  <2>4. CASE c.op \in {"scatterv_n_from", "all_gatherv"}
    <3>1. PICK told \in [Ranks -> Nat] : told = Told(c) /\ told = c.n
      BY <2>4, ToldIs DEF Packed
    <3>2. PICK list : list = Listed(told) /\ list = Sizes(c)
      BY <3>1, SizesAre
    <3>3. PICK room \in {Size, Size + 1} : room = Room(c)
      BY DEF Room
    <3>4. m = Going(c)[r]
      BY <2>1, <2>4 DEF OfTwoRounds
    <3>5. c.op \in TellAll \cup TellRoot
      BY <2>4 DEF TellAll, TellRoot
    <3>6. c.op = "all_gatherv" \/ r = c.root => m.sizes = list /\ m.displs = PartialSums(list, room)
      <4>1. c.op \in TellAll \/ r = c.root => m.sizes = Listed(Told(c)) /\ m.displs = PartialSums(Listed(Told(c)), Room(c))
        BY <3>4, <3>5, GoingTold
      <4>2. c.op = "all_gatherv" => c.op \in TellAll
        BY DEF TellAll
      <4> QED BY <3>1, <3>2, <3>3, <4>1, <4>2
    <3>7. c.op = "all_gatherv" \/ r = c.root => m.displs[Size] + m.sizes[Size] = Total(list)
      BY <3>2, <3>6, LastPlace
    <3>8. CASE c.op = "all_gatherv"
      <4>1. n.end = Total(list)
        BY <2>1, <3>7, <3>8 DEF Left
      <4>2. k = Total(list)
        BY <1>3, <3>2, <3>8, NumbersWritten
      <4>3. e = k
        BY <1>2, <1>3, <3>8, EndOfIs DEF ReturnsEnd
      <4> QED BY <1>1, <1>2, <4>1, <4>2, <4>3
    <3>9. CASE c.op = "scatterv_n_from"
      <4>1. n.end = AtRoot(c, r, m.displs[Size] + m.sizes[Size])
        BY <2>1, <3>9 DEF Left
      <4>2. e = AtRoot(c, r, Total(list))
        BY <1>2, <3>2, <3>9, EndOfIs
      <4>3. n.end = AtRoot(c, r, Total(list))
        BY <3>7, <4>1 DEF AtRoot
      <4> QED BY <1>1, <1>2, <4>2, <4>3
    <3> QED BY <2>4, <3>8, <3>9
  <2>5. CASE c.op = "all_gatherv_output"
    <3>1. n.end = Len(got)
      BY <2>1, <2>5 DEF Left
    <3>2. n.out = got
      BY <2>1, <2>5 DEF Left
    <3>3. n.out = Expected(c, r)
      BY <1>1, <2>5, DestinationHolds DEF Packed
    <3>4. e = k
      BY <1>2, <1>3, <2>5, EndOfIs DEF ReturnsEnd
    <3> QED BY <1>1, <1>2, <1>3, <3>1, <3>2, <3>3, <3>4
  <2>6. CASE c.op = "max_element"
    <3>1. n.end = IF got[1][2] = r THEN 1 ELSE 0
      BY <2>1, <2>6 DEF Left
    <3>2. n.out = got
      BY <2>1, <2>6 DEF Left
    <3>3. n.out = Expected(c, r)
      BY <1>1, <2>6, DestinationHolds DEF Packed
    <3>4. e = IF Expected(c, r)[1][2] = r THEN 1 ELSE 0
      BY <1>2, <2>6, EndOfIs
    <3> QED BY <1>1, <1>2, <3>1, <3>2, <3>3, <3>4
  <2>7. CASE c.op = "scatter_list"
    <3>1. n.end = 1
      BY <2>1, <2>7 DEF Left
    <3>2. k = 1
      BY <1>3, <2>7, NumbersWritten
    <3>3. e = k
      BY <1>2, <1>3, <2>7, EndOfIs DEF ReturnsEnd
    <3> QED BY <1>1, <1>2, <3>1, <3>2, <3>3
  <2>8. CASE c.op = "reduce_in_place" /\ r # c.root
    <3>1. ~PlainAfter(c, r)
      BY <2>8 DEF PlainAfter
    <3>2. n.end = m.end
      BY <2>1, <2>8, <3>1 DEF Left
    <3>3. m = Start(c, r)
      BY <2>1, <2>8 DEF OfTwoRounds
    <3>4. m.end = 0
      BY <3>3, StartIs
    <3>5. c.op \notin ReturnsEnd \cup {"max_element", "scatterv_n_from"}
      BY <2>8 DEF ReturnsEnd
    <3> QED BY <1>1, <1>2, <3>2, <3>4, <3>5, EndOfIs
  <2>9. CASE PlainAfter(c, r)
    <3>1. PICK p : p = ReturnedEnd(c, r, m) /\ p = n.end
      BY <2>1, <2>9 DEF Left
    <3>2. CASE c.op \notin ReturnsEnd
      <4>1. p = 0
        BY <3>1, <3>2, ReturnedEndIs
      <4>2. c.op \notin ReturnsEnd \cup {"max_element", "scatterv_n_from"}
        BY <2>9, <3>2 DEF PlainAfter, OfTwoRounds
      <4>3. e = 0
        BY <1>2, <4>2, EndOfIs
      <4> QED BY <1>1, <1>2, <3>1, <4>1, <4>3
    <3>3. CASE c.op \in ReturnsEnd
      <4>1. c.op \in {"broadcast", "reduce", "all_reduce", "gather", "all_gather", "all_to_all_in_place"}
        BY <2>9, <3>3 DEF PlainAfter, OfTwoRounds, ReturnsEnd, ReturnsItsEnd
      <4>2. c.op # "reduce" \/ r = c.root => e = k
        BY <1>2, <1>3, <3>3, EndOfIs
      <4>3. CASE c.op \in {"broadcast", "all_reduce"}
        <5>1. p = c.n[r]
          BY <3>1, <4>3, ReturnedEndIs
        <5>2. k = c.n[r]
          BY <1>3, <4>3, NumbersWritten
        <5> QED BY <1>1, <1>2, <3>1, <4>2, <4>3, <5>1, <5>2
      <4>4. CASE c.op = "reduce"
        <5>1. p = AtRoot(c, r, c.n[r])
          BY <3>1, <4>4, ReturnedEndIs
        <5>2. r = c.root => k = c.n[r]
          BY <1>3, <4>4, NumbersWritten
        <5>3. r # c.root => e = 0
          BY <1>2, <4>4, EndOfIs
        <5> QED BY <1>1, <1>2, <3>1, <4>2, <4>4, <5>1, <5>2, <5>3 DEF AtRoot
      <4>5. CASE c.op = "gather"
        <5>1. p = AtRoot(c, r, Size * c.n[r])
          BY <3>1, <4>5, ReturnedEndIs
        <5>2. k = AtRoot(c, r, Size * c.n[r])
          BY <1>3, <4>5, NumbersWritten
        <5> QED BY <1>1, <1>2, <3>1, <4>2, <4>5, <5>1, <5>2
      <4>6. CASE c.op \in {"all_gather", "all_to_all_in_place"}
        <5>1. p = Size * c.n[r]
          BY <3>1, <4>6, ReturnedEndIs
        <5>2. k = Size * c.n[r]
          BY <1>3, <4>6, NumbersWritten
        <5> QED BY <1>1, <1>2, <3>1, <4>2, <4>6, <5>1, <5>2
      <4> QED BY <4>1, <4>3, <4>4, <4>5, <4>6
    <3> QED BY <3>2, <3>3
  <2> QED BY <2>2, <2>3, <2>4, <2>5, <2>6, <2>7, <2>8, <2>9 DEF PlainAfter, OfTwoRounds, Packed
<1> QED BY <1>4, <1>5

\* What the invariant says of one result.
Promised(c, r, m) ==
    /\ IF ~Reads(c, r) THEN c.op = "gather_package" \/ m.out = Expected(c, r)
       ELSE IF Expected(c, r) = <<>> THEN Overruns(m.out, Reading(m))
       ELSE Reading(m).value = AsText(Expected(c, r))
    /\ m.end = EndOf(c, r)

\* The calls that keep their promise.  The packages of gather_n and all_gather_n are read
\* with as many values for every rank as the reader has; all_to_all exchanges size() values
\* with each rank, and is given the position behind size() of them.
KeepsPromise(c) == ReturnsItsEnd(c) /\ (c.op \in Packed => \A r, q \in Ranks : c.n[r] = c.n[q])

LEMMA PromiseKept ==
    ASSUME NEW c, Callable(c), KeepsPromise(c), NEW r \in Ranks
    PROVE  Promised(c, r, Outcome(c, r))
<1>1. PICK n : n = Outcome(c, r)
  OBVIOUS
<1>2. CASE c.op \in Packed
  <2>1. /\ Reads(c, r) => Expected(c, r) = InRankOrder(OwnOf(c)) /\ Found(c, n)
        /\ ~Reads(c, r) => c.op = "gather_package"
        /\ n.end = Len(Expected(c, r))
    BY <1>1, <1>2, PackagesHold DEF KeepsPromise
  <2>2. EndOf(c, r) = Len(Expected(c, r))
    BY <1>2, EndOfIs DEF Packed, ReturnsEnd
  <2>3. CASE Reads(c, r)
    BY <1>1, <2>1, <2>2, <2>3 DEF Promised, Found
  <2>4. CASE ~Reads(c, r)
    BY <1>1, <2>1, <2>2, <2>4 DEF Promised
  <2> QED BY <2>3, <2>4
<1>3. CASE c.op \notin Packed
  <2>1. n.out = Expected(c, r)
    BY <1>1, <1>3, DestinationHolds DEF KeepsPromise, ReturnsItsEnd
  <2>2. ~Reads(c, r)
    BY <1>3 DEF Reads, Packed
  <2>3. n.end = EndOf(c, r)
    BY <1>1, <1>3, PositionReturned DEF KeepsPromise
  <2> QED BY <1>1, <2>1, <2>2, <2>3 DEF Promised
<1> QED BY <1>2, <1>3

\* Of programs of these calls, each has, on every rank and however far the others are, the
\* result it is documented to have, in the order of the ranks, and returns its end.
THEOREM ResultsInOrderAlways ==
    ASSUME \A p \in Programs : \A i \in DOMAIN p : KeepsPromise(p[i])
    PROVE  Spec => []ResultsInOrder
<1>1. CInv => ResultsInOrder
  <2>1. SUFFICES ASSUME CInv PROVE ResultsInOrder
    OBVIOUS
  <2>2. ASSUME NEW r \in Ranks, NEW i \in DOMAIN results[r] PROVE Promised(program[i], r, results[r][i])
    <3>1. i \in 1 .. Len(program) /\ results[r][i] = Outcome(program[i], r)
      BY <2>1 DEF CInv, Remembered
    <3>2. program \in Programs
      BY <2>1 DEF CInv, Shape
    <3>3. PICK c : c = program[i] /\ Callable(c) /\ KeepsPromise(c)
      BY <3>1, <3>2, ProgramIs
    <3> QED BY <3>1, <3>3, PromiseKept
  <2> QED BY <2>2 DEF ResultsInOrder, Promised, Packed
<1> QED BY <1>1, RanksFollowTheProgram, PTL

=============================================================================
