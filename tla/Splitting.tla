------------------------------- MODULE Splitting -------------------------------
(***************************************************************************)
(* Communicators split again and again (communicator.hpp), made of groups  *)
(* (group.hpp), and arranged as grids that are cut into axes, planes and   *)
(* hyperplanes (cartesian_communicator.hpp).  All processes make the same calls, each  *)
(* on the communicator it holds, as in test/communicator_split.cpp and     *)
(* test/cartesian.cpp.  A communicator is the sequence of its members;     *)
(* one with a grid has an extent and a period for each dimension.          *)
(***************************************************************************)
EXTENDS Divisions, Groups

CONSTANTS
    MaxSize,     \* bound: processes of the world
    Arguments,   \* numbers that the program divides and compares by
    Shapes,      \* extents it asks a grid to have, 0 where MPI may choose
    Offsets      \* displacements of a shift

ASSUME ArgumentAssumption ==
    /\ MaxSize \in Nat \ {0} /\ Arguments \subseteq Nat \ {0}
    /\ Shapes \subseteq Seq(Nat) /\ Offsets \subseteq Int

VARIABLES
    comm,      \* the communicator each process holds
    parent,    \* the one it held before the last call
    last       \* the last call and its argument

vars == <<comm, parent, last>>

Processes == DOMAIN comm
NoProcess == -1

Plain(members) == [members |-> members, dims |-> <<>>, periods |-> <<>>]
Empty == Plain(<<>>)

Init ==
    /\ \E size \in 1 .. MaxSize :
          comm = [p \in 1 .. size |-> Plain([i \in 1 .. size |-> i])]
    /\ parent = comm
    /\ last = [call |-> "none", arg |-> 0]
-----------------------------------------------------------------------------
(* Members and ranks.                                                      *)

Holds(p) == comm[p] # Empty
Members(p) == ToSet(comm[p].members)
Size(p) == Len(comm[p].members)
RankIn(c, p) == CHOOSE r \in 0 .. Len(c.members) - 1 : c.members[r + 1] = p
Rank(p) == RankIn(comm[p], p)

Holders == {p \in Processes : Holds(p)}
Ranks == [p \in Holders |-> Rank(p)]

Processed(call, arg) == parent' = comm /\ last' = [call |-> call, arg |-> arg]

\* The elements of S by rising keys, those with the same key by their ranks.
Ordered(S, key) ==
    LET Before(q, s) == key[q] < key[s] \/ (key[q] = key[s] /\ Rank(q) < Rank(s))
    IN  InOrder(S, [q \in S |-> {s \in S : Before(s, q)}])

\* MPI_Comm_split: the members of p's color, in the order of their keys.
SplitOff(p, color, key) ==
    IF ~Holds(p) \/ color[p] = Undefined THEN Empty
    ELSE Plain(Ordered({q \in Members(p) : color[q] = color[p]}, key))

\* split(color): the key is the rank.
Split(color) == comm' = [p \in Processes |-> SplitOff(p, color, Ranks)]
-----------------------------------------------------------------------------
(* Splits.                                                                 *)

Divide(n) == Split([p \in Holders |-> Slash(Size(p), Rank(p), n)]) /\ Processed("divide", n)

\* divide_low is called by its name too.
Lower(n) == Split([p \in Holders |-> DivideLow(Size(p), Rank(p), n)]) /\ Processed("divide", n)

Interleave2(n) == Split([p \in Holders |-> Percent(Rank(p), n)]) /\ Processed("%", n)
Even(n) == Split([p \in Holders |-> DivideEven(Rank(p), n)]) /\ Processed("even", n)
Select(op, n) == Split([p \in Holders |-> Compare(op, Rank(p), n)]) /\ Processed(op, n)

\* reversed(): one color, and keys that fall as the ranks rise.
Reversed ==
    /\ comm' = [p \in Processes |->
                  SplitOff(p, [q \in Holders |-> 0], [q \in Holders |-> Size(q) - Rank(q)])]
    /\ Processed("reverse", 0)

\* subcomm(v): the members whose ranks v lists, in the order of v.
Subcomm(v) ==
    /\ \A p \in Processes : Holds(p) => ToSet(v) \subseteq 0 .. Size(p) - 1
    /\ comm' = [p \in Processes |->
                  IF Holds(p) /\ Rank(p) \in ToSet(v)
                  THEN Plain([i \in DOMAIN v |-> comm[p].members[v[i] + 1]]) ELSE Empty]
    /\ Processed("subcomm", 0)

\* The communicators of world/n, for every process.
Division(n) == [p \in Processes |->
    SplitOff(p, [q \in Holders |-> Slash(Size(q), Rank(q), n)], Ranks)]

\* keep((world/n).root()): the communicator of the leaders.
Leaders(n) ==
    LET groups == Division(n)
    IN  /\ Split([p \in Holders |-> IF RankIn(groups[p], p) = 0 THEN 0 ELSE Undefined])
        /\ Processed("leaders", n)
-----------------------------------------------------------------------------
(* Communicators of groups.                                                *)

\* create(g), and the constructor from a communicator and a group: the processes of
\* one group make the communicator of its members, in their order.
Create(group) ==
    comm' = [p \in Processes |->
               IF Holds(p) /\ p \in ToSet(group[p]) THEN Plain(group[p]) ELSE Empty]

\* The group of those that compare true with rank n, by operations on groups.
Comparing(op, n, g) ==
    CASE op = "<"  -> Sliced(g, 0, n, 1)
      [] op = "<=" -> Include(g, [i \in 1 .. n + 1 |-> i - 1])
      [] op = ">"  -> Exclude(g, [i \in 1 .. n + 1 |-> i - 1])
      [] op = ">=" -> Difference(g, Sliced(g, 0, n, 1))
      [] op = "==" -> Intersection(Sliced(g, n, Len(g), 1), Sliced(g, 0, n + 1, 1))

\* The same selection as Select, made by a group (test/group_operations.cpp).
SelectGroup(op, n) ==
    /\ \A p \in Processes : Holds(p) => n < Size(p)
    /\ Create([p \in Holders |-> Comparing(op, n, comm[p].members)])
    /\ Processed(op, n)

\* Interleave2 by groups: each process makes the group of its residue.
StrideGroup(n) ==
    /\ \A p \in Processes : Holds(p) => n <= Size(p)
    /\ Create([p \in Holders |-> Sliced(comm[p].members, Rank(p) % n, Size(p), n)])
    /\ Processed("%", n)
-----------------------------------------------------------------------------
(* Grids.                                                                  *)

Product(s) ==
    LET product[k \in 0 .. Len(s)] == IF k = 0 THEN 1 ELSE product[k - 1] * s[k]
    IN  product[Len(s)]

\* MPI's order of the ranks in a grid: the last coordinate moves first.
Coordinates(c, p) ==
    [i \in DOMAIN c.dims |->
        (RankIn(c, p) \div Product(SubSeq(c.dims, i + 1, Len(c.dims)))) % c.dims[i]]
CartRank(c, coords) ==
    LET rank[k \in 0 .. Len(c.dims)] ==
            IF k = 0 THEN 0 ELSE rank[k - 1] * c.dims[k] + (coords[k] % c.dims[k])
    IN  rank[Len(c.dims)]

\* division(): extents that MPI_Dims_create makes of those suggested, as even as
\* can be and in falling order; none if their product cannot be the size.
Divisors(size, shape) ==
    {d \in [DOMAIN shape -> 1 .. size] :
        /\ Product(d) = size
        /\ \A i \in DOMAIN shape : shape[i] \in {0, d[i]}
        /\ \A i, j \in DOMAIN shape : i < j /\ shape[i] = 0 /\ shape[j] = 0 => d[i] >= d[j]}
DimsCreate(size, shape) ==
    CHOOSE d \in Divisors(size, shape) :
        \A e \in Divisors(size, shape) : Product([i \in DOMAIN d |-> d[i] + 1])
                                         <= Product([i \in DOMAIN e |-> e[i] + 1])

\* MPI_Cart_create, asked to reorder the ranks as it likes: the first processes take
\* the places, those that are left over get the null communicator.
Arranged(p, dims, periods, reorder) ==
    LET placed == SubSeq(comm[p].members, 1, Product(dims))
    IN  IF ~Holds(p) \/ p \notin ToSet(placed) THEN Empty
        ELSE [members |-> IF reorder THEN Reverse(placed) ELSE placed,
              dims |-> dims, periods |-> periods]

\* The constructor with as many dimensions as its type says, from extents and periods.
Cartesian(shape, periods) ==
    /\ \A p \in Processes : Holds(p) => Divisors(Size(p), shape) # {}
    /\ \E reorder \in BOOLEAN :
          comm' = [p \in Processes |->
                     IF Holds(p) THEN Arranged(p, DimsCreate(Size(p), shape), periods, reorder)
                     ELSE Empty]
    /\ Processed("grid", {})

\* The one with any number of dimensions, whose extents are taken as they are.
CartesianOf(dims, periods) ==
    /\ 0 \notin ToSet(dims)
    /\ \A p \in Processes : Holds(p) => Product(dims) <= Size(p)
    /\ \E reorder \in BOOLEAN :
          comm' = [p \in Processes |-> Arranged(p, dims, periods, reorder)]
    /\ Processed("grid", {})

\* circular_communicator: one periodic dimension.
Ring == Cartesian(<<0>>, <<TRUE>>)

Dimensions(p) == DOMAIN comm[p].dims
Remaining(s, remains) == [k \in DOMAIN remains |-> s[remains[k]]]

\* topology(): extents, periods and the coordinates of the caller.
Topology(c, p) ==
    [dimensions |-> c.dims, periods |-> c.periods, coordinates |-> Coordinates(c, p)]

\* MPI_Cart_sub: the members that agree with p in the other coordinates.  The
\* dimensions that remain are given in rising order.
SubGrid(p, remains) ==
    LET c == comm[p]
        others == DOMAIN c.dims \ ToSet(remains)
        kept == {q \in Members(p) : \A i \in others : Coordinates(c, q)[i] = Coordinates(c, p)[i]}
    IN  IF ~Holds(p) THEN Empty
        ELSE [members |-> Ordered(kept, Ranks),
              dims    |-> Remaining(c.dims, remains),
              periods |-> Remaining(c.periods, remains)]

Dim == UNION {Dimensions(p) : p \in Processes}
Sorted(S) == InOrder(S, [k \in S |-> {j \in S : j < k}])

\* Cut for the dimensions in cut, as if for those in asked.
Cut(cut, asked) ==
    /\ Dim # {} /\ asked \subseteq Dim
    /\ comm' = [p \in Processes |-> SubGrid(p, Sorted(cut))]
    /\ Processed("cut", asked)

\* sub(remain_dims), the sub-grid of any of the dimensions; sub() is without the first.
Sub(remains) == Cut(remains, remains)

\* axis(d), and axis<d>() as a ring: dimension d alone.
Axis(d) == Cut({d}, {d})

\* plane(d1, d2), with d1 < d2; plane() is that of the first two dimensions.
Plane(d1, d2) == d1 < d2 /\ Cut({d1, d2}, {d1, d2})

\* Mutant: the dimension is kept and not cut.
HyperplaneAxis(d) == Cut({d}, Dim \ {d})

\* hyperplane(d): all dimensions but d.
Hyperplane(d) == Cut(Dim \ {d}, Dim \ {d})

\* shift<direction>(displacement): whom a process receives from and sends to.
Displaced(c, p, d, displacement) ==
    LET coords == Coordinates(c, p)
        moved == coords[d] + displacement
    IN  IF c.periods[d] \/ moved \in 0 .. c.dims[d] - 1
        THEN CartRank(c, [coords EXCEPT ![d] = moved]) ELSE NoProcess

Shift(c, p, d, displacement) ==
    [source |-> Displaced(c, p, d, -displacement), dest |-> Displaced(c, p, d, displacement)]

\* rotate and unrotate of a ring: the pair of shift is the destination and the source
\* of send_receive, so that values move against the direction shift is asked for.
Exchanged(c, p, displacement) ==
    LET pair == Shift(c, p, 1, displacement) IN [dest |-> pair.source, source |-> pair.dest]
Carried(c, value, route) ==
    [p \in DOMAIN value |-> LET from == route[p].source
                            IN  IF from = NoProcess THEN value[p] ELSE value[c.members[from + 1]]]
Rotate(c, value, displacement) ==
    Carried(c, value, [p \in DOMAIN value |-> Exchanged(c, p, -displacement)])
Unrotate(c, value, displacement) ==
    Carried(c, value, [p \in DOMAIN value |-> Exchanged(c, p, displacement)])
-----------------------------------------------------------------------------
\* The processes of one of the new communicators go on with it, under new names.
GoOn(p) ==
    /\ last.call # "none" /\ Holds(p)
    /\ LET c == [comm[p] EXCEPT !.members = [i \in 1 .. Size(p) |-> i]]
       IN  comm' = [q \in 1 .. Size(p) |-> c] /\ parent' = comm'
    /\ last' = [call |-> "none", arg |-> 0]

Comparisons == {"<", "<=", ">", ">=", "=="}

Next ==
    \/ \E p \in Processes : GoOn(p)
    \/ /\ last.call = "none"
       /\ \/ \E n \in Arguments :
                \/ Divide(n) \/ Lower(n) \/ Interleave2(n) \/ Even(n) \/ Leaders(n)
                \/ StrideGroup(n)
                \/ \E op \in Comparisons : Select(op, n) \/ SelectGroup(op, n)
          \/ Reversed \/ Subcomm(<<1, 0>>) \/ Ring
          \/ \E shape \in Shapes : \E periods \in [DOMAIN shape -> BOOLEAN] :
                Cartesian(shape, periods) \/ CartesianOf(shape, periods)
          \/ \E d \in Dim : Axis(d) \/ Hyperplane(d) \/ \E e \in Dim : Plane(d, e)
          \/ \E remains \in SUBSET Dim : Sub(remains)

Spec == Init /\ [][Next]_vars
-----------------------------------------------------------------------------
(* Properties                                                              *)

\* Each group is a block of neighbouring ranks of the whole, in their order, the groups'
\* sizes differ by one at most, and there are n of them if there are ranks enough.
Divided(whole, groups, n) ==
    /\ \A g \in groups : \E first \in 0 .. Len(whole) - Len(g) :
          \A i \in DOMAIN g : g[i] = whole[first + i]
    /\ \A g, h \in groups : Len(g) - Len(h) \in {-1, 0, 1}
    /\ Cardinality(groups) = IF n < Len(whole) THEN n ELSE Len(whole)

\* divide_low and divide_high, of a communicator of any size that splits lead to, make
\* blocks as even as can be.
DivisionsAreBlocks ==
    last.call = "divide" =>
    \A p \in Processes : parent[p] # Empty =>
        Divided(parent[p].members, {comm[q].members : q \in ToSet(parent[p].members)}, last.arg)

\* test/communicator_split.cpp: the leaders are the roots of the groups; the
\* leader of group i has rank i among them, so that what leaders exchange can be
\* told by the color of their group.
LeadersFollowGroups ==
    last.call = "leaders" =>
    \A p \in Processes : parent[p] # Empty =>
        LET size == Len(parent[p].members)
            color == Slash(size, RankIn(parent[p], p), last.arg)
            root == parent[p].members[HighFirst(size, last.arg, color) + 1]
        IN  p = root <=> Holds(p) /\ Rank(p) = color

\* The members of c whose ranks a call chooses, for p.
ChosenIn(c, p, call, n) ==
    {q \in ToSet(c.members) :
        IF call = "%" THEN Percent(RankIn(c, q), n) = Percent(RankIn(c, p), n)
        ELSE Compare(call, RankIn(c, q), n) = 0}

\* new has those that are chosen of old, in their order, and translate_rank tells the
\* rank that each had; they and the rest of the old group make up the old one, in its
\* order if they are its beginning (test/group_operations.cpp: "order matters").
SelectedFrom(old, new, p, chosen, call) ==
    LET g == old.members
        h == new.members
    IN  /\ ToSet(h) = chosen
        /\ TranslateRank(h, RankIn(new, p), g) = RankIn(old, p)
        /\ \A i, j \in DOMAIN h :
              i < j => TranslateRank(h, i - 1, g) < TranslateRank(h, j - 1, g)
        /\ IsPermutation(SetUnion(h, Difference(g, h)), g)
        /\ call \in {"<", "<="} => SameGroup(SetUnion(h, Difference(g, h)), g)

\* Ranks chosen by comparing them or by their residues, whether by the colors of a
\* split or by operations on groups: a process is a member if its rank is chosen, and
\* the members are those that are chosen.
GroupsSelectRanks ==
    last.call \in Comparisons \cup {"%"} =>
    \A p \in Processes : parent[p] # Empty =>
        LET chosen == ChosenIn(parent[p], p, last.call, last.arg)
        IN  /\ Holds(p) <=> p \in chosen
            /\ Holds(p) => SelectedFrom(parent[p], comm[p], p, chosen, last.call)

\* Processes that are chosen by their ranks know their new ranks, and whose ranks they
\* were: the leaders of a division, and the members of a selection.
SelectionsAgree == LeadersFollowGroups /\ GroupsSelectRanks

\* Whom a rank sends to receives from it: right and left, next and prev where their
\* assertions hold, and the two ends of every shift of a grid, periodic or not.  rotate
\* brings the values of a ring forward by the displacement, unrotate brings them back.
NeighboursMeet ==
    \A p \in Processes : Holds(p) =>
        /\ Left(Size(p), Right(Size(p), Rank(p))) = Rank(p)
        /\ PrevAsserted(Rank(p)) => NextAsserted(Size(p), Prev1(Rank(p)))
        /\ \A d \in Dimensions(p), displacement \in Offsets :
              LET end == Shift(comm[p], p, d, displacement)
                  At(r) == comm[p].members[r + 1]
              IN  /\ end.dest # NoProcess =>
                        Shift(comm[p], At(end.dest), d, displacement).source = Rank(p)
                  /\ end.source # NoProcess =>
                        Shift(comm[p], At(end.source), d, displacement).dest = Rank(p)
        /\ \A displacement \in Offsets : comm[p].periods = <<TRUE>> =>
              LET own == [q \in Members(p) |-> q]
                  rotated == Rotate(comm[p], own, displacement)
              IN  /\ Unrotate(comm[p], rotated, displacement) = own
                  /\ rotated[comm[p].members[Displaced(comm[p], p, 1, displacement) + 1]] = p

\* Arranging and cutting lose nobody: in a grid the coordinates of a rank lead back to
\* it; in what is cut from it a process has, of the coordinates and extents it had,
\* those that remain, and those that share it are as many as the extents say, and the
\* same for each of them.
CutsKeepPlaces ==
    \A p \in Processes : Holds(p) /\ Dimensions(p) # {} =>
        /\ Size(p) = Product(comm[p].dims)
        /\ CartRank(comm[p], Coordinates(comm[p], p)) = Rank(p)
        /\ \A q \in Members(p) : Members(q) = Members(p)
        /\ last.call = "cut" =>
              LET before == Topology(parent[p], p)
                  after == Topology(comm[p], p)
                  kept == Sorted(last.arg)
              IN  /\ after.coordinates = Remaining(before.coordinates, kept)
                  /\ after.dimensions = Remaining(before.dimensions, kept)
                  /\ after.periods = Remaining(before.periods, kept)
=============================================================================
