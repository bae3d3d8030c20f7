-------------------------------- MODULE Groups --------------------------------
(***************************************************************************)
(* Groups of processes (group.hpp): the members in the order of their      *)
(* ranks, as a sequence without repetitions.  Ranks begin at 0.            *)
(***************************************************************************)
EXTENDS Integers, Sequences, SequencesExt

\* MPI_UNDEFINED as a rank: the process is not a member.
NotAMember == -1

GroupRank(g, p) == IF p \in ToSet(g) THEN CHOOSE r \in 0 .. Len(g) - 1 : g[r + 1] = p
                   ELSE NotAMember

\* include(ranks): the members of those ranks, in the order of the list.
Include(g, ranks) == [i \in DOMAIN ranks |-> g[ranks[i] + 1]]

\* The elements of S, each behind those that are below it.
InOrder(S, below) ==
    [i \in 1 .. Cardinality(S) |-> CHOOSE q \in S : Cardinality(below[q]) = i - 1]

\* The members of g that are in S, in the order they have in g.
Kept(g, S) ==
    LET kept == ToSet(g) \cap S
    IN  InOrder(kept, [q \in kept |-> {p \in kept : GroupRank(g, p) < GroupRank(g, q)}])

\* exclude(ranks): the members of other ranks.
Exclude(g, ranks) == Kept(g, {p \in ToSet(g) : GroupRank(g, p) \notin ToSet(ranks)})

\* Mutant: the ranks are counted from 0.
SlicedFromZero(g, first, last, stride) ==
    Include(g, [i \in 1 .. (last - 1 - first) \div stride + 1 |-> (i - 1) * stride])

\* sliced(first, last, stride): every stride-th rank of first .. last - 1.
Sliced(g, first, last, stride) ==
    Include(g, [i \in 1 .. (last - 1 - first) \div stride + 1 |-> first + (i - 1) * stride])

\* set_intersection, set_difference and set_union keep the order of the first group.
Intersection(g, h) == Kept(g, ToSet(h))
Difference(g, h) == Kept(g, ToSet(g) \ ToSet(h))
SetUnion(g, h) == g \o Difference(h, g)

\* compare: MPI_IDENT, MPI_SIMILAR or MPI_UNEQUAL.
CompareGroups(g, h) ==
    CASE g = h -> "identical" [] g # h /\ ToSet(g) = ToSet(h) -> "similar" [] OTHER -> "unequal"
SameGroup(g, h) == CompareGroups(g, h) = "identical"
IsPermutation(g, h) == CompareGroups(g, h) # "unequal"

\* translate_rank: the rank that a member of g has in h.
TranslateRank(g, rank, h) == GroupRank(h, g[rank + 1])
=============================================================================
