------------------------------- MODULE Divisions -------------------------------
(***************************************************************************)
(* The arithmetic of ranks: the colors by which communicator.hpp divides a *)
(* communicator (divide_low, divide_high, operator/, operator%,            *)
(* divide_even), the neighbours of a rank, and the places that             *)
(* rma/memory.hpp and pointer.hpp give to the elements of a distributed    *)
(* array.  Pure functions of the size, the rank and the argument.          *)
(***************************************************************************)
EXTENDS Integers

\* C++ division truncates towards zero; a is not negative.
Quot(a, b) == IF b > 0 THEN a \div b ELSE -(a \div (-b))
Rem(a, b) == IF b > 0 THEN a % b ELSE a % (-b)

\* MPI_UNDEFINED, the color of a rank that is left out.
Undefined == -32766
-----------------------------------------------------------------------------
(* Colors.                                                                 *)

\* The value of last after i + 1 rounds of the loop of divide_high: the groups
\* 0 .. i have size/n ranks each, and the first size%n of them one more.
LoopLast(size, n, i) ==
    (i + 1) * (size \div n) + (IF i < size % n THEN i + 1 ELSE size % n)

\* Mutant: the residue goes to the last group.
DivideHighUneven(size, rank, n) ==
    IF size < n THEN rank
    ELSE IF rank \div (size \div n) < n THEN rank \div (size \div n) ELSE n - 1

\* divide_high: the first i for which rank() < last.
DivideHigh(size, rank, n) ==
    CHOOSE i \in 0 .. size + n :
        /\ rank < LoopLast(size, n, i)
        /\ \A j \in 0 .. i - 1 : LoopLast(size, n, j) <= rank

\* divide_low: the first n - size%n groups have size/n ranks, the others one more.
DivideLow(size, rank, n) ==
    LET bat == Quot(size, n)
        low == n - Rem(size, n)
    IN  IF rank < bat * low THEN Quot(rank, bat)
        ELSE low + Quot(rank - low * bat, bat + 1)

\* Groups as blocks of ranks: where group i begins if the first size%n groups, or
\* the last, are the larger ones.
HighFirst(size, n, i) == i * (size \div n) + (IF i < size % n THEN i ELSE size % n)
LowFirst(size, n, i) ==
    i * (size \div n) + (IF i > n - (size % n) THEN i - (n - (size % n)) ELSE 0)

\* What a division into n groups is for: group i is a block of size/n ranks, or one
\* more, and the ranks are in one group each.
HighIsBlocks(size, n) ==
    \A rank \in 0 .. size - 1 : \A i \in 0 .. n - 1 :
        DivideHigh(size, rank, n) = i
        <=> HighFirst(size, n, i) <= rank /\ rank < HighFirst(size, n, i + 1)
LowIsBlocks(size, n) ==
    \A rank \in 0 .. size - 1 : \A i \in 0 .. n - 1 :
        DivideLow(size, rank, n) = i
        <=> LowFirst(size, n, i) <= rank /\ rank < LowFirst(size, n, i + 1)

\* operator/, for n other than 0.
Slash(size, rank, n) ==
    IF n > 0 THEN DivideHigh(size, rank, n) ELSE DivideLow(size, rank, n)

\* operator%.
Percent(rank, n) == rank % n

DivideEven(rank, n) == IF 2 * (rank % n) > n THEN Undefined ELSE rank \div n

\* operator<, <=, >, >=, == with a number: the ranks that compare true.
Compare(op, rank, n) ==
    LET holds == CASE op = "<" -> rank < n [] op = "<=" -> rank <= n
                   [] op = ">" -> rank > n [] op = ">=" -> rank >= n [] op = "==" -> rank = n
    IN  IF holds THEN 0 ELSE Undefined
-----------------------------------------------------------------------------
(* Neighbours.                                                             *)

Right(size, rank) == (rank + 1) % size

\* Mutant: the ring is not closed.
LeftOpen(size, rank) == IF rank - 1 < 0 THEN 0 ELSE rank - 1

Left(size, rank) == IF rank - 1 < 0 THEN size - 1 ELSE rank - 1

\* next and prev, and the assertions that guard them.
Next1(rank) == rank + 1
NextAsserted(size, rank) == rank + 1 < size
Prev1(rank) == rank - 1
PrevAsserted(rank) == rank - 1 > 0
-----------------------------------------------------------------------------
(* Distributed arrays of count elements over size ranks.                   *)

\* rma::allocator::allocate: elements in each rank's window.
LocalCount(count, size) == (count - 1) \div size + 1

\* rma::ptr::address: the rank that holds an element, and its place in the window.
Address(offset, local) == [rank |-> offset \div local, disp |-> offset % local]

\* Every element has a place of its own, within the window of some rank.
ElementsHavePlaces(count, size) ==
    \A a, b \in 0 .. count - 1 :
        LET local == LocalCount(count, size)
        IN  /\ Address(a, local).rank \in 0 .. size - 1
            /\ Address(a, local).disp \in 0 .. local - 1
            /\ Address(a, local) = Address(b, local) => a = b

\* pgas_allocator::allocate: "?:" has the whole sum for its condition.
PgasLocalSize(count, size, rank) ==
    IF count \div size + (IF rank < count % size THEN 1 ELSE 0) # 0 THEN 1 ELSE 0
=============================================================================
