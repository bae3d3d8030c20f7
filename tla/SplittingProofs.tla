---------------------------- MODULE SplittingProofs ----------------------------
(***************************************************************************)
(* Proofs about Divisions and Splitting, for any world and any arguments:  *)
(* what divide_high, divide_low and the distribution of rma::allocator do, *)
(* for every size, rank and number of groups, what comes of splitting      *)
(* communicators again and again, and where neighbours and cuts of grids   *)
(* of any shape lead.                                                      *)
(***************************************************************************)
EXTENDS Splitting, FiniteSetTheorems, WellFoundedInduction, TLAPS

\* Division with remainder.
LEMMA DivMod ==
    ASSUME NEW a \in Nat, NEW b \in Nat \ {0}
    PROVE  /\ a \div b \in Nat /\ a % b \in 0 .. b - 1
           /\ a = b * (a \div b) + (a % b)
BY SMT

LEMMA QuotientBounds ==
    ASSUME NEW a \in Nat, NEW b \in Nat \ {0}
    PROVE  /\ a \div b \in Nat
           /\ b * (a \div b) <= a
           /\ a < b * (a \div b) + b
BY SMT

\* A product grows with its factor.
LEMMA ProductMonotone ==
    ASSUME NEW x \in Nat, NEW y \in Nat, NEW k \in Nat, x <= y
    PROVE  k * x <= k * y
BY SMT

LEMMA Quotient ==
    ASSUME NEW a \in Nat, NEW b \in Nat \ {0}, NEW q \in Nat,
           b * q <= a, a < b * q + b
    PROVE  a \div b = q
BY SMT

-----------------------------------------------------------------------------
(* divide_high                                                             *)

\* The loop's bound after round i is where the next group begins.
LEMMA LastIsNextFirst ==
    ASSUME NEW size \in Nat, NEW n \in Nat \ {0}, NEW i \in Nat
    PROVE  LoopLast(size, n, i) = HighFirst(size, n, i + 1)
<1> DEFINE bat == size \div n
           residue == size % n
<1>1. bat \in Nat /\ residue \in 0 .. n - 1
  BY DivMod
<1>2. ASSUME NEW r \in Nat, NEW b \in Nat
      PROVE (i + 1) * b + (IF i < r THEN i + 1 ELSE r)
            = (i + 1) * b + (IF i + 1 < r THEN i + 1 ELSE r)
  BY SMT
<1>3. residue \in Nat
  BY <1>1
<1> QED
  BY <1>1, <1>2, <1>3 DEF LoopLast, HighFirst

\* Later groups begin later.
LEMMA HighFirstMonotone ==
    ASSUME NEW size \in Nat, NEW n \in Nat \ {0}, NEW i \in Nat, NEW j \in Nat, i <= j
    PROVE  /\ HighFirst(size, n, i) \in Nat
           /\ HighFirst(size, n, i) <= HighFirst(size, n, j)
<1>1. size \div n \in Nat /\ size % n \in 0 .. n - 1
  BY DivMod
<1>2. /\ i * (size \div n) \in Nat /\ j * (size \div n) \in Nat
      /\ i * (size \div n) <= j * (size \div n)
  BY <1>1, ProductMonotone, SMT
<1>3. ASSUME NEW x \in Nat, NEW y \in Nat, NEW r \in Nat, x <= y
      PROVE /\ x + (IF i < r THEN i ELSE r) \in Nat
            /\ x + (IF i < r THEN i ELSE r) <= y + (IF j < r THEN j ELSE r)
  BY <1>3, SMT
<1>4. size % n \in Nat
  BY <1>1
<1> QED
  BY <1>2, <1>3, <1>4 DEF HighFirst

\* Groups begin at a rank.
LEMMA HighFirstType ==
    ASSUME NEW size \in Nat, NEW n \in Nat \ {0}, NEW i \in Nat
    PROVE  HighFirst(size, n, i) \in Nat
<1>1. i <= i
  OBVIOUS
<1> QED
  BY <1>1, HighFirstMonotone

\* The last group ends with the last rank.
LEMMA HighFirstLast ==
    ASSUME NEW size \in Nat, NEW n \in Nat \ {0}
    PROVE  HighFirst(size, n, 0) = 0 /\ HighFirst(size, n, n) = size
<1>1. size \div n \in Nat /\ size % n \in 0 .. n - 1 /\ size = n * (size \div n) + (size % n)
  BY DivMod
<1>2. ASSUME NEW b \in Nat, NEW r \in 0 .. n - 1
      PROVE /\ 0 * b + (IF 0 < r THEN 0 ELSE r) = 0
            /\ n * b + (IF n < r THEN n ELSE r) = n * b + r
  BY SMT
<1> QED
  BY <1>1, <1>2 DEF HighFirst

\* Every rank is in the block of some group.
LEMMA HighBlockExists ==
    ASSUME NEW size \in Nat, NEW n \in Nat \ {0}, NEW rank \in 0 .. size - 1
    PROVE  \E i \in 0 .. n - 1 :
              HighFirst(size, n, i) <= rank /\ rank < HighFirst(size, n, i + 1)
<1> DEFINE bat == size \div n
           residue == size % n
<1>1. bat \in Nat /\ residue \in 0 .. n - 1 /\ size = n * bat + residue
  BY DivMod
<1>2. residue \in Nat /\ rank \in Nat /\ rank < n * bat + residue
  BY <1>1
<1> HIDE DEF bat, residue
<1>3. \A i \in Nat : HighFirst(size, n, i) = i * bat + (IF i < residue THEN i ELSE residue)
  BY DEF HighFirst, bat, residue
<1>4. CASE rank < residue * (bat + 1)
  <2> DEFINE i == rank \div (bat + 1)
  <2>1. i \in Nat /\ (bat + 1) * i <= rank /\ rank < (bat + 1) * i + (bat + 1)
    <3>1. bat + 1 \in Nat \ {0}
      BY <1>1
    <3> QED  BY <3>1, <1>2, QuotientBounds
  <2> HIDE DEF i
  <2>2. i < residue
    BY <2>1, <1>1, <1>2, <1>4, SMT
  <2>3. HighFirst(size, n, i) = i * bat + i
    BY <2>1, <2>2, <1>3
  <2>4. HighFirst(size, n, i + 1) = (i + 1) * bat + (i + 1)
    BY <2>1, <2>2, <1>3, <1>2, SMT
  <2>5. (bat + 1) * i = i * bat + i /\ (bat + 1) * i + (bat + 1) = (i + 1) * bat + (i + 1)
    BY <2>1, <1>1, SMT
  <2>6. HighFirst(size, n, i) <= rank /\ rank < HighFirst(size, n, i + 1)
    BY <2>1, <2>3, <2>4, <2>5
  <2> QED
    BY <2>1, <2>2, <2>6, <1>1, SMT
<1>5. CASE ~(rank < residue * (bat + 1))
  <2>1. bat \in Nat \ {0}
    BY <1>1, <1>2, <1>5, SMT
  <2> DEFINE over == rank - residue * (bat + 1)
             k == over \div bat
             i == residue + k
  <2>2. over \in Nat
    BY <1>1, <1>2, <1>5, SMT
  <2>3. k \in Nat /\ bat * k <= over /\ over < bat * k + bat
    BY <2>1, <2>2, QuotientBounds
  <2>4. rank = residue * (bat + 1) + over
    BY <1>1, <1>2, SMT
  <2> HIDE DEF over, k
  <2>5. i \in Nat /\ ~(i < residue) /\ ~(i + 1 < residue)
    BY <2>3, <1>2, SMT
  <2>6. /\ HighFirst(size, n, i) = i * bat + residue
        /\ HighFirst(size, n, i + 1) = (i + 1) * bat + residue
    BY <2>5, <1>3
  <2>7. /\ i * bat + residue = residue * (bat + 1) + bat * k
        /\ (i + 1) * bat + residue = residue * (bat + 1) + bat * k + bat
    BY <1>1, <1>2, <2>3, SMT
  <2>8. HighFirst(size, n, i) <= rank /\ rank < HighFirst(size, n, i + 1)
    BY <2>2, <2>3, <2>4, <2>6, <2>7, <1>1, <1>2, SMT
  <2>9. i < n
    <3>1. i * bat + residue < n * bat + residue
      BY <2>3, <2>5, <2>6, <2>8, <1>1, <1>2, SMT
    <3> QED  BY <3>1, <2>5, <1>1, <1>2, SMT
  <2> QED
    BY <2>5, <2>8, <2>9
<1> QED
  BY <1>4, <1>5

\* The blocks of different groups have no rank in common.
LEMMA HighBlockUnique ==
    ASSUME NEW size \in Nat, NEW n \in Nat \ {0}, NEW rank \in Nat,
           NEW i \in Nat, NEW j \in Nat,
           HighFirst(size, n, i) <= rank, rank < HighFirst(size, n, i + 1),
           HighFirst(size, n, j) <= rank, rank < HighFirst(size, n, j + 1)
    PROVE  i = j
<1>1. CASE i < j
  <2>1. HighFirst(size, n, i + 1) <= HighFirst(size, n, j)
    BY <1>1, HighFirstMonotone
  <2> QED  BY <2>1, <1>1, HighFirstMonotone
<1>2. CASE j < i
  <2>1. HighFirst(size, n, j + 1) <= HighFirst(size, n, i)
    BY <1>2, HighFirstMonotone
  <2> QED  BY <2>1, <1>2, HighFirstMonotone
<1> QED  BY <1>1, <1>2

\* The loop of divide_high ends, at the group in whose block the rank is: the ranks
\* are divided into n blocks, as even as can be, the larger ones first.
THEOREM DivideHighIsBlocks ==
    ASSUME NEW size \in Nat, NEW n \in Nat \ {0}
    PROVE  /\ HighIsBlocks(size, n)
           /\ \A rank \in 0 .. size - 1 : DivideHigh(size, rank, n) \in 0 .. n - 1
<1>1. ASSUME NEW rank \in 0 .. size - 1, NEW i \in 0 .. n - 1,
             HighFirst(size, n, i) <= rank, rank < HighFirst(size, n, i + 1)
      PROVE  DivideHigh(size, rank, n) = i
  <2> DEFINE P(k) == /\ rank < LoopLast(size, n, k)
                     /\ \A j \in 0 .. k - 1 : LoopLast(size, n, j) <= rank
  <2>1. rank \in Nat /\ i \in 0 .. size + n
    OBVIOUS
  <2>2. P(i)
    <3>1. rank < LoopLast(size, n, i)
      BY <1>1, LastIsNextFirst
    <3>2. ASSUME NEW j \in 0 .. i - 1
          PROVE  LoopLast(size, n, j) <= rank
      <4>1. LoopLast(size, n, j) = HighFirst(size, n, j + 1)
        BY LastIsNextFirst
      <4>2. HighFirst(size, n, j + 1) <= HighFirst(size, n, i)
        BY HighFirstMonotone
      <4>3. j \in Nat /\ j + 1 \in Nat /\ i \in Nat
        OBVIOUS
      <4>4. HighFirst(size, n, j + 1) \in Nat /\ HighFirst(size, n, i) \in Nat
        BY <4>3, HighFirstType
      <4> QED  BY <4>1, <4>2, <4>4, <1>1
    <3> QED  BY <3>1, <3>2
  <2>3. ASSUME NEW k \in 0 .. size + n, P(k)
        PROVE  k = i
    <3>0. LoopLast(size, n, k) \in Nat /\ LoopLast(size, n, i) \in Nat
      <4>1. /\ LoopLast(size, n, k) = HighFirst(size, n, k + 1)
            /\ LoopLast(size, n, i) = HighFirst(size, n, i + 1)
        BY LastIsNextFirst
      <4>2. k + 1 \in Nat /\ i + 1 \in Nat
        OBVIOUS
      <4>3. HighFirst(size, n, k + 1) \in Nat /\ HighFirst(size, n, i + 1) \in Nat
        BY <4>2, HighFirstType
      <4> QED  BY <4>1, <4>3
    <3>1. CASE k < i
      <4>1. LoopLast(size, n, k) <= rank
        BY <3>1, <2>2
      <4> QED  BY <4>1, <3>0, <2>3
    <3>2. CASE i < k
      <4>1. LoopLast(size, n, i) <= rank
        BY <3>2, <2>3
      <4> QED  BY <4>1, <3>0, <2>2
    <3> QED  BY <3>1, <3>2
  <2>4. DivideHigh(size, rank, n) = CHOOSE k \in 0 .. size + n : P(k)
    BY DEF DivideHigh
  <2> HIDE DEF P
  <2> QED  BY <2>1, <2>2, <2>3, <2>4
<1>2. ASSUME NEW rank \in 0 .. size - 1
      PROVE  /\ DivideHigh(size, rank, n) \in 0 .. n - 1
             /\ HighFirst(size, n, DivideHigh(size, rank, n)) <= rank
             /\ rank < HighFirst(size, n, DivideHigh(size, rank, n) + 1)
  <2>1. PICK i \in 0 .. n - 1 : HighFirst(size, n, i) <= rank /\ rank < HighFirst(size, n, i + 1)
    BY HighBlockExists
  <2>2. DivideHigh(size, rank, n) = i
    BY <1>1, <2>1
  <2> QED BY <2>1, <2>2
<1> QED
  BY <1>1, <1>2 DEF HighIsBlocks
-----------------------------------------------------------------------------
(* divide_low                                                              *)

LEMMA LowFirstMonotone ==
    ASSUME NEW size \in Nat, NEW n \in Nat \ {0}, NEW i \in Nat, NEW j \in Nat, i <= j
    PROVE  /\ LowFirst(size, n, i) \in Nat
           /\ LowFirst(size, n, i) <= LowFirst(size, n, j)
<1>1. size \div n \in Nat /\ size % n \in 0 .. n - 1
  BY DivMod
<1>2. /\ i * (size \div n) \in Nat /\ j * (size \div n) \in Nat
      /\ i * (size \div n) <= j * (size \div n)
  BY <1>1, ProductMonotone, SMT
<1>3. ASSUME NEW x \in Nat, NEW y \in Nat, NEW low \in Nat, x <= y
      PROVE /\ x + (IF i > low THEN i - low ELSE 0) \in Nat
            /\ x + (IF i > low THEN i - low ELSE 0) <= y + (IF j > low THEN j - low ELSE 0)
  BY <1>3, SMT
<1>4. n - (size % n) \in Nat
  BY <1>1
<1> QED
  BY <1>2, <1>3, <1>4 DEF LowFirst

LEMMA LowBlockUnique ==
    ASSUME NEW size \in Nat, NEW n \in Nat \ {0}, NEW rank \in Nat,
           NEW i \in Nat, NEW j \in Nat,
           LowFirst(size, n, i) <= rank, rank < LowFirst(size, n, i + 1),
           LowFirst(size, n, j) <= rank, rank < LowFirst(size, n, j + 1)
    PROVE  i = j
<1>1. CASE i < j
  <2>1. LowFirst(size, n, i + 1) <= LowFirst(size, n, j)
    BY <1>1, LowFirstMonotone
  <2> QED  BY <2>1, <1>1, LowFirstMonotone
<1>2. CASE j < i
  <2>1. LowFirst(size, n, j + 1) <= LowFirst(size, n, i)
    BY <1>2, LowFirstMonotone
  <2> QED  BY <2>1, <1>2, LowFirstMonotone
<1> QED  BY <1>1, <1>2

\* The expression of divide_low gives the group in whose block the rank is.
LEMMA DivideLowInBlock ==
    ASSUME NEW size \in Nat, NEW n \in Nat \ {0}, NEW rank \in 0 .. size - 1
    PROVE  /\ DivideLow(size, rank, n) \in 0 .. n - 1
           /\ LowFirst(size, n, DivideLow(size, rank, n)) <= rank
           /\ rank < LowFirst(size, n, DivideLow(size, rank, n) + 1)
<1> DEFINE bat == size \div n
           residue == size % n
           low == n - residue
<1>1. /\ bat \in Nat /\ residue \in Nat /\ residue < n /\ size = n * bat + residue
      /\ low \in Nat \ {0}
  BY DivMod
<1>2. rank \in Nat /\ rank < n * bat + residue /\ n = low + residue
  BY <1>1
<1>3. \A i \in Nat : LowFirst(size, n, i) = i * bat + (IF i > low THEN i - low ELSE 0)
  BY DEF LowFirst
<1>4. DivideLow(size, rank, n)
      = IF rank < bat * low THEN Quot(rank, bat) ELSE low + Quot(rank - low * bat, bat + 1)
  BY DEF DivideLow, Quot, Rem
<1> HIDE DEF bat, residue, low
<1>5. CASE rank < bat * low
  <2>1. bat \in Nat \ {0}
    BY <1>1, <1>2, <1>5, SMT
  <2> DEFINE i == rank \div bat
  <2>2. i \in Nat /\ bat * i <= rank /\ rank < bat * i + bat
    BY <2>1, <1>2, QuotientBounds
  <2>3. DivideLow(size, rank, n) = i
    BY <1>4, <1>5, <2>1 DEF Quot
  <2> HIDE DEF i
  <2>4. i < low
    BY <2>2, <1>1, <1>2, <1>5, SMT
  <2>5. LowFirst(size, n, i) = i * bat /\ LowFirst(size, n, i + 1) = (i + 1) * bat
    BY <2>2, <2>4, <1>1, <1>3, SMT
  <2>6. i * bat = bat * i /\ (i + 1) * bat = bat * i + bat
    BY <2>2, <1>1, SMT
  <2> QED
    BY <2>2, <2>3, <2>4, <2>5, <2>6, <1>1, <1>2, SMT
<1>6. CASE ~(rank < bat * low)
  <2> DEFINE over == rank - low * bat
             k == over \div (bat + 1)
  <2>1. over \in Nat /\ bat + 1 \in Nat \ {0} /\ bat + 1 > 0
    BY <1>1, <1>2, <1>6, SMT
  <2>2. k \in Nat /\ (bat + 1) * k <= over /\ over < (bat + 1) * k + (bat + 1)
    BY <2>1, QuotientBounds
  <2>3. DivideLow(size, rank, n) = low + k
    BY <1>4, <1>6, <2>1 DEF Quot
  <2>4. rank = low * bat + over
    BY <1>1, <1>2, SMT
  <2> HIDE DEF over, k
  <2>5. /\ LowFirst(size, n, low + k) = (low + k) * bat + k
        /\ LowFirst(size, n, low + k + 1) = (low + k + 1) * bat + k + 1
    <3>1. ASSUME NEW i \in Nat, NEW j \in Nat, i = low + j
          PROVE  LowFirst(size, n, i) = i * bat + j
      <4>1. LowFirst(size, n, i) = i * bat + (IF i > low THEN i - low ELSE 0)
        BY <1>3
      <4>2. (IF i > low THEN i - low ELSE 0) = j
        BY <3>1, <1>1, SMT
      <4> QED  BY <4>1, <4>2
    <3>2. low + k \in Nat /\ low + k + 1 \in Nat /\ low + k + 1 = low + (k + 1) /\ k + 1 \in Nat
      BY <2>2, <1>1, SMT
    <3>3. LowFirst(size, n, low + k) = (low + k) * bat + k
      BY <3>1, <3>2, <2>2
    <3>4. LowFirst(size, n, low + k + 1) = (low + k + 1) * bat + (k + 1)
      BY <3>1, <3>2
    <3>5. (low + k + 1) * bat \in Nat
      BY <3>2, <1>1, SMT
    <3> QED  BY <3>3, <3>4, <3>5, <2>2, SMT
  <2>6. /\ (low + k) * bat + k = low * bat + (bat + 1) * k
        /\ (low + k + 1) * bat + k + 1 = low * bat + (bat + 1) * k + (bat + 1)
    BY <2>2, <1>1, SMT
  <2>7. /\ LowFirst(size, n, low + k) <= rank
        /\ rank < LowFirst(size, n, low + k + 1)
    BY <2>1, <2>2, <2>4, <2>5, <2>6, <1>1, SMT
  <2>8. k < residue
    <3>1. low * bat + (bat + 1) * k < (low + residue) * bat + residue
      BY <2>1, <2>2, <2>4, <1>1, <1>2, SMT
    <3>2. (bat + 1) * k < (bat + 1) * residue
      BY <3>1, <2>2, <1>1, SMT
    <3> QED  BY <3>2, <2>2, <1>1, SMT
  <2> QED
    BY <2>2, <2>3, <2>7, <2>8, <1>1, <1>2, SMT
<1> QED
  BY <1>5, <1>6

\* divide_low divides the ranks into n blocks, as even as can be, the larger ones last.
THEOREM DivideLowIsBlocks ==
    ASSUME NEW size \in Nat, NEW n \in Nat \ {0}
    PROVE  LowIsBlocks(size, n)
<1>1. ASSUME NEW rank \in 0 .. size - 1, NEW i \in 0 .. n - 1,
             LowFirst(size, n, i) <= rank, rank < LowFirst(size, n, i + 1)
      PROVE  DivideLow(size, rank, n) = i
  <2>1. rank \in Nat /\ i \in Nat
    OBVIOUS
  <2>2. /\ DivideLow(size, rank, n) \in Nat
        /\ LowFirst(size, n, DivideLow(size, rank, n)) <= rank
        /\ rank < LowFirst(size, n, DivideLow(size, rank, n) + 1)
    BY DivideLowInBlock
  <2> QED  BY <2>1, <2>2, <1>1, LowBlockUnique
<1> QED
  BY <1>1, DivideLowInBlock DEF LowIsBlocks
-----------------------------------------------------------------------------
(* rma::allocator                                                          *)

\* The windows that rma::allocator::allocate makes hold every element, each at the
\* place where rma::ptr looks for it.
THEOREM RmaElementsHavePlaces ==
    ASSUME NEW count \in Nat \ {0}, NEW size \in Nat \ {0}
    PROVE  ElementsHavePlaces(count, size)
<1> DEFINE local == LocalCount(count, size)
<1>1. local \in Nat \ {0} /\ count - 1 < size * local
  <2>1. /\ (count - 1) \div size \in Nat
        /\ count - 1 < size * ((count - 1) \div size) + size
    BY QuotientBounds
  <2>2. ASSUME NEW q \in Nat
        PROVE  size * q + size = size * (q + 1) /\ q + 1 \in Nat \ {0}
    BY SMT
  <2> QED  BY <2>1, <2>2 DEF LocalCount
<1> HIDE DEF local
<1>2. ASSUME NEW a \in 0 .. count - 1
      PROVE  /\ a \div local \in 0 .. size - 1 /\ a % local \in 0 .. local - 1
             /\ a = local * (a \div local) + (a % local)
  <2>1. /\ a \in Nat /\ a \div local \in Nat /\ a % local \in 0 .. local - 1
        /\ a = local * (a \div local) + (a % local)
    <3>1. a \in Nat
      BY <1>1
    <3> QED  BY <3>1, <1>1, DivMod
  <2>2. ASSUME NEW q \in Nat, local * q <= count - 1
        PROVE  q < size
    BY <2>2, <1>1, SMT
  <2>3. local * (a \div local) <= count - 1
    BY <1>1, QuotientBounds
  <2> QED  BY <2>1, <2>2, <2>3
<1>3. ASSUME NEW a \in 0 .. count - 1, NEW b \in 0 .. count - 1,
             Address(a, local) = Address(b, local)
      PROVE  a = b
  <2>1. a \div local = b \div local /\ a % local = b % local
    BY <1>3 DEF Address
  <2>2. /\ a = local * (a \div local) + (a % local)
        /\ b = local * (b \div local) + (b % local)
    BY <1>2
  <2> QED  BY <2>1, <2>2
<1> QED
  BY <1>2, <1>3 DEF ElementsHavePlaces, Address, local

-----------------------------------------------------------------------------
(* Induction, by sets of numbers.                                          *)

\* A set of natural numbers that is not empty has a least one.
LEMMA LeastNumber ==
    ASSUME NEW T, T \subseteq Nat, T # {}
    PROVE  \E x \in T : \A y \in T : x <= y
<1>1. PICK R : R = OpToRel(<, Nat)
  OBVIOUS
<1>2. IsWellFoundedOn(R, Nat)
  BY <1>1, NatLessThanWellFounded
<1>3. PICK x \in T : \A y \in T : <<y, x>> \notin R
  BY <1>2, WFMin
<1>4. R = {ss \in Nat \X Nat : ss[1] < ss[2]}
  BY <1>1 DEF OpToRel
<1>5. ASSUME NEW y \in T PROVE x <= y
  <2>1. <<y, x>> \notin {ss \in Nat \X Nat : ss[1] < ss[2]}
    BY <1>3, <1>4
  <2> QED BY <2>1
<1> QED BY <1>5

\* A set that has 0, and with a number the next one, has all numbers.
LEMMA UpTo ==
    ASSUME NEW N \in Nat, NEW T, 0 \in T, \A n \in T : n \in 0 .. N - 1 => n + 1 \in T
    PROVE  0 .. N \subseteq T
<1>1. SUFFICES ASSUME (0 .. N) \ T # {} PROVE FALSE
  OBVIOUS
<1>2. PICK x \in (0 .. N) \ T : \A y \in (0 .. N) \ T : x <= y
  <2>1. PICK rest : rest = (0 .. N) \ T
    OBVIOUS
  <2>2. rest \subseteq Nat /\ rest # {}
    BY <1>1, <2>1
  <2>3. \E x \in rest : \A y \in rest : x <= y
    BY <2>2, LeastNumber
  <2> QED BY <2>1, <2>3
<1>3. PICK y \in 0 .. N - 1 : y + 1 = x
  <2>1. x # 0
    BY <1>2
  <2>2. x - 1 \in 0 .. N - 1 /\ (x - 1) + 1 = x
    BY <2>1
  <2> QED BY <2>2
<1>4. y \in T
  BY <1>2, <1>3
<1> QED BY <1>2, <1>3, <1>4
-----------------------------------------------------------------------------
(* Finite orders, and the sequences that InOrder makes of them.            *)

\* s has the elements of S, each behind those below it.
Arranges(s, S, below) ==
    /\ s \in [1 .. Cardinality(S) -> S]
    /\ \A i \in 1 .. Cardinality(S) : Cardinality(below[s[i]]) = i - 1
    /\ \A q \in S : /\ Cardinality(below[q]) \in 0 .. Cardinality(S) - 1
                    /\ s[Cardinality(below[q]) + 1] = q
    /\ \A i, j \in 1 .. Cardinality(S) : s[i] \in below[s[j]] <=> i < j

\* In a finite total order, as many elements are below the first, the second and so on
\* as InOrder asks for.
LEMMA InOrderArranges ==
    ASSUME NEW S, IsFiniteSet(S), NEW below \in [S -> SUBSET S],
           \A q \in S : q \notin below[q],
           \A p, q \in S : p \in below[q] => below[p] \subseteq below[q],
           \A p, q \in S : p = q \/ p \in below[q] \/ q \in below[p]
    PROVE  Arranges(InOrder(S, below), S, below)
<1> DEFINE f == [q \in S |-> Cardinality(below[q])]
           n == Cardinality(S)
           s == InOrder(S, below)
<1>1. n \in Nat
  BY FS_CardinalityType
<1>2. ASSUME NEW q \in S
      PROVE  IsFiniteSet(below[q]) /\ f[q] \in 0 .. n - 1
  <2>1. below[q] \in SUBSET (S \ {q})
    OBVIOUS
  <2>2. IsFiniteSet(S \ {q}) /\ Cardinality(S \ {q}) = n - 1
    BY FS_RemoveElement
  <2>3. IsFiniteSet(below[q]) /\ Cardinality(below[q]) <= n - 1
    BY <2>1, <2>2, FS_Subset
  <2>4. Cardinality(below[q]) \in Nat
    BY <2>3, FS_CardinalityType
  <2> QED BY <1>1, <2>3, <2>4
<1>3. ASSUME NEW p \in S, NEW q \in S, p \in below[q] PROVE f[p] < f[q]
  <2>1. below[p] \in SUBSET (below[q] \ {p})
    BY <1>3
  <2>2. IsFiniteSet(below[q] \ {p}) /\ Cardinality(below[q] \ {p}) = f[q] - 1
    BY <1>2, <1>3, FS_RemoveElement
  <2>3. f[p] <= f[q] - 1
    BY <2>1, <2>2, FS_Subset
  <2> QED BY <1>2, <2>3
<1>4. \A p, q \in S : f[p] = f[q] => p = q
  BY <1>2, <1>3
<1>5. \A i \in 0 .. n - 1 : \E q \in S : f[q] = i
  <2>1. f \in [S -> 0 .. n - 1]
    BY <1>2
  <2>2. f \in Injection(S, 0 .. n - 1)
    BY <1>4, <2>1 DEF Injection, IsInjective
  <2>3. IsFiniteSet(0 .. n - 1) /\ Cardinality(0 .. n - 1) = n
    BY <1>1, FS_Interval
  <2>4. f \in Surjection(S, 0 .. n - 1)
    BY <2>2, <2>3, FS_Injection
  <2> QED BY <2>4 DEF Surjection
<1>6. ASSUME NEW i \in 1 .. n PROVE s[i] \in S /\ f[s[i]] = i - 1
  <2>1. s[i] = CHOOSE q \in S : Cardinality(below[q]) = i - 1
    BY <1>6 DEF InOrder
  <2>2. i - 1 \in 0 .. n - 1
    BY <1>1
  <2>3. \E q \in S : Cardinality(below[q]) = i - 1
    BY <1>5, <2>2
  <2> QED BY <2>1, <2>3
<1>7. s \in [1 .. n -> S]
  BY <1>6 DEF InOrder
<1>8. ASSUME NEW q \in S PROVE s[f[q] + 1] = q
  <2>1. f[q] + 1 \in 1 .. n
    BY <1>1, <1>2
  <2>2. s[f[q] + 1] \in S /\ f[s[f[q] + 1]] = f[q]
    BY <1>2, <1>6, <2>1
  <2> QED BY <1>4, <2>2
<1>9. ASSUME NEW i \in 1 .. n, NEW j \in 1 .. n PROVE s[i] \in below[s[j]] <=> i < j
  <2>1. f[s[i]] = i - 1 /\ f[s[j]] = j - 1 /\ s[i] \in S /\ s[j] \in S
    BY <1>6
  <2>2. i < j => s[i] # s[j]
    BY <2>1, <1>1
  <2>3. s[i] \in below[s[j]] => i < j
    BY <1>1, <1>3, <2>1
  <2>4. s[j] \in below[s[i]] => j < i
    BY <1>1, <1>3, <2>1
  <2> QED BY <1>1, <2>1, <2>2, <2>3, <2>4
<1> QED BY <1>2, <1>6, <1>7, <1>8, <1>9 DEF Arranges

-----------------------------------------------------------------------------
(* Members in the order of their ranks.                                    *)

Distinct(g) == \A i, j \in 1 .. Len(g) : g[i] = g[j] => i = j

BelowIn(g, S) == [q \in S |-> {p \in S : GroupRank(g, p) < GroupRank(g, q)}]

\* The members of a group have the ranks 0, 1 and so on.
LEMMA GroupRanks ==
    ASSUME NEW P, NEW g \in Seq(P), Distinct(g)
    PROVE  /\ \A i \in 1 .. Len(g) : g[i] \in ToSet(g) /\ GroupRank(g, g[i]) = i - 1
           /\ \A p \in ToSet(g) : GroupRank(g, p) \in 0 .. Len(g) - 1 /\ g[GroupRank(g, p) + 1] = p
           /\ \A p, q \in ToSet(g) : GroupRank(g, p) = GroupRank(g, q) => p = q
           /\ ToSet(g) \subseteq P
           /\ IsFiniteSet(ToSet(g)) /\ Cardinality(ToSet(g)) = Len(g)
<1>1. Len(g) \in Nat /\ DOMAIN g = 1 .. Len(g)
  OBVIOUS
<1>2. \A i \in 1 .. Len(g) : g[i] \in ToSet(g)
  BY <1>1 DEF ToSet
<1>3. ASSUME NEW p \in ToSet(g)
      PROVE  GroupRank(g, p) \in 0 .. Len(g) - 1 /\ g[GroupRank(g, p) + 1] = p
  <2>1. PICK i \in 1 .. Len(g) : g[i] = p
    BY <1>1, <1>3 DEF ToSet
  <2>2. i - 1 \in 0 .. Len(g) - 1 /\ g[(i - 1) + 1] = p
    BY <1>1, <2>1
  <2> QED BY <1>3, <2>2 DEF GroupRank
<1>4. ASSUME NEW i \in 1 .. Len(g) PROVE GroupRank(g, g[i]) = i - 1
  <2>1. GroupRank(g, g[i]) \in 0 .. Len(g) - 1 /\ g[GroupRank(g, g[i]) + 1] = g[i]
    BY <1>2, <1>3
  <2>2. GroupRank(g, g[i]) + 1 = i
    BY <1>1, <2>1 DEF Distinct
  <2> QED BY <2>1, <2>2
<1>5. ToSet(g) \subseteq P
  BY <1>1 DEF ToSet
<1>6. g \in Bijection(1 .. Len(g), ToSet(g))
  <2>1. g \in [1 .. Len(g) -> ToSet(g)]
    BY <1>1, <1>2
  <2>2. \A p \in ToSet(g) : \E i \in 1 .. Len(g) : g[i] = p
    BY <1>1 DEF ToSet
  <2> QED BY <1>1, <2>1, <2>2 DEF Distinct, Bijection, Injection, Surjection, IsInjective
<1>7. IsFiniteSet(1 .. Len(g)) /\ Cardinality(1 .. Len(g)) = Len(g)
  BY <1>1, FS_Interval
<1>8. IsFiniteSet(ToSet(g)) /\ Cardinality(ToSet(g)) = Len(g)
  BY <1>6, <1>7, FS_Bijection DEF ExistsBijection
<1> QED BY <1>2, <1>3, <1>4, <1>5, <1>8

\* What is kept of a group.
LEMMA KeptIs ==
    ASSUME NEW P, NEW g \in Seq(P), Distinct(g), NEW S \in SUBSET ToSet(g)
    PROVE  /\ Kept(g, S) = InOrder(S, BelowIn(g, S))
           /\ Arranges(Kept(g, S), S, BelowIn(g, S))
<1>1. Kept(g, S) = InOrder(S, BelowIn(g, S))
  <2>1. ToSet(g) \cap S = S
    OBVIOUS
  <2> QED BY <2>1 DEF Kept, BelowIn
<1>2. \A p \in S : GroupRank(g, p) \in Int
  BY GroupRanks
<1>3. \A p, q \in S : GroupRank(g, p) = GroupRank(g, q) => p = q
  BY GroupRanks
<1>4. IsFiniteSet(S)
  BY GroupRanks, FS_Subset
<1>5. PICK below : below = BelowIn(g, S)
  OBVIOUS
<1>6. below \in [S -> SUBSET S]
  BY <1>5 DEF BelowIn
<1>7. \A p, q \in S : p \in below[q] <=> GroupRank(g, p) < GroupRank(g, q)
  BY <1>5 DEF BelowIn
<1>8. \A q \in S : q \notin below[q]
  BY <1>2, <1>7
<1>9. \A p, q \in S : p \in below[q] => below[p] \subseteq below[q]
  BY <1>2, <1>6, <1>7
<1>10. \A p, q \in S : p = q \/ p \in below[q] \/ q \in below[p]
  BY <1>2, <1>3, <1>7
<1>11. Arranges(InOrder(S, below), S, below)
  BY <1>4, <1>6, <1>8, <1>9, <1>10, InOrderArranges
<1> QED BY <1>1, <1>5, <1>11

\* s has the members in S, in the order of their ranks in g.
Selection(s, g, S) ==
    /\ s \in Seq(S) /\ ToSet(s) = S
    /\ \A i, j \in 1 .. Len(s) : i < j => GroupRank(g, s[i]) < GroupRank(g, s[j])

LEMMA KeptSelects ==
    ASSUME NEW P, NEW g \in Seq(P), Distinct(g), NEW S \in SUBSET ToSet(g)
    PROVE  Selection(Kept(g, S), g, S) /\ Len(Kept(g, S)) = Cardinality(S)
<1>1. PICK s : s = Kept(g, S)
  OBVIOUS
<1>2. PICK below : below = BelowIn(g, S)
  OBVIOUS
<1>3. Arranges(s, S, below)
  BY <1>1, <1>2, KeptIs
<1>4. Cardinality(S) \in Nat
  BY GroupRanks, FS_Subset, FS_CardinalityType
<1>5. s \in Seq(S) /\ Len(s) = Cardinality(S)
  BY <1>3, <1>4 DEF Arranges
<1>6. ToSet(s) = S
  <2>1. DOMAIN s = 1 .. Cardinality(S)
    BY <1>3 DEF Arranges
  <2>2. ASSUME NEW q \in S PROVE q \in ToSet(s)
    <3>1. Cardinality(below[q]) + 1 \in 1 .. Cardinality(S) /\ s[Cardinality(below[q]) + 1] = q
      BY <1>3, <1>4 DEF Arranges
    <3> QED BY <2>1, <3>1 DEF ToSet
  <2>3. ToSet(s) \subseteq S
    BY <1>3, <2>1 DEF ToSet, Arranges
  <2> QED BY <2>2, <2>3
<1>7. ASSUME NEW i \in 1 .. Len(s), NEW j \in 1 .. Len(s), i < j
      PROVE  GroupRank(g, s[i]) < GroupRank(g, s[j])
  <2>1. s[i] \in below[s[j]] /\ s[j] \in S
    BY <1>3, <1>5, <1>7 DEF Arranges
  <2> QED BY <1>2, <2>1 DEF BelowIn
<1> QED BY <1>1, <1>5, <1>6, <1>7 DEF Selection

\* The members of the ranks a .. b - 1.
Block(g, a, b) == {g[i] : i \in a + 1 .. b}

LEMMA BlockFacts ==
    ASSUME NEW P, NEW g \in Seq(P), Distinct(g), NEW a \in Nat, NEW b \in Nat, a <= b, b <= Len(g)
    PROVE  /\ Block(g, a, b) \subseteq ToSet(g)
           /\ \A p \in ToSet(g) : p \in Block(g, a, b) <=> a <= GroupRank(g, p) /\ GroupRank(g, p) < b
           /\ Cardinality(Block(g, a, b)) = b - a
<1>1. Len(g) \in Nat /\ DOMAIN g = 1 .. Len(g)
  OBVIOUS
<1>2. PICK S : S = Block(g, a, b)
  OBVIOUS
<1>3. S \subseteq ToSet(g)
  BY <1>1, <1>2 DEF Block, ToSet
<1>4. ASSUME NEW p \in ToSet(g)
      PROVE  p \in S <=> a <= GroupRank(g, p) /\ GroupRank(g, p) < b
  <2>1. PICK r \in 0 .. Len(g) - 1 : GroupRank(g, p) = r /\ g[r + 1] = p
    BY GroupRanks
  <2>2. p \in S => a <= r /\ r < b
    <3>1. SUFFICES ASSUME p \in S PROVE a <= r /\ r < b
      OBVIOUS
    <3>2. PICK i \in a + 1 .. b : p = g[i]
      BY <1>2, <3>1 DEF Block
    <3>3. i = r + 1
      BY <1>1, <2>1, <3>2 DEF Distinct
    <3> QED BY <3>2, <3>3
  <2>3. a <= r /\ r < b => p \in S
    BY <1>2, <2>1 DEF Block
  <2> QED BY <2>1, <2>2, <2>3
<1>5. PICK f : f = [i \in a + 1 .. b |-> g[i]]
  OBVIOUS
<1>6. f \in Bijection(a + 1 .. b, S)
  <2>1. f \in [a + 1 .. b -> S]
    BY <1>2, <1>5 DEF Block
  <2>2. \A p \in S : \E i \in a + 1 .. b : f[i] = p
    BY <1>2, <1>5 DEF Block
  <2>3. \A i, j \in a + 1 .. b : f[i] = f[j] => i = j
    BY <1>1, <1>5 DEF Distinct
  <2> QED BY <2>1, <2>2, <2>3 DEF Bijection, Injection, Surjection, IsInjective
<1>7. IsFiniteSet(a + 1 .. b) /\ Cardinality(a + 1 .. b) = b - a
  <2>1. PICK c \in Int : c = a + 1
    OBVIOUS
  <2>2. IsFiniteSet(c .. b) /\ Cardinality(c .. b) = IF c > b THEN 0 ELSE b - c + 1
    BY FS_Interval
  <2> QED BY <2>1, <2>2
<1>8. Cardinality(S) = b - a
  BY <1>6, <1>7, FS_Bijection DEF ExistsBijection
<1> QED BY <1>2, <1>3, <1>4, <1>8

\* h has the members of the ranks a .. b - 1 in their order.
Neighbours(h, g, a, b) ==
    DOMAIN h = 1 .. b - a /\ Len(h) = b - a /\ \A j \in 1 .. b - a : h[j] = g[a + j]

\* Neighbours that are kept stay neighbours.
LEMMA BlockKept ==
    ASSUME NEW P, NEW g \in Seq(P), Distinct(g), NEW a \in Nat, NEW b \in Nat, a <= b, b <= Len(g)
    PROVE  /\ Kept(g, Block(g, a, b)) = [i \in 1 .. b - a |-> g[a + i]]
           /\ Neighbours(Kept(g, Block(g, a, b)), g, a, b)
<1>1. PICK S : S = Block(g, a, b)
  OBVIOUS
<1>2. PICK s : s = Kept(g, S)
  OBVIOUS
<1>3. PICK below : below = BelowIn(g, S)
  OBVIOUS
<1>4. /\ S \subseteq ToSet(g) /\ Cardinality(S) = b - a
      /\ \A p \in ToSet(g) : p \in S <=> a <= GroupRank(g, p) /\ GroupRank(g, p) < b
  BY <1>1, BlockFacts
<1>5. Arranges(s, S, below)
  BY <1>2, <1>3, <1>4, KeptIs
<1>6. ASSUME NEW i \in 1 .. b - a PROVE s[i] = g[a + i]
  <2>1. PICK q : q = g[a + i]
    OBVIOUS
  <2>2. q \in ToSet(g) /\ GroupRank(g, q) = a + i - 1
    BY <2>1, GroupRanks
  <2>3. q \in S
    BY <1>4, <2>2
  <2>4. PICK c \in Nat : c = a + i - 1
    OBVIOUS
  <2>5. below[q] = Block(g, a, c)
    <3>1. \A p \in ToSet(g) : GroupRank(g, p) \in Nat
      BY GroupRanks
    <3>2. /\ Block(g, a, c) \subseteq ToSet(g)
          /\ \A p \in ToSet(g) : p \in Block(g, a, c) <=> a <= GroupRank(g, p) /\ GroupRank(g, p) < c
      <4>1. a <= c /\ c <= Len(g)
        BY <2>4
      <4> QED BY <4>1, BlockFacts
    <3>3. below[q] = {p \in S : GroupRank(g, p) < GroupRank(g, q)}
      BY <1>3, <2>3 DEF BelowIn
    <3> QED BY <1>4, <2>2, <2>4, <3>1, <3>2, <3>3
  <2>6. Cardinality(below[q]) = i - 1
    <3>1. a <= c /\ c <= Len(g)
      BY <2>4
    <3>2. Cardinality(Block(g, a, c)) = c - a
      BY <3>1, BlockFacts
    <3>3. c - a = i - 1
      BY <2>4
    <3> QED BY <2>5, <3>2, <3>3
  <2>7. s[Cardinality(below[q]) + 1] = q
    BY <1>5, <2>3 DEF Arranges
  <2> QED BY <2>1, <2>6, <2>7
<1>7. s = [i \in 1 .. b - a |-> s[i]]
  BY <1>4, <1>5 DEF Arranges
<1>8. s = [i \in 1 .. b - a |-> g[a + i]]
  BY <1>6, <1>7
<1>9. Neighbours(s, g, a, b)
  <2>1. PICK n \in Nat : n = b - a
    <3>1. b - a \in Nat
      OBVIOUS
    <3> QED BY <3>1
  <2>2. s = [i \in 1 .. n |-> s[i]]
    BY <1>7, <2>1
  <2>3. DOMAIN s = 1 .. n /\ Len(s) = n
    BY <2>2
  <2> QED BY <1>6, <2>1, <2>3 DEF Neighbours
<1> QED BY <1>1, <1>2, <1>8, <1>9

-----------------------------------------------------------------------------
(* Communicators whose members hold the same.                              *)

IsComm(c, P) ==
    /\ c = [members |-> c.members, dims |-> c.dims, periods |-> c.periods]
    /\ c.members \in Seq(P) /\ Distinct(c.members)

\* What each process holds is null, or a communicator that it is a member of and that
\* all members hold, with the members in the same order.
Sound(held, P) ==
    \A p \in P :
        /\ IsComm(held[p], P)
        /\ held[p] # Empty => p \in ToSet(held[p].members)
        /\ \A q \in ToSet(held[p].members) : held[q] = held[p]

\* The inductive invariant of splitting.
MembersAgree == Sound(comm, Processes)

\* The null communicator has no members, and is a communicator as far as its shape goes.
LEMMA EmptyIs ==
    /\ Empty.members = <<>> /\ ToSet(Empty.members) = {}
    /\ \A P : IsComm(Empty, P)
<1>1. Empty.members = <<>>
  BY DEF Empty, Plain
<1>2. Len(<<>>) = 0 /\ DOMAIN <<>> = {}
  OBVIOUS
<1> QED BY <1>1, <1>2 DEF Empty, Plain, ToSet, IsComm, Distinct

\* The ranks of members, and what they hold.
LEMMA MembersHold ==
    ASSUME MembersAgree, NEW p \in Processes, NEW q \in Members(p)
    PROVE  /\ q \in Processes /\ q \in Holders /\ Holds(p) /\ Holds(q)
           /\ comm[q] = comm[p] /\ Members(q) = Members(p) /\ Size(q) = Size(p)
           /\ Rank(q) = GroupRank(comm[p].members, q) /\ Rank(q) \in 0 .. Size(p) - 1
           /\ RankIn(comm[p], q) = Rank(q) /\ Ranks[q] = Rank(q)
<1>1. comm[p].members \in Seq(Processes) /\ Distinct(comm[p].members)
  BY DEF MembersAgree, Sound, IsComm
<1>2. q \in ToSet(comm[p].members) /\ q \in Processes
  BY <1>1, GroupRanks DEF Members
<1>3. comm[q] = comm[p]
  BY <1>2 DEF MembersAgree, Sound
<1>4. Holds(p)
  BY <1>2, EmptyIs DEF Holds
<1>5. RankIn(comm[p], q) = GroupRank(comm[p].members, q)
  <2>1. PICK g : g = comm[p].members /\ q \in ToSet(g)
    BY <1>2
  <2>2. GroupRank(g, q) = CHOOSE r \in 0 .. Len(g) - 1 : g[r + 1] = q
    BY <2>1 DEF GroupRank
  <2>3. RankIn(comm[p], q) = CHOOSE r \in 0 .. Len(g) - 1 : g[r + 1] = q
    BY <2>1 DEF RankIn
  <2> QED BY <2>1, <2>2, <2>3
<1>6. GroupRank(comm[p].members, q) \in 0 .. Len(comm[p].members) - 1
  BY <1>1, <1>2, GroupRanks
<1> QED
  BY <1>2, <1>3, <1>4, <1>5, <1>6 DEF Holds, Holders, Members, Size, Rank, Ranks

\* One that holds a communicator is a member.
LEMMA HolderIsMember ==
    ASSUME MembersAgree, NEW p \in Processes, Holds(p)
    PROVE  /\ p \in Members(p) /\ p \in Holders
           /\ comm[p].members \in Seq(Processes) /\ Distinct(comm[p].members)
           /\ Members(p) = ToSet(comm[p].members) /\ Size(p) = Len(comm[p].members)
           /\ Size(p) \in Nat \ {0}
<1>1. comm[p].members \in Seq(Processes) /\ Distinct(comm[p].members)
  BY DEF MembersAgree, Sound, IsComm
<1>2. p \in ToSet(comm[p].members)
  BY DEF MembersAgree, Sound, Holds
<1>3. Len(comm[p].members) \in Nat \ {0}
  BY <1>1, <1>2, GroupRanks
<1> QED BY <1>1, <1>2, <1>3 DEF Members, Holders, Size, Holds

\* The sequence of a finite order is one of its elements without repetition.
LEMMA ArrangedSeq ==
    ASSUME NEW S, NEW s, NEW below, IsFiniteSet(S), Arranges(s, S, below)
    PROVE  s \in Seq(S) /\ Len(s) = Cardinality(S) /\ Distinct(s) /\ ToSet(s) = S
<1>1. Cardinality(S) \in Nat
  BY FS_CardinalityType
<1>2. s \in Seq(S) /\ Len(s) = Cardinality(S) /\ DOMAIN s = 1 .. Cardinality(S)
  BY <1>1 DEF Arranges
<1>3. Distinct(s)
  <2>1. ASSUME NEW i \in 1 .. Len(s), NEW j \in 1 .. Len(s), s[i] = s[j] PROVE i = j
    <3>1. Cardinality(below[s[i]]) = i - 1 /\ Cardinality(below[s[j]]) = j - 1
      BY <1>2 DEF Arranges
    <3>2. i - 1 = j - 1
      BY <2>1, <3>1
    <3> QED BY <1>1, <1>2, <3>2
  <2> QED BY <2>1 DEF Distinct
<1>4. ASSUME NEW q \in S PROVE q \in ToSet(s)
  <2>1. Cardinality(below[q]) + 1 \in 1 .. Cardinality(S) /\ s[Cardinality(below[q]) + 1] = q
    BY <1>1 DEF Arranges
  <2> QED BY <1>2, <2>1 DEF ToSet
<1>5. ToSet(s) \subseteq S
  BY <1>2 DEF ToSet, Arranges
<1> QED BY <1>2, <1>3, <1>4, <1>5

\* MPI's order of a split, by any keys, has each member once.
LEMMA OrderedIs ==
    ASSUME MembersAgree, NEW p \in Processes, NEW S \in SUBSET Members(p),
           NEW key, \A q \in S : key[q] \in Int
    PROVE  Ordered(S, key) \in Seq(S) /\ Distinct(Ordered(S, key)) /\ ToSet(Ordered(S, key)) = S
<1>1. comm[p].members \in Seq(Processes) /\ Distinct(comm[p].members)
  BY DEF MembersAgree, Sound, IsComm
<1>2. IsFiniteSet(S)
  BY <1>1, GroupRanks, FS_Subset DEF Members
<1>3. \A q \in S : Rank(q) = GroupRank(comm[p].members, q) /\ Rank(q) \in Int
  BY MembersHold
<1>4. \A q, s \in S : Rank(q) = Rank(s) => q = s
  BY <1>1, <1>3, GroupRanks DEF Members
<1>5. PICK below : below = [q \in S |-> {s \in S : key[s] < key[q] \/ (key[s] = key[q] /\ Rank(s) < Rank(q))}]
  OBVIOUS
<1>6. below \in [S -> SUBSET S]
  BY <1>5
<1>7. \A q, s \in S : s \in below[q] <=> key[s] < key[q] \/ (key[s] = key[q] /\ Rank(s) < Rank(q))
  BY <1>5
<1>8. \A q \in S : q \notin below[q]
  BY <1>3, <1>7
<1>9. \A q, s \in S : s \in below[q] => below[s] \subseteq below[q]
  BY <1>3, <1>6, <1>7
<1>10. \A q, s \in S : q = s \/ q \in below[s] \/ s \in below[q]
  BY <1>3, <1>4, <1>7
<1>11. Arranges(InOrder(S, below), S, below)
  BY <1>2, <1>6, <1>8, <1>9, <1>10, InOrderArranges
<1>12. Ordered(S, key) = InOrder(S, below)
  BY <1>5 DEF Ordered
<1> QED BY <1>2, <1>11, <1>12, ArrangedSeq

\* Members that hold the same get the same by any split.
LEMMA SplitOffAgrees ==
    ASSUME MembersAgree, NEW p \in Processes, NEW q \in Members(p), NEW color, NEW key,
           color[q] = color[p]
    PROVE  SplitOff(q, color, key) = SplitOff(p, color, key)
BY MembersHold DEF SplitOff

LEMMA SplitSound ==
    ASSUME MembersAgree, NEW color, NEW key, \A q \in Holders : key[q] \in Int
    PROVE  Sound([p \in Processes |-> SplitOff(p, color, key)], Processes)
<1>1. PICK held : held = [p \in Processes |-> SplitOff(p, color, key)]
  OBVIOUS
<1>2. ASSUME NEW p \in Processes
      PROVE  /\ IsComm(held[p], Processes)
             /\ held[p] # Empty => p \in ToSet(held[p].members)
             /\ \A q \in ToSet(held[p].members) : held[q] = held[p]
  <2>1. CASE held[p] = Empty
    BY <2>1, EmptyIs
  <2>2. CASE held[p] # Empty
    <3>1. PICK S : S = {q \in Members(p) : color[q] = color[p]}
      OBVIOUS
    <3>2. Holds(p) /\ held[p] = Plain(Ordered(S, key))
      BY <1>1, <2>2, <3>1 DEF SplitOff
    <3>3. S \in SUBSET Members(p) /\ \A q \in S : key[q] \in Int
      BY <3>1, MembersHold
    <3>4. PICK s : s = Ordered(S, key)
      OBVIOUS
    <3>5. s \in Seq(S) /\ Distinct(s) /\ ToSet(s) = S
      BY <3>3, <3>4, OrderedIs
    <3>6. S \subseteq Processes
      BY <3>1, MembersHold
    <3>7. s \in Seq(Processes)
      BY <3>5, <3>6
    <3>8. held[p].members = s /\ IsComm(held[p], Processes)
      BY <3>2, <3>4, <3>5, <3>7 DEF Plain, IsComm
    <3>9. p \in S
      BY <3>1, <3>2, HolderIsMember
    <3>10. ASSUME NEW q \in S PROVE held[q] = held[p]
      BY <1>1, <3>1, <3>6, <3>10, SplitOffAgrees
    <3> QED BY <3>5, <3>8, <3>9, <3>10
  <2> QED BY <2>1, <2>2
<1> QED BY <1>1, <1>2 DEF Sound

\* The ranks are numbers, and so are those counted from the end.
LEMMA KeysAreNumbers ==
    ASSUME MembersAgree
    PROVE  \A q \in Holders : Ranks[q] \in Int /\ Size(q) - Rank(q) \in Int
<1>1. ASSUME NEW q \in Holders PROVE Ranks[q] \in Int /\ Size(q) - Rank(q) \in Int
  <2>1. q \in Processes /\ Holds(q)
    BY DEF Holders
  <2>2. q \in Members(q) /\ Size(q) \in Nat
    BY <2>1, HolderIsMember
  <2>3. Rank(q) \in 0 .. Size(q) - 1 /\ Ranks[q] = Rank(q)
    BY <2>1, <2>2, MembersHold
  <2> QED BY <2>2, <2>3
<1> QED BY <1>1

\* What all processes hold, once assigned.
LEMMA SoundNext ==
    ASSUME NEW held, comm' = [p \in Processes |-> held[p]], Sound(held, Processes)
    PROVE  MembersAgree'
<1>1. Processes' = Processes
  BY DEF Processes
<1>2. PICK P : P = Processes
  OBVIOUS
<1>3. PICK new : new = comm'
  OBVIOUS
<1>4. \A p \in P : new[p] = held[p]
  BY <1>2, <1>3
<1>5. ASSUME NEW p \in P, NEW q \in ToSet(held[p].members) PROVE q \in P
  <2>1. held[p].members \in Seq(P)
    BY <1>2 DEF Sound, IsComm
  <2>2. DOMAIN held[p].members = 1 .. Len(held[p].members)
    BY <2>1
  <2> QED BY <2>1, <2>2 DEF ToSet
<1>6. Sound(new, P)
  BY <1>2, <1>4, <1>5 DEF Sound
<1> QED BY <1>1, <1>2, <1>3, <1>6 DEF MembersAgree

-----------------------------------------------------------------------------
(* Groups, by their operations.                                            *)

\* What is kept is kept of the members.
LEMMA KeptOfMembers ==
    ASSUME NEW g, NEW S
    PROVE  Kept(g, S) = Kept(g, ToSet(g) \cap S)
<1>1. ToSet(g) \cap S = ToSet(g) \cap (ToSet(g) \cap S)
  OBVIOUS
<1> QED BY Zenon, <1>1 DEF Kept

\* A selection has each of its members once.
LEMMA SelectionDistinct ==
    ASSUME NEW P, NEW g \in Seq(P), Distinct(g), NEW S \in SUBSET ToSet(g), NEW s, Selection(s, g, S)
    PROVE  Distinct(s) /\ s \in Seq(P)
<1>1. s \in Seq(S) /\ Len(s) \in Nat
  BY DEF Selection
<1>2. ASSUME NEW i \in 1 .. Len(s), NEW j \in 1 .. Len(s), s[i] = s[j] PROVE i = j
  <2>1. s[i] \in ToSet(g)
    BY <1>1
  <2>2. PICK r \in Nat : r = GroupRank(g, s[i])
    BY <2>1, GroupRanks
  <2>3. ~(i < j) /\ ~(j < i)
    BY <1>2, <2>2 DEF Selection
  <2> QED BY <1>1, <2>3
<1>3. S \subseteq P
  BY GroupRanks
<1> QED BY <1>1, <1>2, <1>3 DEF Distinct

\* A part of the ranks that is sliced, or included.
LEMMA SlicedBlock ==
    ASSUME NEW P, NEW g \in Seq(P), Distinct(g), NEW a \in Nat, NEW b \in Nat, a <= b, b <= Len(g)
    PROVE  Sliced(g, a, b, 1) = Kept(g, Block(g, a, b))
<1>1. (b - 1 - a) \div 1 + 1 = b - a
  OBVIOUS
<1>2. PICK ranks : ranks = [i \in 1 .. (b - 1 - a) \div 1 + 1 |-> a + (i - 1) * 1]
  OBVIOUS
<1>3. DOMAIN ranks = 1 .. b - a /\ \A i \in 1 .. b - a : ranks[i] + 1 = a + i
  BY <1>1, <1>2
<1>4. Sliced(g, a, b, 1) = Include(g, ranks)
  BY <1>2 DEF Sliced
<1>5. Include(g, ranks) = [i \in 1 .. b - a |-> g[a + i]]
  BY <1>3 DEF Include
<1> QED BY <1>4, <1>5, BlockKept

LEMMA IncludeBlock ==
    ASSUME NEW P, NEW g \in Seq(P), Distinct(g), NEW n \in Nat, n < Len(g)
    PROVE  Include(g, [i \in 1 .. n + 1 |-> i - 1]) = Kept(g, Block(g, 0, n + 1))
<1>1. PICK a \in Nat, b \in Nat : a = 0 /\ b = n + 1 /\ a <= b /\ b <= Len(g)
  <2>1. Len(g) \in Nat
    OBVIOUS
  <2> QED BY <2>1
<1>2. Sliced(g, a, b, 1) = Kept(g, Block(g, a, b))
  BY <1>1, SlicedBlock
<1>3. (b - 1 - a) \div 1 + 1 = n + 1
  BY <1>1
<1>4. \A i \in 1 .. n + 1 : a + (i - 1) * 1 = i - 1
  BY <1>1
<1>5. [i \in 1 .. (b - 1 - a) \div 1 + 1 |-> a + (i - 1) * 1] = [i \in 1 .. n + 1 |-> i - 1]
  BY <1>3, <1>4
<1>6. Sliced(g, a, b, 1) = Include(g, [i \in 1 .. n + 1 |-> i - 1])
  BY <1>5 DEF Sliced
<1> QED BY <1>1, <1>2, <1>6

\* The members whose ranks compare true.
Chosen(op, n, g) == {p \in ToSet(g) : Compare(op, GroupRank(g, p), n) = 0}

\* What a comparison means.
LEMMA Compares ==
    ASSUME NEW r \in Int, NEW n \in Int
    PROVE  /\ Compare("<", r, n) = 0 <=> r < n
           /\ Compare("<=", r, n) = 0 <=> r <= n
           /\ Compare(">", r, n) = 0 <=> r > n
           /\ Compare(">=", r, n) = 0 <=> r >= n
           /\ Compare("==", r, n) = 0 <=> r = n
BY DEF Compare, Undefined

\* The choice by group operations is the choice by ranks.
LEMMA ComparingSelects ==
    ASSUME NEW P, NEW g \in Seq(P), Distinct(g), NEW n \in Nat, n < Len(g), NEW op \in Comparisons
    PROVE  Selection(Comparing(op, n, g), g, Chosen(op, n, g))
<1>1. Len(g) \in Nat
  OBVIOUS
<1>2. PICK m \in Nat : m = n + 1 /\ m <= Len(g)
  BY <1>1
<1>3. ASSUME NEW p \in ToSet(g)
      PROVE  GroupRank(g, p) \in Nat /\ GroupRank(g, p) < Len(g)
  BY GroupRanks
<1>4. /\ Chosen("<", n, g) = Block(g, 0, n) /\ Chosen("<=", n, g) = Block(g, 0, m)
      /\ Chosen(">", n, g) = ToSet(g) \ Block(g, 0, m)
      /\ Chosen(">=", n, g) = ToSet(g) \ Block(g, 0, n)
      /\ Chosen("==", n, g) = Block(g, n, Len(g)) \cap Block(g, 0, m)
  <2>1. /\ Block(g, 0, n) \subseteq ToSet(g) /\ Block(g, 0, m) \subseteq ToSet(g)
        /\ Block(g, n, Len(g)) \subseteq ToSet(g)
    <3>1. 0 \in Nat /\ 0 <= n /\ n <= Len(g) /\ 0 <= m /\ Len(g) <= Len(g)
      BY <1>1
    <3>2. Block(g, 0, n) \subseteq ToSet(g)
      BY <3>1, BlockFacts
    <3>3. Block(g, 0, m) \subseteq ToSet(g)
      BY <1>2, <3>1, BlockFacts
    <3>4. Block(g, n, Len(g)) \subseteq ToSet(g)
      BY <1>1, <3>1, BlockFacts
    <3> QED BY <3>2, <3>3, <3>4
  <2>2. ASSUME NEW p \in ToSet(g)
        PROVE  /\ p \in Block(g, 0, n) <=> GroupRank(g, p) < n
               /\ p \in Block(g, 0, m) <=> GroupRank(g, p) <= n
               /\ p \in Block(g, n, Len(g)) <=> n <= GroupRank(g, p)
    <3>1. p \in Block(g, 0, n) <=> 0 <= GroupRank(g, p) /\ GroupRank(g, p) < n
      BY <1>1, BlockFacts
    <3>2. p \in Block(g, 0, m) <=> 0 <= GroupRank(g, p) /\ GroupRank(g, p) < m
      BY <1>1, <1>2, BlockFacts
    <3>3. p \in Block(g, n, Len(g)) <=> n <= GroupRank(g, p) /\ GroupRank(g, p) < Len(g)
      BY <1>1, BlockFacts
    <3> QED BY <1>2, <1>3, <3>1, <3>2, <3>3
  <2>3. ASSUME NEW p \in ToSet(g)
        PROVE  /\ p \in Chosen("<", n, g) <=> GroupRank(g, p) < n
               /\ p \in Chosen("<=", n, g) <=> GroupRank(g, p) <= n
               /\ p \in Chosen(">", n, g) <=> GroupRank(g, p) > n
               /\ p \in Chosen(">=", n, g) <=> GroupRank(g, p) >= n
               /\ p \in Chosen("==", n, g) <=> GroupRank(g, p) = n
    BY <1>3, Compares DEF Chosen
  <2>4. \A o : Chosen(o, n, g) \subseteq ToSet(g)
    BY DEF Chosen
  <2>5. Chosen("<", n, g) = Block(g, 0, n)
    BY <2>1, <2>2, <2>3, <2>4
  <2>6. Chosen("<=", n, g) = Block(g, 0, m)
    BY <2>1, <2>2, <2>3, <2>4
  <2>7. Chosen(">", n, g) = ToSet(g) \ Block(g, 0, m)
    <3>1. \A p \in ToSet(g) : GroupRank(g, p) > n <=> ~(GroupRank(g, p) <= n)
      BY <1>3
    <3> QED BY <2>2, <2>3, <2>4, <3>1
  <2>8. Chosen(">=", n, g) = ToSet(g) \ Block(g, 0, n)
    <3>1. \A p \in ToSet(g) : GroupRank(g, p) >= n <=> ~(GroupRank(g, p) < n)
      BY <1>3
    <3> QED BY <2>2, <2>3, <2>4, <3>1
  <2>9. Chosen("==", n, g) = Block(g, n, Len(g)) \cap Block(g, 0, m)
    <3>1. \A p \in ToSet(g) : GroupRank(g, p) = n <=> n <= GroupRank(g, p) /\ GroupRank(g, p) <= n
      BY <1>3
    <3> QED BY <2>1, <2>2, <2>3, <2>4, <3>1
  <2> QED BY <2>5, <2>6, <2>7, <2>8, <2>9
<1>5. \A o : Chosen(o, n, g) \in SUBSET ToSet(g)
  BY DEF Chosen
<1>6. CASE op = "<"
  <2>1. Comparing(op, n, g) = Kept(g, Block(g, 0, n))
    BY <1>1, <1>6, SlicedBlock DEF Comparing
  <2> QED BY <1>4, <1>5, <1>6, <2>1, KeptSelects
<1>7. CASE op = "<="
  <2>1. Comparing(op, n, g) = Kept(g, Block(g, 0, m))
    BY <1>2, <1>7, IncludeBlock DEF Comparing
  <2> QED BY <1>4, <1>5, <1>7, <2>1, KeptSelects
<1>8. CASE op = ">"
  <2>1. PICK ranks : ranks = [i \in 1 .. n + 1 |-> i - 1]
    OBVIOUS
  <2>2. ToSet(ranks) = 0 .. n
    <3>1. DOMAIN ranks = 1 .. n + 1 /\ \A i \in 1 .. n + 1 : ranks[i] = i - 1
      BY <2>1
    <3>2. ASSUME NEW k \in 0 .. n PROVE k \in ToSet(ranks)
      <4>1. k + 1 \in 1 .. n + 1 /\ ranks[k + 1] = k
        BY <3>1
      <4> QED BY <3>1, <4>1 DEF ToSet
    <3>3. ToSet(ranks) \subseteq 0 .. n
      BY <3>1 DEF ToSet
    <3> QED BY <3>2, <3>3
  <2>3. Comparing(op, n, g) = Exclude(g, ranks)
    BY <1>8, <2>1 DEF Comparing
  <2>4. {p \in ToSet(g) : GroupRank(g, p) \notin ToSet(ranks)} = Chosen(op, n, g)
    BY <1>3, <1>8, <2>2, Compares DEF Chosen
  <2>5. Comparing(op, n, g) = Kept(g, Chosen(op, n, g))
    BY <2>3, <2>4 DEF Exclude
  <2> QED BY <1>5, <2>5, KeptSelects
<1>9. CASE op = ">="
  <2>1. Block(g, 0, n) \in SUBSET ToSet(g)
    BY <1>1, BlockFacts
  <2>2. Sliced(g, 0, n, 1) = Kept(g, Block(g, 0, n))
    BY <1>1, SlicedBlock
  <2>3. ToSet(Sliced(g, 0, n, 1)) = Block(g, 0, n)
    BY <2>1, <2>2, KeptSelects DEF Selection
  <2>4. Comparing(op, n, g) = Difference(g, Sliced(g, 0, n, 1))
    BY <1>9 DEF Comparing
  <2>5. Comparing(op, n, g) = Kept(g, Chosen(op, n, g))
    BY <1>4, <1>9, <2>3, <2>4 DEF Difference
  <2> QED BY <1>5, <2>5, KeptSelects
<1>10. CASE op = "=="
  <2>1. PICK h : h = Sliced(g, n, Len(g), 1)
    OBVIOUS
  <2>2. Block(g, n, Len(g)) \in SUBSET ToSet(g) /\ Block(g, 0, m) \in SUBSET ToSet(g)
    BY <1>1, <1>2, BlockFacts
  <2>3. h = Kept(g, Block(g, n, Len(g)))
    BY <1>1, <2>1, SlicedBlock
  <2>4. Selection(h, g, Block(g, n, Len(g)))
    BY <2>2, <2>3, KeptSelects
  <2>5. Distinct(h) /\ h \in Seq(P) /\ ToSet(h) = Block(g, n, Len(g))
    BY <2>2, <2>4, SelectionDistinct DEF Selection
  <2>6. ToSet(Sliced(g, 0, n + 1, 1)) = Block(g, 0, m)
    <3>1. Sliced(g, 0, m, 1) = Kept(g, Block(g, 0, m))
      BY <1>1, <1>2, SlicedBlock
    <3> QED BY <1>2, <2>2, <3>1, KeptSelects DEF Selection
  <2>7. Comparing(op, n, g) = Intersection(h, Sliced(g, 0, n + 1, 1))
    BY <1>10, <2>1 DEF Comparing
  <2>8. PICK S : S = Chosen(op, n, g)
    OBVIOUS
  <2>9. S = ToSet(h) \cap Block(g, 0, m) /\ S \in SUBSET ToSet(h)
    BY <1>4, <1>10, <2>5, <2>8
  <2>10. Comparing(op, n, g) = Kept(h, S)
    BY <2>6, <2>7, <2>9, KeptOfMembers DEF Intersection
  <2>11. Selection(Kept(h, S), h, S) /\ Len(Kept(h, S)) = Cardinality(S)
    BY <2>5, <2>9, KeptSelects
  <2>12. Cardinality(S) = 1
    <3>1. \A p \in ToSet(g) : p \in S <=> GroupRank(g, p) = n
      BY <1>3, <1>10, <2>8, Compares DEF Chosen
    <3>2. S \subseteq ToSet(g)
      BY <1>5, <2>8
    <3>3. g[n + 1] \in ToSet(g) /\ GroupRank(g, g[n + 1]) = n
      BY <1>1, <1>2, GroupRanks
    <3>4. \A p, q \in ToSet(g) : GroupRank(g, p) = GroupRank(g, q) => p = q
      BY GroupRanks
    <3>5. S = {g[n + 1]}
      BY <3>1, <3>2, <3>3, <3>4
    <3> QED BY <3>5, FS_Singleton
  <2>13. Selection(Kept(h, S), g, S)
    BY <2>11, <2>12 DEF Selection
  <2> QED BY <2>8, <2>10, <2>13
<1> QED BY <1>6, <1>7, <1>8, <1>9, <1>10 DEF Comparisons

\* The members whose ranks have the residue r.
Residue(r, n, g) == {p \in ToSet(g) : GroupRank(g, p) % n = r}

LEMMA Remainder ==
    ASSUME NEW b \in Nat \ {0}, NEW q \in Nat, NEW r \in 0 .. b - 1
    PROVE  (b * q + r) % b = r
<1>1. PICK a \in Nat : a = b * q + r
  <2>1. b * q \in Nat
    BY SMT
  <2> QED BY <2>1
<1>2. b * q <= a /\ a < b * q + b
  BY <1>1, SMT
<1>3. a \div b = q
  BY <1>2, Quotient
<1>4. a = b * (a \div b) + (a % b) /\ a % b \in 0 .. b - 1
  BY DivMod
<1>5. a = b * q + (a % b)
  BY <1>3, <1>4
<1>6. PICK m \in Nat, x \in Nat : m = b * q /\ x = a % b
  <2>1. b * q \in Nat
    BY SMT
  <2> QED BY <1>4, <2>1
<1> QED BY <1>1, <1>5, <1>6

\* Every stride-th rank is every rank of the same residue.
LEMMA StrideSelects ==
    ASSUME NEW P, NEW g \in Seq(P), Distinct(g), NEW n \in Nat \ {0}, n <= Len(g), NEW r \in 0 .. n - 1
    PROVE  Selection(Sliced(g, r, Len(g), n), g, Residue(r, n, g))
<1>1. PICK size \in Nat \ {0} : size = Len(g) /\ r < size
  <2>1. Len(g) \in Nat
    OBVIOUS
  <2> QED BY <2>1
<1>2. PICK over \in Nat : over = size - 1 - r
  <2>1. size - 1 - r \in Nat
    BY <1>1
  <2> QED BY <2>1
<1>3. PICK k \in Nat : k = over \div n /\ n * k <= over /\ over < n * k + n
  BY QuotientBounds
<1>4. ASSUME NEW j \in Nat
      PROVE  n * j \in Nat /\ (j <= k <=> r + n * j < size)
  <2>1. n * j \in Nat /\ n * k \in Nat
    BY SMT
  <2>2. j <= k => n * j <= n * k
    BY ProductMonotone
  <2>3. ~(j <= k) => n * k + n <= n * j
    <3>1. SUFFICES ASSUME k + 1 <= j PROVE n * k + n <= n * j
      OBVIOUS
    <3>2. k + 1 \in Nat
      OBVIOUS
    <3>3. n * (k + 1) <= n * j
      BY <3>1, <3>2, ProductMonotone
    <3>4. n * (k + 1) = n * k + n
      BY SMT
    <3> QED BY <3>3, <3>4
  <2> QED BY <1>1, <1>2, <1>3, <2>1, <2>2, <2>3
<1>5. PICK ranks : ranks = [i \in 1 .. (size - 1 - r) \div n + 1 |-> r + (i - 1) * n]
  OBVIOUS
<1>6. DOMAIN ranks = 1 .. k + 1
  BY <1>2, <1>3, <1>5
<1>7. ASSUME NEW i \in 1 .. k + 1
      PROVE  /\ ranks[i] \in Nat /\ ranks[i] < size /\ ranks[i] % n = r /\ ranks[i] = n * (i - 1) + r
  <2>1. PICK j \in Nat : j = i - 1
    OBVIOUS
  <2>2. ranks[i] = r + j * n
    BY <1>5, <1>6, <2>1
  <2>3. n * j \in Nat /\ j * n = n * j /\ r + n * j < size
    <3>1. j <= k
      BY <2>1
    <3>2. j * n = n * j
      BY SMT
    <3> QED BY <1>4, <3>1, <3>2
  <2>4. ranks[i] = n * j + r
    BY <2>2, <2>3
  <2>5. ranks[i] % n = r
    BY <2>4, Remainder
  <2>6. ranks[i] \in Nat /\ ranks[i] < size
    BY <2>3, <2>4
  <2> QED BY <2>1, <2>4, <2>5, <2>6
<1>8. PICK s : s = Sliced(g, r, size, n)
  OBVIOUS
<1>9. s = [i \in 1 .. k + 1 |-> g[ranks[i] + 1]]
  <2>1. s = Include(g, ranks)
    BY <1>5, <1>8 DEF Sliced
  <2> QED BY <1>6, <2>1 DEF Include
<1>10. ASSUME NEW i \in 1 .. k + 1
       PROVE  s[i] \in ToSet(g) /\ GroupRank(g, s[i]) = ranks[i] /\ s[i] \in Residue(r, n, g)
  <2>0. PICK rank \in Nat : rank = ranks[i] /\ rank < size /\ rank % n = r
    BY <1>7
  <2>1. PICK l \in 1 .. Len(g) : l = rank + 1
    <3>1. rank + 1 \in 1 .. Len(g)
      BY <1>1, <2>0
    <3> QED BY <3>1
  <2>2. s[i] = g[l]
    BY <1>9, <2>0, <2>1
  <2>3. s[i] \in ToSet(g) /\ GroupRank(g, s[i]) = l - 1
    BY <2>2, GroupRanks
  <2>4. l - 1 = ranks[i] /\ ranks[i] % n = r
    BY <2>0, <2>1
  <2> QED BY <2>3, <2>4 DEF Residue
<1>11. k + 1 \in Nat /\ DOMAIN s = 1 .. k + 1 /\ Len(s) = k + 1 /\ s \in Seq(Residue(r, n, g))
  BY <1>9, <1>10
<1>12. ASSUME NEW p \in Residue(r, n, g) PROVE p \in ToSet(s)
  <2>1. PICK x \in Nat : x = GroupRank(g, p) /\ x < size /\ g[x + 1] = p /\ x % n = r
    BY <1>1, GroupRanks DEF Residue
  <2>2. PICK j \in Nat : j = x \div n /\ x = n * j + (x % n)
    BY <2>1, DivMod
  <2>3. j <= k
    <3>1. n * j \in Nat /\ (j <= k <=> r + n * j < size)
      BY <1>4
    <3>2. x = n * j + r
      BY <2>1, <2>2
    <3> QED BY <2>1, <3>1, <3>2
  <2>4. PICK i \in 1 .. k + 1 : i = j + 1
    BY <2>3
  <2>5. i - 1 = j
    BY <2>4
  <2>6. ranks[i] = x
    BY <1>7, <2>1, <2>2, <2>5
  <2>7. s[i] = p
    BY <1>9, <2>1, <2>6
  <2> QED BY <1>11, <2>7 DEF ToSet
<1>13. ToSet(s) = Residue(r, n, g)
  BY <1>10, <1>11, <1>12 DEF ToSet
<1>14. ASSUME NEW i \in 1 .. Len(s), NEW j \in 1 .. Len(s), i < j
       PROVE  GroupRank(g, s[i]) < GroupRank(g, s[j])
  <2>1. i - 1 \in Nat /\ j - 1 \in Nat /\ i - 1 < j - 1
    BY <1>11, <1>14
  <2>2. n * (i - 1) < n * (j - 1)
    BY <2>1, SMT
  <2>3. n * (i - 1) \in Nat /\ n * (j - 1) \in Nat
    BY <2>1, SMT
  <2>4. ranks[i] < ranks[j]
    <3>1. ranks[i] = n * (i - 1) + r
      BY <1>7, <1>11
    <3>2. ranks[j] = n * (j - 1) + r
      BY <1>7, <1>11
    <3> QED BY <2>2, <2>3, <3>1, <3>2
  <2> QED BY <1>10, <1>11, <2>4
<1> QED BY <1>1, <1>8, <1>11, <1>13, <1>14 DEF Selection

-----------------------------------------------------------------------------
(* Extents of grids.                                                       *)

\* Functions given by their first value and their steps.
CountsUp(f, N, V, z, step) ==
    f \in [0 .. N -> V] /\ f[0] = z /\ \A k \in 1 .. N : f[k] = step[k][f[k - 1]]

LEMMA CountedUp ==
    ASSUME NEW N \in Nat, NEW V, NEW z \in V, NEW step \in [1 .. N -> [V -> V]]
    PROVE  \E f : CountsUp(f, N, V, z, step)
<1> DEFINE T == {n \in 0 .. N : \E f : CountsUp(f, n, V, z, step)}
<1>1. 0 \in T
  <2>1. CountsUp([k \in 0 .. 0 |-> z], 0, V, z, step)
    BY DEF CountsUp
  <2> QED BY <2>1
<1>2. ASSUME NEW n \in T, n \in 0 .. N - 1 PROVE n + 1 \in T
  <2>1. PICK f : CountsUp(f, n, V, z, step)
    OBVIOUS
  <2>2. PICK v \in V : v = step[n + 1][f[n]]
    <3>1. n + 1 \in 1 .. N /\ f[n] \in V
      BY <1>2, <2>1 DEF CountsUp
    <3> QED BY <3>1
  <2>3. PICK g : g = [k \in 0 .. n + 1 |-> IF k = n + 1 THEN v ELSE f[k]]
    OBVIOUS
  <2>4. g \in [0 .. n + 1 -> V] /\ g[0] = z
    BY <1>2, <2>1, <2>3 DEF CountsUp
  <2>5. ASSUME NEW k \in 1 .. n + 1 PROVE g[k] = step[k][g[k - 1]]
    <3>1. CASE k = n + 1
      <4>1. g[k] = v /\ g[k - 1] = f[n]
        BY <1>2, <2>3, <3>1
      <4> QED BY <2>2, <3>1, <4>1
    <3>2. CASE k # n + 1
      <4>1. k \in 1 .. n /\ k - 1 \in 0 .. n
        BY <1>2, <3>2
      <4>2. g[k] = f[k] /\ g[k - 1] = f[k - 1]
        BY <1>2, <2>3, <4>1
      <4> QED BY <2>1, <4>1, <4>2 DEF CountsUp
    <3> QED BY <3>1, <3>2
  <2>6. n + 1 \in 0 .. N
    BY <1>2
  <2>7. CountsUp(g, n + 1, V, z, step)
    BY <2>4, <2>5 DEF CountsUp
  <2> QED BY <2>6, <2>7
<1>3. N \in T
  <2> HIDE DEF T
  <2>1. 0 .. N \subseteq T
    BY <1>1, <1>2, UpTo
  <2> QED BY <2>1
<1> QED BY <1>3

LEMMA CountedAlike ==
    ASSUME NEW N \in Nat, NEW f, NEW h, h[0] = f[0],
           \A k \in 1 .. N : h[k - 1] = f[k - 1] => h[k] = f[k]
    PROVE  \A k \in 0 .. N : h[k] = f[k]
<1> DEFINE T == {k \in 0 .. N : h[k] = f[k]}
<1>1. 0 \in T
  OBVIOUS
<1>2. ASSUME NEW n \in T, n \in 0 .. N - 1 PROVE n + 1 \in T
  <2>1. n + 1 \in 1 .. N /\ (n + 1) - 1 = n
    BY <1>2
  <2> QED BY <2>1
<1>3. 0 .. N \subseteq T
  <2> HIDE DEF T
  <2> QED BY <1>1, <1>2, UpTo
<1> QED BY <1>3

\* The product of the first factors, as far as they are numbers.
ProductSoFar(f, s, N) ==
    /\ f \in [0 .. N -> Nat]
    /\ f[0] = 1 /\ \A k \in 1 .. N : f[k] = f[k - 1] * s[k]

\* The product of a sequence, factor by factor.
LEMMA ProductIs ==
    ASSUME NEW s \in Seq(Nat)
    PROVE  \E f : ProductSoFar(f, s, Len(s)) /\ Product(s) = f[Len(s)]
<1>0. PICK N \in Nat : N = Len(s) /\ \A k \in 1 .. N : s[k] \in Nat
  OBVIOUS
<1>1. PICK step : step = [k \in 1 .. N |-> [v \in Nat |-> v * s[k]]]
  OBVIOUS
<1>2. step \in [1 .. N -> [Nat -> Nat]]
  <2>1. ASSUME NEW k \in 1 .. N, NEW v \in Nat PROVE v * s[k] \in Nat
    <3>1. PICK x \in Nat : x = s[k]
      BY <1>0
    <3>2. v * x \in Nat
      BY SMT
    <3> QED BY <3>1, <3>2
  <2> QED BY <1>1, <2>1
<1>3. PICK f \in [0 .. N -> Nat] : f[0] = 1 /\ \A k \in 1 .. N : f[k] = step[k][f[k - 1]]
  <2>1. \E f : CountsUp(f, N, Nat, 1, step)
    BY <1>2, CountedUp
  <2> QED BY <2>1 DEF CountsUp
<1>4. \A k \in 1 .. N : f[k] = f[k - 1] * s[k]
  <2>1. ASSUME NEW k \in 1 .. N PROVE f[k] = f[k - 1] * s[k]
    <3>1. f[k - 1] \in Nat
      OBVIOUS
    <3> QED BY <1>1, <1>3, <3>1
  <2> QED BY <2>1
<1>5. PICK h : h = CHOOSE g : g = [k \in 0 .. Len(s) |-> IF k = 0 THEN 1 ELSE g[k - 1] * s[k]]
  OBVIOUS
<1>6. f = [k \in 0 .. Len(s) |-> IF k = 0 THEN 1 ELSE f[k - 1] * s[k]]
  BY <1>0, <1>3, <1>4
<1>7. h = [k \in 0 .. Len(s) |-> IF k = 0 THEN 1 ELSE h[k - 1] * s[k]]
  BY <1>5, <1>6
<1>8. Product(s) = h[Len(s)]
  BY Zenon, <1>5 DEF Product
<1>9. \A k \in 0 .. N : h[k] = f[k]
  <2>1. h[0] = f[0]
    BY <1>0, <1>3, <1>7
  <2>2. \A k \in 1 .. N : h[k - 1] = f[k - 1] => h[k] = f[k]
    BY <1>0, <1>4, <1>7
  <2> QED BY <2>1, <2>2, CountedAlike
<1>10. ProductSoFar(f, s, Len(s))
  BY <1>0, <1>3, <1>4 DEF ProductSoFar
<1> QED BY <1>0, <1>8, <1>9, <1>10

LEMMA ProductIsNumber ==
    ASSUME NEW s \in Seq(Nat)
    PROVE  Product(s) \in Nat
<1>1. Len(s) \in Nat
  OBVIOUS
<1>2. PICK f : ProductSoFar(f, s, Len(s)) /\ Product(s) = f[Len(s)]
  BY ProductIs
<1> QED BY <1>1, <1>2 DEF ProductSoFar

\* The extents that MPI chooses have the size as their product, if any have.
LEMMA DimsAreDivisors ==
    ASSUME NEW shape \in Seq(Nat), NEW size \in Nat, Divisors(size, shape) # {}
    PROVE  DimsCreate(size, shape) \in Divisors(size, shape)
<1> DEFINE Cost(d) == Product([i \in DOMAIN d |-> d[i] + 1])
<1>1. ASSUME NEW d \in Divisors(size, shape) PROVE Cost(d) \in Nat
  <2>1. d \in [DOMAIN shape -> 1 .. size]
    BY DEF Divisors
  <2>2. PICK s : s = [i \in DOMAIN d |-> d[i] + 1]
    OBVIOUS
  <2>3. DOMAIN shape = 1 .. Len(shape) /\ Len(shape) \in Nat
    OBVIOUS
  <2>4. s \in [1 .. Len(shape) -> Nat]
    BY <2>1, <2>2, <2>3
  <2>5. s \in Seq(Nat)
    BY <2>3, <2>4
  <2> QED BY <2>2, <2>5, ProductIsNumber
<1>2. \E d \in Divisors(size, shape) : \A e \in Divisors(size, shape) : Cost(d) <= Cost(e)
  <2> HIDE DEF Cost
  <2>1. PICK costs : costs = {Cost(d) : d \in Divisors(size, shape)}
    OBVIOUS
  <2>2. costs \subseteq Nat /\ costs # {}
    BY <1>1, <2>1
  <2>3. PICK x \in costs : \A y \in costs : x <= y
    BY <2>2, LeastNumber
  <2>4. PICK d \in Divisors(size, shape) : x = Cost(d)
    BY <2>1, <2>3
  <2> QED BY <2>1, <2>3, <2>4
<1>3. DimsCreate(size, shape)
      = CHOOSE d \in Divisors(size, shape) : \A e \in Divisors(size, shape) : Cost(d) <= Cost(e)
  BY Zenon DEF DimsCreate
<1> QED
  <2> HIDE DEF Cost
  <2> QED BY <1>2, <1>3

-----------------------------------------------------------------------------
(* What the operations leave the processes with.                           *)

\* Of the processes in H, those that are in their groups hold communicators of them,
\* the same for each member of a group.
HoldGroups(held, group, H, P) ==
    /\ H \subseteq P
    /\ \A p \in H : /\ group[p] \in Seq(P) /\ Distinct(group[p])
                    /\ \A q \in ToSet(group[p]) : q \in H /\ group[q] = group[p]
    /\ \A p \in P : IF p \in H /\ p \in ToSet(group[p])
                    THEN IsComm(held[p], P) /\ held[p].members = group[p]
                    ELSE held[p] = Empty
    /\ \A p \in H : \A q \in ToSet(group[p]) : p \in ToSet(group[p]) => held[q] = held[p]

LEMMA GroupsSound ==
    ASSUME NEW P, NEW held, NEW group, NEW H, HoldGroups(held, group, H, P)
    PROVE  Sound(held, P)
<1>1. ASSUME NEW p \in P
      PROVE  /\ IsComm(held[p], P)
             /\ held[p] # Empty => p \in ToSet(held[p].members)
             /\ \A q \in ToSet(held[p].members) : held[q] = held[p]
  <2>1. CASE p \in H /\ p \in ToSet(group[p])
    BY <2>1 DEF HoldGroups
  <2>2. CASE ~(p \in H /\ p \in ToSet(group[p]))
    <3>1. held[p] = Empty
      BY <2>2 DEF HoldGroups
    <3> QED BY <3>1, EmptyIs
  <2> QED BY <2>1, <2>2
<1> QED BY <1>1 DEF Sound

\* Communicators of groups.
LEMMA CreateSound ==
    ASSUME MembersAgree, NEW group,
           \A p \in Holders : /\ group[p] \in Seq(Members(p)) /\ Distinct(group[p])
                              /\ \A q \in ToSet(group[p]) : group[q] = group[p],
           Create(group)
    PROVE  MembersAgree'
<1>1. PICK held : held = [p \in Processes |->
                           IF Holds(p) /\ p \in ToSet(group[p]) THEN Plain(group[p]) ELSE Empty]
  OBVIOUS
<1>2. PICK P, H : P = Processes /\ H = Holders
  OBVIOUS
<1>3. H \subseteq P /\ \A p \in P : p \in H <=> Holds(p)
  BY <1>2 DEF Holders
<1>4. ASSUME NEW p \in H
      PROVE  /\ group[p] \in Seq(P) /\ Distinct(group[p])
             /\ \A q \in ToSet(group[p]) : q \in H /\ group[q] = group[p]
  <2>1. p \in Processes /\ group[p] \in Seq(Members(p))
    BY <1>2, <1>3
  <2>2. Members(p) \subseteq P /\ Members(p) \subseteq H
    BY <1>2, <2>1, MembersHold
  <2>3. ToSet(group[p]) \subseteq Members(p)
    BY <2>1 DEF ToSet
  <2>4. group[p] \in Seq(P)
    BY <2>1, <2>2
  <2> QED BY <1>2, <2>2, <2>3, <2>4
<1>5. ASSUME NEW p \in P
      PROVE  IF p \in H /\ p \in ToSet(group[p])
             THEN IsComm(held[p], P) /\ held[p].members = group[p]
             ELSE held[p] = Empty
  <2>1. CASE p \in H /\ p \in ToSet(group[p])
    <3>1. held[p] = Plain(group[p])
      BY <1>1, <1>2, <1>3, <2>1
    <3> QED BY <1>4, <2>1, <3>1 DEF Plain, IsComm
  <2>2. CASE ~(p \in H /\ p \in ToSet(group[p]))
    BY <1>1, <1>2, <1>3, <2>2
  <2> QED BY <2>1, <2>2
<1>6. ASSUME NEW p \in H, NEW q \in ToSet(group[p]), p \in ToSet(group[p])
      PROVE  held[q] = held[p]
  <2>1. q \in H /\ group[q] = group[p]
    BY <1>4
  <2>2. held[q] = Plain(group[q]) /\ held[p] = Plain(group[p])
    BY <1>1, <1>2, <1>3, <1>6, <2>1
  <2> QED BY <2>1, <2>2
<1>7. Sound(held, P)
  <2>1. HoldGroups(held, group, H, P)
    BY <1>3, <1>4, <1>5, <1>6 DEF HoldGroups
  <2> QED BY <2>1, GroupsSound
<1>8. comm' = [p \in Processes |-> held[p]]
  BY <1>1 DEF Create
<1> QED BY <1>2, <1>7, <1>8, SoundNext

\* The first members, and all in the opposite order.
LEMMA FirstMembers ==
    ASSUME NEW P, NEW g \in Seq(P), Distinct(g), NEW n \in Nat, n <= Len(g)
    PROVE  SubSeq(g, 1, n) \in Seq(P) /\ Distinct(SubSeq(g, 1, n))
           /\ ToSet(SubSeq(g, 1, n)) \subseteq ToSet(g)
<1>1. Len(g) \in Nat /\ DOMAIN g = 1 .. Len(g)
  OBVIOUS
<1>2. PICK s : s = SubSeq(g, 1, n)
  OBVIOUS
<1>3. s \in Seq(P) /\ Len(s) = n /\ DOMAIN s = 1 .. n /\ \A i \in 1 .. n : s[i] = g[i]
  BY <1>1, <1>2
<1>4. Distinct(s)
  BY <1>1, <1>3 DEF Distinct
<1>5. ToSet(s) \subseteq ToSet(g)
  BY <1>1, <1>3 DEF ToSet
<1> QED BY <1>2, <1>3, <1>4, <1>5

LEMMA ReversedMembers ==
    ASSUME NEW P, NEW g \in Seq(P), Distinct(g)
    PROVE  Reverse(g) \in Seq(P) /\ Distinct(Reverse(g)) /\ ToSet(Reverse(g)) = ToSet(g)
<1>1. Len(g) \in Nat /\ DOMAIN g = 1 .. Len(g)
  OBVIOUS
<1>2. PICK s : s = Reverse(g)
  OBVIOUS
<1>3. s = [i \in 1 .. Len(g) |-> g[(Len(g) - i) + 1]]
  BY <1>2 DEF Reverse
<1>4. \A i \in 1 .. Len(g) : (Len(g) - i) + 1 \in 1 .. Len(g)
  BY <1>1
<1>5. s \in Seq(P) /\ Len(s) = Len(g) /\ DOMAIN s = 1 .. Len(g)
  BY <1>1, <1>3, <1>4
<1>6. Distinct(s)
  <2>1. ASSUME NEW i \in 1 .. Len(s), NEW j \in 1 .. Len(s), s[i] = s[j] PROVE i = j
    <3>1. (Len(g) - i) + 1 = (Len(g) - j) + 1
      BY <1>3, <1>4, <1>5, <2>1 DEF Distinct
    <3> QED BY <1>1, <1>5, <3>1
  <2> QED BY <2>1 DEF Distinct
<1>7. ASSUME NEW p \in ToSet(g) PROVE p \in ToSet(s)
  <2>1. PICK i \in 1 .. Len(g) : g[i] = p
    BY <1>1 DEF ToSet
  <2>2. PICK j \in 1 .. Len(g) : j = (Len(g) - i) + 1
    BY <1>4
  <2>3. s[j] = p
    BY <1>1, <1>3, <2>1, <2>2
  <2> QED BY <1>5, <2>3 DEF ToSet
<1>8. ToSet(s) \subseteq ToSet(g)
  BY <1>1, <1>3, <1>4, <1>5 DEF ToSet
<1> QED BY <1>2, <1>5, <1>6, <1>7, <1>8

\* Communicators with a grid.
LEMMA ArrangedSound ==
    ASSUME MembersAgree, NEW extents, NEW periods, NEW reorder \in BOOLEAN, NEW held,
           \A p \in Holders : /\ Product(extents[p]) \in Nat /\ Product(extents[p]) <= Size(p)
                              /\ \A q \in Members(p) : extents[q] = extents[p],
           \A p \in Processes : held[p] = Arranged(p, extents[p], periods, reorder)
    PROVE  Sound(held, Processes)
<1>2. PICK P, H : P = Processes /\ H = Holders
  OBVIOUS
<1>3. H \subseteq P /\ \A p \in P : p \in H <=> Holds(p)
  BY <1>2 DEF Holders
<1>4. PICK placed : placed = [p \in H |-> SubSeq(comm[p].members, 1, Product(extents[p]))]
  OBVIOUS
<1>5. PICK group : group = [p \in H |-> IF reorder THEN Reverse(placed[p]) ELSE placed[p]]
  OBVIOUS
<1>6. ASSUME NEW p \in H
      PROVE  /\ group[p] \in Seq(P) /\ Distinct(group[p]) /\ ToSet(group[p]) = ToSet(placed[p])
             /\ \A q \in ToSet(group[p]) : q \in H /\ comm[q] = comm[p] /\ extents[q] = extents[p]
  <2>1. p \in Processes /\ Holds(p)
    BY <1>2, <1>3
  <2>2. PICK g \in Seq(P) : g = comm[p].members /\ Distinct(g) /\ Members(p) = ToSet(g) /\ Size(p) = Len(g)
    BY <1>2, <2>1, HolderIsMember
  <2>3. PICK n \in Nat : n = Product(extents[p]) /\ n <= Len(g)
    BY <1>2, <2>2
  <2>4. PICK s : s = SubSeq(g, 1, n)
    OBVIOUS
  <2>5. s \in Seq(P) /\ Distinct(s) /\ ToSet(s) \subseteq ToSet(g)
    BY <2>2, <2>3, <2>4, FirstMembers
  <2>6. placed[p] = s
    BY <1>4, <2>2, <2>3, <2>4
  <2>7. Reverse(s) \in Seq(P) /\ Distinct(Reverse(s)) /\ ToSet(Reverse(s)) = ToSet(s)
    BY <2>5, ReversedMembers
  <2>8. group[p] \in Seq(P) /\ Distinct(group[p]) /\ ToSet(group[p]) = ToSet(s)
    BY <1>5, <2>5, <2>6, <2>7
  <2>9. ASSUME NEW q \in ToSet(group[p]) PROVE q \in H /\ comm[q] = comm[p] /\ extents[q] = extents[p]
    <3>1. q \in Members(p)
      BY <2>2, <2>5, <2>8
    <3> QED BY <1>2, <2>1, <3>1, MembersHold
  <2> QED BY <2>6, <2>8, <2>9
<1>7. ASSUME NEW p \in H
      PROVE  \A q \in ToSet(group[p]) : q \in H /\ group[q] = group[p]
  <2>1. ASSUME NEW q \in ToSet(group[p]) PROVE q \in H /\ group[q] = group[p]
    <3>1. q \in H /\ comm[q] = comm[p] /\ extents[q] = extents[p]
      BY <1>6
    <3>2. placed[q] = placed[p]
      BY <1>4, <3>1
    <3> QED BY <1>5, <3>1, <3>2
  <2> QED BY <2>1
<1>8. ASSUME NEW p \in P
      PROVE  IF p \in H /\ p \in ToSet(group[p])
             THEN held[p] = [members |-> group[p], dims |-> extents[p], periods |-> periods]
             ELSE held[p] = Empty
  <2>1. CASE p \in H
    <3>1. Holds(p) /\ placed[p] = SubSeq(comm[p].members, 1, Product(extents[p]))
      BY <1>3, <1>4, <2>1
    <3>2. ToSet(group[p]) = ToSet(placed[p])
      BY <1>6, <2>1
    <3>3. group[p] = IF reorder THEN Reverse(placed[p]) ELSE placed[p]
      BY <1>5, <2>1
    <3>4. held[p] = Arranged(p, extents[p], periods, reorder)
      BY <1>2
    <3> QED BY <2>1, <3>1, <3>2, <3>3, <3>4 DEF Arranged
  <2>2. CASE p \notin H
    BY <1>2, <1>3, <2>2 DEF Arranged
  <2> QED BY <2>1, <2>2
<1>9. ASSUME NEW p \in P
      PROVE  IF p \in H /\ p \in ToSet(group[p])
             THEN IsComm(held[p], P) /\ held[p].members = group[p]
             ELSE held[p] = Empty
  <2>1. CASE p \in H /\ p \in ToSet(group[p])
    <3>1. held[p] = [members |-> group[p], dims |-> extents[p], periods |-> periods]
      BY <1>8, <2>1
    <3> QED BY <1>6, <2>1, <3>1 DEF IsComm
  <2>2. CASE ~(p \in H /\ p \in ToSet(group[p]))
    BY <1>8, <2>2
  <2> QED BY <2>1, <2>2
<1>10. ASSUME NEW p \in H, NEW q \in ToSet(group[p]), p \in ToSet(group[p])
       PROVE  held[q] = held[p]
  <2>1. q \in H /\ group[q] = group[p] /\ extents[q] = extents[p]
    BY <1>6, <1>7
  <2>2. held[p] = [members |-> group[p], dims |-> extents[p], periods |-> periods]
    BY <1>3, <1>8, <1>10
  <2>3. held[q] = [members |-> group[q], dims |-> extents[q], periods |-> periods]
    BY <1>3, <1>8, <2>1
  <2> QED BY <2>1, <2>2, <2>3
<1>11. Sound(held, P)
  <2>1. H \subseteq P
    BY <1>3
  <2>2. \A p \in H : /\ group[p] \in Seq(P) /\ Distinct(group[p])
                     /\ \A q \in ToSet(group[p]) : q \in H /\ group[q] = group[p]
    BY <1>6, <1>7
  <2>3. \A p \in P : IF p \in H /\ p \in ToSet(group[p])
                     THEN IsComm(held[p], P) /\ held[p].members = group[p]
                     ELSE held[p] = Empty
    BY <1>9
  <2>4. \A p \in H : \A q \in ToSet(group[p]) : p \in ToSet(group[p]) => held[q] = held[p]
    BY <1>10
  <2>5. HoldGroups(held, group, H, P)
    BY <2>1, <2>2, <2>3, <2>4 DEF HoldGroups
  <2> QED BY <2>5, GroupsSound
<1> QED BY <1>2, <1>11

\* What grids are cut into.
LEMMA CutSound ==
    ASSUME MembersAgree, NEW remains, comm' = [p \in Processes |-> SubGrid(p, remains)]
    PROVE  MembersAgree'
<1>1. PICK held : held = [p \in Processes |-> SubGrid(p, remains)]
  OBVIOUS
<1>2. PICK P, H : P = Processes /\ H = Holders
  OBVIOUS
<1>3. H \subseteq P /\ \A p \in P : p \in H <=> Holds(p)
  BY <1>2 DEF Holders
<1>4. PICK kept : kept = [p \in H |->
          {q \in Members(p) : \A i \in DOMAIN comm[p].dims \ ToSet(remains) :
                                 Coordinates(comm[p], q)[i] = Coordinates(comm[p], p)[i]}]
  OBVIOUS
<1>5. PICK group : group = [p \in H |-> Ordered(kept[p], Ranks)]
  OBVIOUS
<1>6. ASSUME NEW p \in H
      PROVE  /\ group[p] \in Seq(P) /\ Distinct(group[p]) /\ p \in ToSet(group[p])
             /\ \A q \in ToSet(group[p]) : q \in H /\ comm[q] = comm[p] /\ group[q] = group[p]
  <2>1. p \in Processes /\ Holds(p)
    BY <1>2, <1>3
  <2>2. p \in Members(p)
    BY <2>1, HolderIsMember
  <2>3. PICK S : S = kept[p]
    OBVIOUS
  <2>4. S \in SUBSET Members(p) /\ p \in S
    BY <1>4, <2>2, <2>3
  <2>5. \A q \in Members(p) : q \in P /\ q \in H /\ comm[q] = comm[p] /\ Members(q) = Members(p)
    BY <1>2, <2>1, MembersHold
  <2>6. \A q \in S : Ranks[q] \in Int
    BY <1>2, <2>4, <2>5, KeysAreNumbers
  <2>7. PICK s : s = Ordered(S, Ranks)
    OBVIOUS
  <2>8. s \in Seq(S) /\ Distinct(s) /\ ToSet(s) = S
    BY <2>1, <2>4, <2>6, <2>7, OrderedIs
  <2>9. group[p] = s
    BY <1>5, <2>3, <2>7
  <2>10. s \in Seq(P)
    BY <2>4, <2>5, <2>8
  <2>11. ASSUME NEW q \in S PROVE q \in H /\ comm[q] = comm[p] /\ group[q] = group[p]
    <3>1. q \in H /\ comm[q] = comm[p] /\ Members(q) = Members(p)
      BY <2>4, <2>5
    <3>2. \A i \in DOMAIN comm[p].dims \ ToSet(remains) :
             Coordinates(comm[p], q)[i] = Coordinates(comm[p], p)[i]
      BY <1>4, <2>3
    <3>3. kept[q] = kept[p]
      BY <1>4, <3>1, <3>2
    <3> QED BY <1>5, <3>1, <3>3
  <2> QED BY <2>4, <2>8, <2>9, <2>10, <2>11
<1>7. ASSUME NEW p \in P
      PROVE  IF p \in H
             THEN held[p] = [members |-> group[p], dims |-> Remaining(comm[p].dims, remains),
                             periods |-> Remaining(comm[p].periods, remains)]
             ELSE held[p] = Empty
  <2>1. CASE p \in H
    <3>1. group[p] = Ordered({q \in Members(p) : \A i \in DOMAIN comm[p].dims \ ToSet(remains) :
                                 Coordinates(comm[p], q)[i] = Coordinates(comm[p], p)[i]}, Ranks)
      BY <1>4, <1>5, <2>1
    <3>2. held[p] = SubGrid(p, remains) /\ Holds(p)
      BY <1>1, <1>2, <1>3, <2>1
    <3> QED BY <2>1, <3>1, <3>2 DEF SubGrid
  <2>2. CASE p \notin H
    BY <1>1, <1>2, <1>3, <2>2 DEF SubGrid
  <2> QED BY <2>1, <2>2
<1>8. ASSUME NEW p \in P
      PROVE  IF p \in H /\ p \in ToSet(group[p])
             THEN IsComm(held[p], P) /\ held[p].members = group[p]
             ELSE held[p] = Empty
  <2>1. CASE p \in H
    <3>1. held[p] = [members |-> group[p], dims |-> Remaining(comm[p].dims, remains),
                     periods |-> Remaining(comm[p].periods, remains)]
      BY <1>7, <2>1
    <3> QED BY <1>6, <2>1, <3>1 DEF IsComm
  <2>2. CASE p \notin H
    BY <1>7, <2>2
  <2> QED BY <2>1, <2>2
<1>9. ASSUME NEW p \in H, NEW q \in ToSet(group[p]) PROVE held[q] = held[p]
  <2>1. q \in H /\ comm[q] = comm[p] /\ group[q] = group[p]
    BY <1>6
  <2>2. held[p] = [members |-> group[p], dims |-> Remaining(comm[p].dims, remains),
                   periods |-> Remaining(comm[p].periods, remains)]
    BY <1>3, <1>7
  <2>3. held[q] = [members |-> group[q], dims |-> Remaining(comm[q].dims, remains),
                   periods |-> Remaining(comm[q].periods, remains)]
    BY <1>3, <1>7, <2>1
  <2> QED BY <2>1, <2>2, <2>3
<1>10. Sound(held, P)
  <2>1. H \subseteq P
    BY <1>3
  <2>2. \A p \in H : /\ group[p] \in Seq(P) /\ Distinct(group[p])
                     /\ \A q \in ToSet(group[p]) : q \in H /\ group[q] = group[p]
    BY <1>6
  <2>3. \A p \in P : IF p \in H /\ p \in ToSet(group[p])
                     THEN IsComm(held[p], P) /\ held[p].members = group[p]
                     ELSE held[p] = Empty
    BY <1>8
  <2>4. \A p \in H : \A q \in ToSet(group[p]) : p \in ToSet(group[p]) => held[q] = held[p]
    BY <1>9
  <2>5. HoldGroups(held, group, H, P)
    BY <2>1, <2>2, <2>3, <2>4 DEF HoldGroups
  <2> QED BY <2>5, GroupsSound
<1>11. comm' = [p \in Processes |-> held[p]]
  BY <1>1
<1> QED BY <1>2, <1>10, <1>11, SoundNext

LEMMA SplitStep ==
    ASSUME MembersAgree, NEW color, Split(color)
    PROVE  MembersAgree'
<1>1. PICK held : held = [p \in Processes |-> SplitOff(p, color, Ranks)]
  OBVIOUS
<1>2. Sound(held, Processes)
  BY <1>1, SplitSound, KeysAreNumbers
<1>3. comm' = [p \in Processes |-> held[p]]
  BY <1>1 DEF Split
<1> QED BY <1>2, <1>3, SoundNext

LEMMA ReversedStep ==
    ASSUME MembersAgree, Reversed
    PROVE  MembersAgree'
<1>1. PICK color, key : color = [q \in Holders |-> 0] /\ key = [q \in Holders |-> Size(q) - Rank(q)]
  OBVIOUS
<1>2. PICK held : held = [p \in Processes |-> SplitOff(p, color, key)]
  OBVIOUS
<1>3. \A q \in Holders : key[q] \in Int
  BY <1>1, KeysAreNumbers
<1>4. Sound(held, Processes)
  BY <1>2, <1>3, SplitSound
<1>5. comm' = [p \in Processes |-> held[p]]
  BY <1>1, <1>2 DEF Reversed
<1> QED BY <1>4, <1>5, SoundNext

LEMMA SubcommStep ==
    ASSUME MembersAgree, NEW v \in Seq(Nat), Distinct(v), Subcomm(v)
    PROVE  MembersAgree'
<1>1. PICK group : group = [p \in Holders |-> [i \in DOMAIN v |-> comm[p].members[v[i] + 1]]]
  OBVIOUS
<1>2. DOMAIN v = 1 .. Len(v) /\ Len(v) \in Nat /\ \A i \in 1 .. Len(v) : v[i] \in ToSet(v)
  BY DEF ToSet
<1>3. ASSUME NEW p \in Holders
      PROVE  /\ group[p] \in Seq(Members(p)) /\ Distinct(group[p])
             /\ \A q \in ToSet(group[p]) : group[q] = group[p]
             /\ p \in ToSet(group[p]) <=> Rank(p) \in ToSet(v)
  <2>1. p \in Processes /\ Holds(p)
    BY DEF Holders
  <2>2. PICK g \in Seq(Processes) : g = comm[p].members /\ Distinct(g) /\ Members(p) = ToSet(g) /\ Size(p) = Len(g)
    BY <2>1, HolderIsMember
  <2>3. \A i \in 1 .. Len(v) : v[i] + 1 \in 1 .. Len(g)
    <3>1. ToSet(v) \subseteq 0 .. Len(g) - 1
      BY <2>1, <2>2 DEF Subcomm
    <3>2. Len(g) \in Nat
      BY <2>2
    <3> QED BY <1>2, <3>1, <3>2
  <2>4. PICK s : s = [i \in 1 .. Len(v) |-> g[v[i] + 1]]
    OBVIOUS
  <2>5. group[p] = s
    BY <1>1, <1>2, <2>2, <2>4
  <2>6. \A i \in 1 .. Len(g) : g[i] \in ToSet(g) /\ GroupRank(g, g[i]) = i - 1
    BY <2>2, GroupRanks
  <2>7. s \in Seq(ToSet(g)) /\ Len(s) = Len(v) /\ DOMAIN s = 1 .. Len(v)
    BY <1>2, <2>3, <2>4, <2>6
  <2>8. Distinct(s)
    <3>1. ASSUME NEW i \in 1 .. Len(s), NEW j \in 1 .. Len(s), s[i] = s[j] PROVE i = j
      <4>1. v[i] + 1 \in 1 .. Len(g) /\ v[j] + 1 \in 1 .. Len(g) /\ g[v[i] + 1] = g[v[j] + 1]
        BY <2>3, <2>4, <2>7, <3>1
      <4>2. v[i] + 1 = v[j] + 1
        BY <2>2, <4>1 DEF Distinct
      <4>3. v[i] \in Nat /\ v[j] \in Nat
        BY <2>7
      <4>4. v[i] = v[j]
        BY <4>2, <4>3
      <4> QED BY <2>7, <4>4 DEF Distinct
    <3> QED BY <3>1 DEF Distinct
  <2>9. ASSUME NEW q \in ToSet(s) PROVE group[q] = group[p]
    <3>1. q \in Members(p)
      BY <2>2, <2>7 DEF ToSet
    <3>2. q \in Holders /\ comm[q] = comm[p]
      BY <2>1, <3>1, MembersHold
    <3> QED BY <1>1, <3>2
  <2>10. PICK r \in 0 .. Len(g) - 1 : r = Rank(p) /\ g[r + 1] = p
    <3>1. p \in Members(p)
      BY <2>1, HolderIsMember
    <3>2. Rank(p) = GroupRank(g, p)
      BY <2>1, <2>2, <3>1, MembersHold
    <3>3. GroupRank(g, p) \in 0 .. Len(g) - 1 /\ g[GroupRank(g, p) + 1] = p
      BY <2>2, <3>1, GroupRanks
    <3> QED BY <3>2, <3>3
  <2>11. p \in ToSet(s) <=> r \in ToSet(v)
    <3>1. ASSUME NEW i \in 1 .. Len(v) PROVE s[i] = p <=> v[i] = r
      <4>1. PICK k \in Nat : k = v[i] /\ k + 1 \in 1 .. Len(g)
        BY <1>2, <2>3
      <4>2. Len(g) \in Nat
        BY <2>2
      <4>3. r + 1 \in 1 .. Len(g)
        BY <4>2
      <4>4. s[i] = g[k + 1]
        BY <2>4, <4>1
      <4>5. g[k + 1] = g[r + 1] => k + 1 = r + 1
        BY <2>2, <4>1, <4>3 DEF Distinct
      <4> QED BY <2>10, <4>1, <4>4, <4>5
    <3> QED BY <1>2, <2>7, <3>1 DEF ToSet
  <2> QED BY <2>2, <2>5, <2>7, <2>8, <2>9, <2>10, <2>11
<1>4. comm' = [p \in Processes |-> IF Holds(p) /\ p \in ToSet(group[p]) THEN Plain(group[p]) ELSE Empty]
  <2>1. ASSUME NEW p \in Processes
        PROVE  (IF Holds(p) /\ Rank(p) \in ToSet(v)
                THEN Plain([i \in DOMAIN v |-> comm[p].members[v[i] + 1]]) ELSE Empty)
               = (IF Holds(p) /\ p \in ToSet(group[p]) THEN Plain(group[p]) ELSE Empty)
    <3>1. CASE Holds(p)
      <4>1. p \in Holders
        BY <3>1 DEF Holders
      <4>2. group[p] = [i \in DOMAIN v |-> comm[p].members[v[i] + 1]]
        BY <1>1, <4>1
      <4> QED BY <1>3, <3>1, <4>1, <4>2
    <3>2. CASE ~Holds(p)
      BY <3>2
    <3> QED BY <3>1, <3>2
  <2> QED BY <2>1 DEF Subcomm
<1>5. Create(group)
  BY <1>4 DEF Create
<1> QED BY <1>3, <1>5, CreateSound

LEMMA SelectGroupStep ==
    ASSUME MembersAgree, NEW op \in Comparisons, NEW n \in Nat, SelectGroup(op, n)
    PROVE  MembersAgree'
<1>1. PICK group : group = [p \in Holders |-> Comparing(op, n, comm[p].members)]
  OBVIOUS
<1>2. ASSUME NEW p \in Holders
      PROVE  /\ group[p] \in Seq(Members(p)) /\ Distinct(group[p])
             /\ \A q \in ToSet(group[p]) : group[q] = group[p]
  <2>1. p \in Processes /\ Holds(p)
    BY DEF Holders
  <2>2. PICK g \in Seq(Processes) : g = comm[p].members /\ Distinct(g) /\ Members(p) = ToSet(g) /\ Size(p) = Len(g)
    BY <2>1, HolderIsMember
  <2>3. n < Len(g)
    BY <2>1, <2>2 DEF SelectGroup
  <2>4. PICK s : s = Comparing(op, n, g)
    OBVIOUS
  <2>5. PICK S : S = Chosen(op, n, g)
    OBVIOUS
  <2>6. S \in SUBSET ToSet(g)
    BY <2>5 DEF Chosen
  <2>7. Selection(s, g, S)
    BY <2>2, <2>3, <2>4, <2>5, ComparingSelects
  <2>8. Distinct(s)
    BY <2>2, <2>6, <2>7, SelectionDistinct
  <2>9. s \in Seq(S) /\ ToSet(s) = S
    BY <2>7 DEF Selection
  <2>10. group[p] = s
    BY <1>1, <2>2, <2>4
  <2>11. ASSUME NEW q \in S PROVE group[q] = group[p]
    <3>1. q \in Holders /\ comm[q] = comm[p]
      BY <2>1, <2>2, <2>6, MembersHold
    <3> QED BY <1>1, <3>1
  <2>12. s \in Seq(ToSet(g))
    BY <2>6, <2>9
  <2> QED BY <2>2, <2>8, <2>9, <2>10, <2>11, <2>12
<1>3. Create(group)
  BY <1>1 DEF SelectGroup
<1> QED BY <1>2, <1>3, CreateSound

LEMMA StrideGroupStep ==
    ASSUME MembersAgree, NEW n \in Nat \ {0}, StrideGroup(n)
    PROVE  MembersAgree'
<1>1. PICK group : group = [p \in Holders |-> Sliced(comm[p].members, Rank(p) % n, Size(p), n)]
  OBVIOUS
<1>2. ASSUME NEW p \in Holders
      PROVE  /\ group[p] \in Seq(Members(p)) /\ Distinct(group[p])
             /\ \A q \in ToSet(group[p]) : group[q] = group[p]
  <2>1. p \in Processes /\ Holds(p)
    BY DEF Holders
  <2>2. PICK g \in Seq(Processes) : g = comm[p].members /\ Distinct(g) /\ Members(p) = ToSet(g) /\ Size(p) = Len(g)
    BY <2>1, HolderIsMember
  <2>3. n <= Len(g)
    BY <2>1, <2>2 DEF StrideGroup
  <2>4. Rank(p) \in Nat
    BY <2>1, HolderIsMember, MembersHold
  <2>5. PICK r \in 0 .. n - 1 : r = Rank(p) % n
    BY <2>4, DivMod
  <2>6. PICK s : s = Sliced(g, r, Len(g), n)
    OBVIOUS
  <2>7. PICK S : S = Residue(r, n, g)
    OBVIOUS
  <2>8. S \in SUBSET ToSet(g)
    BY <2>7 DEF Residue
  <2>9. Selection(s, g, S)
    BY <2>2, <2>3, <2>6, <2>7, StrideSelects
  <2>10. Distinct(s)
    BY <2>2, <2>8, <2>9, SelectionDistinct
  <2>11. s \in Seq(S) /\ ToSet(s) = S
    BY <2>9 DEF Selection
  <2>12. group[p] = s
    BY <1>1, <2>2, <2>5, <2>6
  <2>13. ASSUME NEW q \in S PROVE group[q] = group[p]
    <3>1. q \in Holders /\ comm[q] = comm[p] /\ Size(q) = Size(p) /\ Rank(q) = GroupRank(g, q)
      BY <2>1, <2>2, <2>8, MembersHold
    <3>2. Rank(q) % n = Rank(p) % n
      BY <2>5, <2>7, <3>1 DEF Residue
    <3> QED BY <1>1, <3>1, <3>2
  <2>14. s \in Seq(ToSet(g))
    BY <2>8, <2>11
  <2> QED BY <2>2, <2>10, <2>11, <2>12, <2>13, <2>14
<1>3. Create(group)
  BY <1>1 DEF StrideGroup
<1> QED BY <1>2, <1>3, CreateSound

LEMMA CartesianStep ==
    ASSUME MembersAgree, NEW shape \in Seq(Nat), NEW periods, Cartesian(shape, periods)
    PROVE  MembersAgree'
<1>1. PICK extents : extents = [p \in Processes |-> DimsCreate(Size(p), shape)]
  OBVIOUS
<1>2. PICK reorder \in BOOLEAN :
          comm' = [p \in Processes |->
                     IF Holds(p) THEN Arranged(p, DimsCreate(Size(p), shape), periods, reorder) ELSE Empty]
  BY DEF Cartesian
<1>3. ASSUME NEW p \in Processes
      PROVE  (IF Holds(p) THEN Arranged(p, DimsCreate(Size(p), shape), periods, reorder) ELSE Empty)
             = Arranged(p, extents[p], periods, reorder)
  BY <1>1 DEF Arranged
<1>4. comm' = [p \in Processes |-> Arranged(p, extents[p], periods, reorder)]
  BY <1>2, <1>3
<1>5. ASSUME NEW p \in Holders
      PROVE  /\ Product(extents[p]) \in Nat /\ Product(extents[p]) <= Size(p)
             /\ \A q \in Members(p) : extents[q] = extents[p]
  <2>1. p \in Processes /\ Holds(p)
    BY DEF Holders
  <2>2. PICK size \in Nat : size = Size(p)
    BY <2>1, HolderIsMember
  <2>3. Divisors(size, shape) # {}
    BY <2>1, <2>2 DEF Cartesian
  <2>4. DimsCreate(size, shape) \in Divisors(size, shape)
    BY <2>3, DimsAreDivisors
  <2>5. Product(DimsCreate(size, shape)) = size
    BY <2>4 DEF Divisors
  <2>6. extents[p] = DimsCreate(size, shape)
    BY <1>1, <2>1, <2>2
  <2>7. ASSUME NEW q \in Members(p) PROVE extents[q] = extents[p]
    <3>1. q \in Processes /\ Size(q) = size
      BY <2>1, <2>2, MembersHold
    <3> QED BY <1>1, <2>6, <3>1
  <2> QED BY <2>2, <2>5, <2>6, <2>7
<1>6. PICK held : held = [p \in Processes |-> Arranged(p, extents[p], periods, reorder)]
  OBVIOUS
<1>7. \A p \in Processes : held[p] = Arranged(p, extents[p], periods, reorder)
  BY <1>6
<1>8. comm' = [p \in Processes |-> held[p]]
  BY <1>4, <1>6
<1>9. Sound(held, Processes)
  BY <1>5, <1>7, ArrangedSound
<1> QED BY <1>8, <1>9, SoundNext

LEMMA CartesianOfStep ==
    ASSUME MembersAgree, NEW dims \in Seq(Nat), NEW periods, CartesianOf(dims, periods)
    PROVE  MembersAgree'
<1>1. PICK extents : extents = [p \in Processes |-> dims]
  OBVIOUS
<1>2. PICK reorder \in BOOLEAN : comm' = [p \in Processes |-> Arranged(p, dims, periods, reorder)]
  BY DEF CartesianOf
<1>3. comm' = [p \in Processes |-> Arranged(p, extents[p], periods, reorder)]
  BY <1>1, <1>2
<1>4. ASSUME NEW p \in Holders
      PROVE  /\ Product(extents[p]) \in Nat /\ Product(extents[p]) <= Size(p)
             /\ \A q \in Members(p) : extents[q] = extents[p]
  <2>1. p \in Processes /\ Holds(p)
    BY DEF Holders
  <2>2. Product(dims) \in Nat /\ Product(dims) <= Size(p)
    BY <2>1, ProductIsNumber DEF CartesianOf
  <2>3. \A q \in Members(p) : q \in Processes
    BY <2>1, MembersHold
  <2> QED BY <1>1, <2>1, <2>2, <2>3
<1>5. PICK held : held = [p \in Processes |-> Arranged(p, extents[p], periods, reorder)]
  OBVIOUS
<1>6. \A p \in Processes : held[p] = Arranged(p, extents[p], periods, reorder)
  BY <1>5
<1>7. comm' = [p \in Processes |-> held[p]]
  BY <1>3, <1>5
<1>8. Sound(held, Processes)
  BY <1>4, <1>6, ArrangedSound
<1> QED BY <1>7, <1>8, SoundNext

\* The world of processes 1 .. n, all of which hold c.
LEMMA WorldSound ==
    ASSUME NEW n \in Nat, NEW c, c.members = [i \in 1 .. n |-> i],
           c = [members |-> c.members, dims |-> c.dims, periods |-> c.periods]
    PROVE  Sound([q \in 1 .. n |-> c], 1 .. n)
<1>1. PICK g : g = c.members
  OBVIOUS
<1>2. g \in Seq(1 .. n) /\ DOMAIN g = 1 .. n /\ Len(g) = n /\ \A i \in 1 .. n : g[i] = i
  BY <1>1
<1>3. Distinct(g) /\ ToSet(g) = 1 .. n
  BY <1>2 DEF Distinct, ToSet
<1>4. PICK held : held = [q \in 1 .. n |-> c]
  OBVIOUS
<1>5. IsComm(c, 1 .. n)
  BY <1>1, <1>2, <1>3 DEF IsComm
<1>6. Sound(held, 1 .. n)
  BY <1>1, <1>3, <1>4, <1>5 DEF Sound
<1> QED BY <1>4, <1>6

LEMMA GoOnStep ==
    ASSUME MembersAgree, NEW p \in Processes, GoOn(p)
    PROVE  MembersAgree'
<1>1. Holds(p)
  BY DEF GoOn
<1>2. PICK n \in Nat : n = Size(p)
  BY <1>1, HolderIsMember
<1>3. PICK c : c = [comm[p] EXCEPT !.members = [i \in 1 .. n |-> i]]
  OBVIOUS
<1>4. comm[p] = [members |-> comm[p].members, dims |-> comm[p].dims, periods |-> comm[p].periods]
  BY DEF MembersAgree, Sound, IsComm
<1>5. c = [members |-> c.members, dims |-> c.dims, periods |-> c.periods]
      /\ c.members = [i \in 1 .. n |-> i]
  BY <1>3, <1>4
<1>6. PICK new : new = comm'
  OBVIOUS
<1>7. new = [q \in 1 .. n |-> c]
  BY <1>2, <1>3, <1>6 DEF GoOn
<1>8. Sound(new, 1 .. n)
  BY <1>5, <1>7, WorldSound
<1>9. Processes' = 1 .. n
  BY <1>6, <1>7 DEF Processes
<1> QED BY <1>6, <1>8, <1>9 DEF MembersAgree

LEMMA InitAgree ==
    ASSUME Init
    PROVE  MembersAgree
<1>1. PICK n \in 1 .. MaxSize : comm = [p \in 1 .. n |-> Plain([i \in 1 .. n |-> i])]
  BY DEF Init
<1>2. PICK c : c = Plain([i \in 1 .. n |-> i])
  OBVIOUS
<1>3. c = [members |-> c.members, dims |-> c.dims, periods |-> c.periods]
      /\ c.members = [i \in 1 .. n |-> i]
  BY <1>2 DEF Plain
<1>4. n \in Nat
  BY ArgumentAssumption
<1>5. comm = [q \in 1 .. n |-> c]
  BY <1>1, <1>2
<1>6. Processes = 1 .. n
  BY <1>5 DEF Processes
<1> QED BY <1>3, <1>4, <1>5, <1>6, WorldSound DEF MembersAgree

-----------------------------------------------------------------------------
(* Divisions.                                                              *)

\* The ranks at which n blocks of size ranks begin: blocks that differ by one at most,
\* none of which is empty if there are ranks enough, and none of two if there are not.
Begins(F, n, size) ==
    /\ F \in [0 .. n -> Nat] /\ F[0] = 0 /\ F[n] = size
    /\ \A i, j \in 0 .. n : i <= j => F[i] <= F[j]
    /\ \E b \in Nat : \A i \in 0 .. n - 1 : F[i + 1] = F[i] + b \/ F[i + 1] = F[i] + b + 1
    /\ \A i \in 0 .. n - 1 : n < size => F[i] < F[i + 1]
    /\ \A i \in 0 .. n - 1 : n >= size => F[i + 1] <= F[i] + 1

\* Each member of g is in one of the blocks, and has the block as its new group.
HaveBlocks(new, block, F, g, n) ==
    /\ block \in [ToSet(g) -> 0 .. n - 1]
    /\ \A q \in ToSet(g) : /\ F[block[q]] <= GroupRank(g, q)
                            /\ GroupRank(g, q) < F[block[q] + 1]
                            /\ new[q] = Kept(g, Block(g, F[block[q]], F[block[q] + 1]))

\* The groups of a division are its blocks.
LEMMA BlocksDivide ==
    ASSUME NEW P, NEW g \in Seq(P), Distinct(g), NEW n \in Nat \ {0}, NEW F, Begins(F, n, Len(g)),
           NEW new, NEW block, HaveBlocks(new, block, F, g, n)
    PROVE  Divided(g, {new[q] : q \in ToSet(g)}, n)
<1>1. PICK size \in Nat : size = Len(g)
  OBVIOUS
<1>2. PICK groups : groups = {new[q] : q \in ToSet(g)}
  OBVIOUS
<1>3. PICK b \in Nat : \A i \in 0 .. n - 1 : F[i + 1] = F[i] + b \/ F[i + 1] = F[i] + b + 1
  BY DEF Begins
<1>4. ASSUME NEW q \in ToSet(g)
      PROVE  \E i \in 0 .. n - 1, first \in Nat, next \in Nat, r \in Nat :
                /\ i = block[q] /\ first = F[i] /\ next = F[i + 1] /\ r = GroupRank(g, q)
                /\ first <= r /\ r < next /\ next <= size /\ r < size /\ g[r + 1] = q
                /\ next = first + b \/ next = first + b + 1
                /\ Neighbours(new[q], g, first, next)
  <2>1. PICK i \in 0 .. n - 1 : i = block[q]
    BY DEF HaveBlocks
  <2>2. i \in 0 .. n /\ i + 1 \in 0 .. n /\ n \in 0 .. n /\ i <= i + 1 /\ i + 1 <= n
    OBVIOUS
  <2>3. PICK first \in Nat : first = F[i]
    BY <2>2 DEF Begins
  <2>4. PICK next \in Nat : next = F[i + 1]
    BY <2>2 DEF Begins
  <2>5. first <= next /\ next <= size
    BY <1>1, <2>2, <2>3, <2>4 DEF Begins
  <2>6. PICK r \in 0 .. Len(g) - 1 : r = GroupRank(g, q) /\ g[r + 1] = q
    BY GroupRanks
  <2>7. r \in Nat /\ r < size /\ first <= r /\ r < next
    BY <1>1, <2>1, <2>3, <2>4, <2>6 DEF HaveBlocks
  <2>8. new[q] = Kept(g, Block(g, first, next))
    BY <2>1, <2>3, <2>4 DEF HaveBlocks
  <2>9. Neighbours(new[q], g, first, next)
    BY <1>1, <2>5, <2>8, BlockKept
  <2>10. next = first + b \/ next = first + b + 1
    BY <1>3, <2>3, <2>4
  <2> QED BY <2>1, <2>3, <2>4, <2>5, <2>6, <2>7, <2>9, <2>10
<1>5. ASSUME NEW q \in ToSet(g)
      PROVE  /\ Len(new[q]) \in {b, b + 1}
             /\ \E first \in 0 .. Len(g) - Len(new[q]) : \A j \in DOMAIN new[q] : new[q][j] = g[first + j]
  <2>1. PICK i \in 0 .. n - 1, first \in Nat, next \in Nat, r \in Nat :
                /\ i = block[q] /\ first = F[i] /\ next = F[i + 1] /\ r = GroupRank(g, q)
                /\ first <= r /\ r < next /\ next <= size /\ r < size /\ g[r + 1] = q
                /\ next = first + b \/ next = first + b + 1
                /\ Neighbours(new[q], g, first, next)
    BY <1>4
  <2>2. PICK m \in Nat : m = next - first
    <3>1. first \in Nat /\ next \in Nat /\ r \in Nat /\ first <= r /\ r < next
      BY <2>1
    <3>2. next - first \in Nat
      BY <3>1
    <3> QED BY <3>2
  <2>3. first \in 0 .. size - m /\ m \in {b, b + 1}
    <3>1. first \in Nat /\ next \in Nat /\ next <= size
      BY <2>1
    <3>2. next = first + b \/ next = first + b + 1
      BY <2>1
    <3> QED BY <2>2, <3>1, <3>2
  <2>4. Len(new[q]) = m /\ DOMAIN new[q] = 1 .. m /\ \A j \in 1 .. m : new[q][j] = g[first + j]
    BY <2>1, <2>2 DEF Neighbours
  <2> QED BY <1>1, <2>3, <2>4
<1>6. \A h \in groups : \E first \in 0 .. Len(g) - Len(h) : \A j \in DOMAIN h : h[j] = g[first + j]
  <2>1. ASSUME NEW h \in groups
        PROVE  \E first \in 0 .. Len(g) - Len(h) : \A j \in DOMAIN h : h[j] = g[first + j]
    <3>1. PICK q \in ToSet(g) : h = new[q]
      BY <1>2
    <3>2. \E first \in 0 .. Len(g) - Len(new[q]) : \A j \in DOMAIN new[q] : new[q][j] = g[first + j]
      BY <1>5
    <3> QED BY <3>1, <3>2
  <2> QED BY <2>1
<1>7. \A h, k \in groups : Len(h) - Len(k) \in {-1, 0, 1}
  <2>1. \A h \in groups : Len(h) = b \/ Len(h) = b + 1
    BY <1>2, <1>5
  <2> QED BY <2>1
<1>8. ASSUME n < size PROVE Cardinality(groups) = n
  <2>1. PICK f : f = [i \in 0 .. n - 1 |-> new[g[F[i] + 1]]]
    OBVIOUS
  <2>2. ASSUME NEW i \in 0 .. n - 1
        PROVE  /\ F[i] \in Nat /\ F[i] + 1 \in 1 .. Len(g) /\ g[F[i] + 1] \in ToSet(g)
               /\ GroupRank(g, g[F[i] + 1]) = F[i]
               /\ f[i] # <<>> /\ f[i][1] = g[F[i] + 1] /\ f[i] \in groups
               /\ \A q \in ToSet(g) : block[q] = i => new[q] = f[i]
    <3>1. i \in 0 .. n /\ i + 1 \in 0 .. n /\ n \in 0 .. n /\ i + 1 <= n
      OBVIOUS
    <3>2. PICK first \in Nat : first = F[i]
      BY <3>1 DEF Begins
    <3>3. PICK next \in Nat : next = F[i + 1]
      BY <3>1 DEF Begins
    <3>4. first < next /\ next <= size
      BY <1>1, <1>8, <3>1, <3>2, <3>3 DEF Begins
    <3>5. PICK l \in 1 .. Len(g) : l = first + 1
      BY <1>1, <3>4
    <3>6. PICK q \in ToSet(g) : q = g[l] /\ GroupRank(g, q) = first
      BY <3>5, GroupRanks
    <3>7. block[q] = i
      <4>1. PICK j \in 0 .. n - 1 : j = block[q]
        BY DEF HaveBlocks
      <4>2. F[j] <= first /\ first < F[j + 1]
        BY <3>6, <4>1 DEF HaveBlocks
      <4>3. j \in 0 .. n /\ j + 1 \in 0 .. n
        OBVIOUS
      <4>4. F[j] \in Nat /\ F[j + 1] \in Nat
        BY <4>3 DEF Begins
      <4>5. ~(j < i)
        <5>1. j < i => F[j + 1] <= F[i]
          BY <3>1, <4>3 DEF Begins
        <5> QED BY <3>2, <4>2, <4>4, <5>1
      <4>6. ~(i < j)
        <5>1. i < j => F[i + 1] <= F[j]
          BY <3>1, <4>3 DEF Begins
        <5> QED BY <3>3, <3>4, <4>2, <4>4, <5>1
      <4> QED BY <4>1, <4>5, <4>6
    <3>8. f[i] = new[q]
      BY <2>1, <3>2, <3>5, <3>6
    <3>9. \A s \in ToSet(g) : block[s] = i => new[s] = Kept(g, Block(g, first, next))
      BY <3>2, <3>3 DEF HaveBlocks
    <3>10. f[i] = Kept(g, Block(g, first, next))
      BY <3>7, <3>8, <3>9
    <3>11. Neighbours(f[i], g, first, next)
      <4>1. first <= next
        BY <3>4
      <4> QED BY <1>1, <3>4, <3>10, <4>1, BlockKept
    <3>12. 1 \in 1 .. next - first
      BY <3>4
    <3>13. f[i][1] = g[first + 1] /\ f[i] # <<>>
      BY <3>11, <3>12 DEF Neighbours
    <3> QED BY <1>2, <3>2, <3>5, <3>6, <3>8, <3>9, <3>10, <3>13
  <2>3. ASSUME NEW i \in 0 .. n - 1, NEW j \in 0 .. n - 1, f[i] = f[j] PROVE i = j
    <3>1. g[F[i] + 1] = g[F[j] + 1]
      BY <2>2, <2>3
    <3>2. F[i] = F[j]
      BY <2>2, <3>1
    <3>3. i \in 0 .. n /\ i + 1 \in 0 .. n /\ j \in 0 .. n /\ j + 1 \in 0 .. n
      OBVIOUS
    <3>4. F[i] \in Nat /\ F[i + 1] \in Nat /\ F[j] \in Nat /\ F[j + 1] \in Nat
      BY <3>3 DEF Begins
    <3>5. F[i] < F[i + 1] /\ F[j] < F[j + 1]
      BY <1>1, <1>8 DEF Begins
    <3>6. ~(i < j)
      <4>1. i < j => F[i + 1] <= F[j]
        BY <3>3 DEF Begins
      <4> QED BY <3>2, <3>4, <3>5, <4>1
    <3>7. ~(j < i)
      <4>1. j < i => F[j + 1] <= F[i]
        BY <3>3 DEF Begins
      <4> QED BY <3>2, <3>4, <3>5, <4>1
    <3> QED BY <3>6, <3>7
  <2>4. ASSUME NEW h \in groups PROVE \E i \in 0 .. n - 1 : f[i] = h
    <3>1. PICK q \in ToSet(g) : h = new[q]
      BY <1>2
    <3>2. block[q] \in 0 .. n - 1
      BY DEF HaveBlocks
    <3>3. f[block[q]] = new[q]
      BY <2>2, <3>2
    <3> QED BY <3>1, <3>2, <3>3
  <2>5. f \in [0 .. n - 1 -> groups]
    BY <2>1, <2>2
  <2>6. f \in Bijection(0 .. n - 1, groups)
    BY <2>3, <2>4, <2>5 DEF Bijection, Injection, Surjection, IsInjective
  <2>7. IsFiniteSet(0 .. n - 1) /\ Cardinality(0 .. n - 1) = n
    BY FS_Interval
  <2> QED BY <2>6, <2>7, FS_Bijection DEF ExistsBijection
<1>9. ASSUME ~(n < size) PROVE Cardinality(groups) = size
  <2>1. PICK f : f = [q \in ToSet(g) |-> new[q]]
    OBVIOUS
  <2>2. ASSUME NEW q \in ToSet(g) PROVE new[q] # <<>> /\ new[q][1] = q
    <3>1. PICK i \in 0 .. n - 1, first \in Nat, next \in Nat, r \in Nat :
                /\ i = block[q] /\ first = F[i] /\ next = F[i + 1] /\ r = GroupRank(g, q)
                /\ first <= r /\ r < next /\ next <= size /\ r < size /\ g[r + 1] = q
                /\ next = first + b \/ next = first + b + 1
                /\ Neighbours(new[q], g, first, next)
      BY <1>4
    <3>2. next <= first + 1
      <4>1. \A k \in 0 .. n - 1 : F[k + 1] <= F[k] + 1
        BY <1>1, <1>9 DEF Begins
      <4> QED BY <3>1, <4>1
    <3>3. r = first /\ 1 \in 1 .. next - first
      <4>1. first \in Nat /\ next \in Nat /\ r \in Nat /\ first <= r /\ r < next
        BY <3>1
      <4> QED BY <3>2, <4>1
    <3>4. new[q] # <<>> /\ new[q][1] = g[first + 1]
      <4>1. /\ DOMAIN new[q] = 1 .. next - first
            /\ \A j \in 1 .. next - first : new[q][j] = g[first + j]
        BY <3>1 DEF Neighbours
      <4>2. 1 \in DOMAIN new[q] /\ new[q][1] = g[first + 1]
        BY <3>3, <4>1
      <4> QED BY <4>2
    <3> QED BY <3>1, <3>3, <3>4
  <2>3. f \in [ToSet(g) -> groups] /\ \A h \in groups : \E q \in ToSet(g) : f[q] = h
    BY <1>2, <2>1
  <2>4. \A q, s \in ToSet(g) : f[q] = f[s] => q = s
    BY <2>1, <2>2
  <2>5. f \in Bijection(ToSet(g), groups)
    BY <2>3, <2>4 DEF Bijection, Injection, Surjection, IsInjective
  <2>6. IsFiniteSet(ToSet(g)) /\ Cardinality(ToSet(g)) = size
    BY <1>1, GroupRanks
  <2> QED BY <2>5, <2>6, FS_Bijection DEF ExistsBijection
<1> QED BY <1>1, <1>2, <1>6, <1>7, <1>8, <1>9 DEF Divided

\* Blocks of at least size/n ranks: none is empty if there are ranks enough, and they
\* are single ranks at most if there are not.
LEMMA BlockSizes ==
    ASSUME NEW size \in Nat, NEW n \in Nat \ {0}, NEW b \in Nat, NEW r \in Nat,
           b = size \div n, r = size % n
    PROVE  /\ r < n /\ size = n * b + r
           /\ n < size => b > 0
           /\ n >= size => b = 0 \/ (b = 1 /\ r = 0)
<1>1. r < n /\ size = n * b + r
  BY DivMod
<1>2. ASSUME n < size, b = 0 PROVE FALSE
  BY <1>1, <1>2, SMT
<1>3. ASSUME n >= size, b # 0 PROVE b = 1 /\ r = 0
  <2>1. n * b = n + n * (b - 1) /\ n * (b - 1) \in Nat
    <3>1. b - 1 \in Nat
      BY <1>3
    <3> QED BY <3>1, SMT
  <2>2. n * (b - 1) = 0 /\ r = 0
    BY <1>1, <1>3, <2>1
  <2> QED BY <1>3, <2>2, SMT
<1> QED BY <1>1, <1>2, <1>3

LEMMA HighBegins ==
    ASSUME NEW size \in Nat, NEW n \in Nat \ {0}
    PROVE  Begins([i \in 0 .. n |-> HighFirst(size, n, i)], n, size)
<1>1. PICK F : F = [i \in 0 .. n |-> HighFirst(size, n, i)]
  OBVIOUS
<1>2. PICK b \in Nat, r \in Nat : b = size \div n /\ r = size % n
  <2>1. size \div n \in Nat /\ size % n \in Nat
    BY DivMod
  <2> QED BY <2>1
<1>3. /\ r < n
      /\ n < size => b > 0
      /\ n >= size => b = 0 \/ (b = 1 /\ r = 0)
  BY <1>2, BlockSizes
<1>4. F \in [0 .. n -> Nat]
  <2>1. ASSUME NEW i \in 0 .. n PROVE HighFirst(size, n, i) \in Nat
    <3>1. i \in Nat
      OBVIOUS
    <3> QED BY <3>1, HighFirstType
  <2> QED BY <1>1, <2>1
<1>5. F[0] = 0 /\ F[n] = size
  BY <1>1, HighFirstLast
<1>6. \A i, j \in 0 .. n : i <= j => F[i] <= F[j]
  BY <1>1, HighFirstMonotone
<1>7. ASSUME NEW i \in 0 .. n - 1
      PROVE  F[i] \in Nat /\ F[i + 1] = IF i < r THEN F[i] + b + 1 ELSE F[i] + b
  <2>1. i \in 0 .. n /\ i + 1 \in 0 .. n
    OBVIOUS
  <2>2. /\ F[i] = i * b + (IF i < r THEN i ELSE r)
        /\ F[i + 1] = (i + 1) * b + (IF i + 1 < r THEN i + 1 ELSE r)
    BY <1>1, <1>2, <2>1 DEF HighFirst
  <2>3. PICK x \in Nat : x = i * b /\ (i + 1) * b = x + b
    <3>1. i * b \in Nat /\ (i + 1) * b = i * b + b
      BY SMT
    <3> QED BY <3>1
  <2> QED BY <1>4, <2>1, <2>2, <2>3
<1>8. \E c \in Nat : \A i \in 0 .. n - 1 : F[i + 1] = F[i] + c \/ F[i + 1] = F[i] + c + 1
  BY <1>7
<1>9. \A i \in 0 .. n - 1 : n < size => F[i] < F[i + 1]
  BY <1>3, <1>7
<1>10. \A i \in 0 .. n - 1 : n >= size => F[i + 1] <= F[i] + 1
  BY <1>3, <1>7
<1> QED BY <1>1, <1>4, <1>5, <1>6, <1>8, <1>9, <1>10 DEF Begins

LEMMA LowBegins ==
    ASSUME NEW size \in Nat, NEW n \in Nat \ {0}
    PROVE  Begins([i \in 0 .. n |-> LowFirst(size, n, i)], n, size)
<1>1. PICK F : F = [i \in 0 .. n |-> LowFirst(size, n, i)]
  OBVIOUS
<1>2. PICK b \in Nat, r \in Nat : b = size \div n /\ r = size % n
  <2>1. size \div n \in Nat /\ size % n \in Nat
    BY DivMod
  <2> QED BY <2>1
<1>3. /\ r < n /\ size = n * b + r
      /\ n < size => b > 0
      /\ n >= size => b = 0 \/ (b = 1 /\ r = 0)
  BY <1>2, BlockSizes
<1>4. F \in [0 .. n -> Nat]
  <2>1. ASSUME NEW i \in 0 .. n PROVE LowFirst(size, n, i) \in Nat
    <3>1. i \in Nat /\ i <= i
      OBVIOUS
    <3> QED BY <3>1, LowFirstMonotone
  <2> QED BY <1>1, <2>1
<1>5. F[0] = 0 /\ F[n] = size
  <2>1. 0 \in 0 .. n /\ n \in 0 .. n
    OBVIOUS
  <2>2. /\ F[0] = 0 * b + (IF 0 > n - r THEN 0 - (n - r) ELSE 0)
        /\ F[n] = n * b + (IF n > n - r THEN n - (n - r) ELSE 0)
    BY <1>1, <1>2, <2>1 DEF LowFirst
  <2>3. 0 * b = 0 /\ n * b \in Nat
    BY SMT
  <2> QED BY <1>3, <2>2, <2>3
<1>6. \A i, j \in 0 .. n : i <= j => F[i] <= F[j]
  BY <1>1, LowFirstMonotone
<1>7. ASSUME NEW i \in 0 .. n - 1
      PROVE  F[i] \in Nat /\ F[i + 1] = IF i >= n - r THEN F[i] + b + 1 ELSE F[i] + b
  <2>1. i \in 0 .. n /\ i + 1 \in 0 .. n
    OBVIOUS
  <2>2. /\ F[i] = i * b + (IF i > n - r THEN i - (n - r) ELSE 0)
        /\ F[i + 1] = (i + 1) * b + (IF i + 1 > n - r THEN i + 1 - (n - r) ELSE 0)
    <3>1. F[i] = LowFirst(size, n, i) /\ F[i + 1] = LowFirst(size, n, i + 1)
      BY <1>1, <2>1
    <3>2. LowFirst(size, n, i) = i * b + (IF i > n - r THEN i - (n - r) ELSE 0)
      BY <1>2 DEF LowFirst
    <3>3. LowFirst(size, n, i + 1) = (i + 1) * b + (IF i + 1 > n - r THEN i + 1 - (n - r) ELSE 0)
      BY <1>2 DEF LowFirst
    <3> QED BY <3>1, <3>2, <3>3
  <2>3. PICK x \in Nat : x = i * b /\ (i + 1) * b = x + b
    <3>1. i * b \in Nat /\ (i + 1) * b = i * b + b
      BY SMT
    <3> QED BY <3>1
  <2> QED BY <1>3, <1>4, <2>1, <2>2, <2>3
<1>8. \E c \in Nat : \A i \in 0 .. n - 1 : F[i + 1] = F[i] + c \/ F[i + 1] = F[i] + c + 1
  BY <1>7
<1>9. \A i \in 0 .. n - 1 : n < size => F[i] < F[i + 1]
  BY <1>3, <1>7
<1>10. \A i \in 0 .. n - 1 : n >= size => F[i + 1] <= F[i] + 1
  BY <1>3, <1>7
<1> QED BY <1>1, <1>4, <1>5, <1>6, <1>8, <1>9, <1>10 DEF Begins

\* A split by rank: the members of a color, in the order of their ranks.
LEMMA SplitIsKept ==
    ASSUME MembersAgree, NEW p \in Processes, Holds(p), NEW color, color[p] # Undefined
    PROVE  SplitOff(p, color, Ranks)
           = Plain(Kept(comm[p].members, {q \in Members(p) : color[q] = color[p]}))
<1>1. PICK g \in Seq(Processes) : g = comm[p].members /\ Distinct(g) /\ Members(p) = ToSet(g)
  BY HolderIsMember
<1>2. PICK S : S = {q \in Members(p) : color[q] = color[p]}
  OBVIOUS
<1>3. S \in SUBSET ToSet(g)
  BY <1>1, <1>2
<1>4. PICK below : below = [q \in S |-> {s \in S : Ranks[s] < Ranks[q]
                                                  \/ (Ranks[s] = Ranks[q] /\ Rank(s) < Rank(q))}]
  OBVIOUS
<1>5. \A q \in S : Ranks[q] = GroupRank(g, q) /\ Rank(q) = GroupRank(g, q) /\ GroupRank(g, q) \in Int
  BY <1>1, <1>3, MembersHold
<1>6. \A q, s \in S : s \in below[q] <=> GroupRank(g, s) < GroupRank(g, q)
  BY <1>4, <1>5
<1>7. below = BelowIn(g, S)
  <2>1. ASSUME NEW q \in S PROVE below[q] = {s \in S : GroupRank(g, s) < GroupRank(g, q)}
    BY <1>4, <1>6
  <2> QED BY <1>4, <2>1 DEF BelowIn
<1>8. Ordered(S, Ranks) = InOrder(S, below)
  BY <1>4 DEF Ordered
<1>9. Kept(g, S) = InOrder(S, BelowIn(g, S))
  BY <1>1, <1>3, KeptIs
<1>10. SplitOff(p, color, Ranks) = Plain(Ordered(S, Ranks))
  BY <1>2 DEF SplitOff
<1> QED BY <1>1, <1>2, <1>7, <1>8, <1>9, <1>10

LEMMA BlockUnique ==
    ASSUME NEW n \in Nat \ {0}, NEW size \in Nat, NEW F, Begins(F, n, size), NEW r \in Nat,
           NEW i \in 0 .. n - 1, NEW j \in 0 .. n - 1,
           F[i] <= r, r < F[i + 1], F[j] <= r, r < F[j + 1]
    PROVE  i = j
<1>1. i \in 0 .. n /\ i + 1 \in 0 .. n /\ j \in 0 .. n /\ j + 1 \in 0 .. n
  OBVIOUS
<1>2. F[i] \in Nat /\ F[i + 1] \in Nat /\ F[j] \in Nat /\ F[j + 1] \in Nat
  BY <1>1 DEF Begins
<1>3. i + 1 <= j => F[i + 1] <= F[j]
  BY <1>1 DEF Begins
<1>4. j + 1 <= i => F[j + 1] <= F[i]
  BY <1>1 DEF Begins
<1> QED BY <1>2, <1>3, <1>4

\* Each rank has the color of the block it is in.
ColorsAreBlocks(color, F, p, n) ==
    \A q \in Members(p) : /\ color[q] \in 0 .. n - 1
                          /\ F[color[q]] <= Rank(q) /\ Rank(q) < F[color[q] + 1]

\* Of the members of a communicator, those of one color are one block.
LEMMA ColorIsBlock ==
    ASSUME MembersAgree, NEW p \in Processes, Holds(p), NEW n \in Nat \ {0},
           NEW F, Begins(F, n, Size(p)), NEW color, ColorsAreBlocks(color, F, p, n),
           NEW q \in Members(p)
    PROVE  /\ {s \in Members(p) : color[s] = color[q]}
              = Block(comm[p].members, F[color[q]], F[color[q] + 1])
           /\ F[color[q]] \in Nat /\ F[color[q] + 1] \in Nat
           /\ F[color[q]] <= F[color[q] + 1] /\ F[color[q] + 1] <= Size(p)
<1>1. PICK g \in Seq(Processes) : g = comm[p].members /\ Distinct(g) /\ Members(p) = ToSet(g) /\ Size(p) = Len(g)
  BY HolderIsMember
<1>2. PICK c \in 0 .. n - 1 : c = color[q]
  BY DEF ColorsAreBlocks
<1>3. c \in 0 .. n /\ c + 1 \in 0 .. n /\ n \in 0 .. n /\ c <= c + 1 /\ c + 1 <= n
  OBVIOUS
<1>4. PICK first \in Nat : first = F[c]
  BY <1>3 DEF Begins
<1>5. PICK next \in Nat : next = F[c + 1]
  BY <1>3 DEF Begins
<1>6. first <= next /\ next <= Len(g)
  BY <1>1, <1>3, <1>4, <1>5 DEF Begins
<1>7. ASSUME NEW s \in ToSet(g)
      PROVE  color[s] = c <=> s \in Block(g, first, next)
  <2>1. PICK r \in Nat : r = Rank(s) /\ r = GroupRank(g, s)
    BY <1>1, MembersHold
  <2>2. PICK i \in 0 .. n - 1 : i = color[s] /\ F[i] <= r /\ r < F[i + 1]
    BY <1>1, <2>1 DEF ColorsAreBlocks
  <2>3. s \in Block(g, first, next) <=> first <= r /\ r < next
    BY <1>1, <1>6, <2>1, BlockFacts
  <2>4. ASSUME first <= r, r < next PROVE i = c
    <3>1. Size(p) \in Nat
      BY <1>1
    <3> QED BY <1>4, <1>5, <2>2, <2>4, <3>1, BlockUnique
  <2> QED BY <1>4, <1>5, <2>2, <2>3, <2>4
<1>8. Block(g, first, next) \subseteq ToSet(g)
  BY <1>1, <1>6, BlockFacts
<1> QED BY <1>1, <1>2, <1>4, <1>5, <1>6, <1>7, <1>8

LEMMA ColorsDivide ==
    ASSUME MembersAgree, NEW p \in Processes, Holds(p), NEW n \in Nat \ {0},
           NEW F, Begins(F, n, Size(p)), NEW color, ColorsAreBlocks(color, F, p, n),
           NEW groups, \A h : h \in groups <=> \E q \in Members(p) : h = SplitOff(q, color, Ranks).members
    PROVE  Divided(comm[p].members, groups, n)
<1>1. PICK g \in Seq(Processes) : g = comm[p].members /\ Distinct(g) /\ Members(p) = ToSet(g) /\ Size(p) = Len(g)
  BY HolderIsMember
<1>2. PICK block : block = [q \in ToSet(g) |-> color[q]]
  OBVIOUS
<1>3. block \in [ToSet(g) -> 0 .. n - 1]
  BY <1>1, <1>2 DEF ColorsAreBlocks
<1>4. PICK new : new = [q \in ToSet(g) |-> SplitOff(q, color, Ranks).members]
  OBVIOUS
<1>5. ASSUME NEW q \in ToSet(g)
      PROVE  /\ F[block[q]] <= GroupRank(g, q) /\ GroupRank(g, q) < F[block[q] + 1]
             /\ new[q] = Kept(g, Block(g, F[block[q]], F[block[q] + 1]))
  <2>1. q \in Members(p) /\ block[q] = color[q] /\ color[q] \in 0 .. n - 1
    BY <1>1, <1>2 DEF ColorsAreBlocks
  <2>2. q \in Processes /\ Holds(q) /\ comm[q].members = g /\ Members(q) = Members(p) /\ Rank(q) = GroupRank(g, q)
    BY <1>1, <2>1, MembersHold
  <2>3. F[block[q]] <= GroupRank(g, q) /\ GroupRank(g, q) < F[block[q] + 1]
    <3>1. F[color[q]] <= Rank(q) /\ Rank(q) < F[color[q] + 1]
      BY <2>1 DEF ColorsAreBlocks
    <3> QED BY <2>1, <2>2, <3>1
  <2>4. color[q] # Undefined
    BY <2>1 DEF Undefined
  <2>5. PICK S : S = {s \in Members(p) : color[s] = color[q]}
    OBVIOUS
  <2>6. SplitOff(q, color, Ranks) = Plain(Kept(g, S))
    <3>1. SplitOff(q, color, Ranks)
          = Plain(Kept(comm[q].members, {s \in Members(q) : color[s] = color[q]}))
      BY <2>2, <2>4, SplitIsKept
    <3> QED BY <2>2, <2>5, <3>1
  <2>7. S = Block(g, F[color[q]], F[color[q] + 1])
    BY <1>1, <2>1, <2>5, ColorIsBlock
  <2>8. new[q] = Kept(g, S)
    BY <1>4, <2>6 DEF Plain
  <2> QED BY <2>1, <2>3, <2>7, <2>8
<1>6. HaveBlocks(new, block, F, g, n)
  BY <1>3, <1>5 DEF HaveBlocks
<1>7. Divided(g, {new[q] : q \in ToSet(g)}, n)
  BY <1>1, <1>6, BlocksDivide
<1>8. groups = {new[q] : q \in ToSet(g)}
  <2>1. \A q \in ToSet(g) : new[q] = SplitOff(q, color, Ranks).members
    BY <1>4
  <2>2. \A h : h \in groups <=> \E q \in ToSet(g) : h = new[q]
    BY <1>1, <2>1
  <2> QED BY <2>2
<1> QED BY <1>1, <1>7, <1>8

\* The colors of divide_high and divide_low.
LEMMA HighColors ==
    ASSUME MembersAgree, NEW n \in Nat \ {0}, NEW p \in Processes, Holds(p),
           NEW color, \A q \in Holders : color[q] = Slash(Size(q), Rank(q), n)
    PROVE  ColorsAreBlocks(color, [i \in 0 .. n |-> HighFirst(Size(p), n, i)], p, n)
<1>1. PICK size \in Nat : size = Size(p)
  BY HolderIsMember
<1>2. ASSUME NEW q \in Members(p)
      PROVE  /\ color[q] \in 0 .. n - 1
             /\ HighFirst(size, n, color[q]) <= Rank(q) /\ Rank(q) < HighFirst(size, n, color[q] + 1)
  <2>1. q \in Holders /\ Size(q) = size /\ Rank(q) \in 0 .. size - 1
    BY <1>1, MembersHold
  <2>2. PICK c : c = DivideHigh(size, Rank(q), n)
    OBVIOUS
  <2>3. color[q] = c
    BY <2>1, <2>2 DEF Slash
  <2>4. c \in 0 .. n - 1
    BY <2>1, <2>2, DivideHighIsBlocks
  <2>5. HighFirst(size, n, c) <= Rank(q) /\ Rank(q) < HighFirst(size, n, c + 1)
    BY <2>1, <2>2, <2>4, DivideHighIsBlocks DEF HighIsBlocks
  <2> QED BY <2>3, <2>4, <2>5
<1>3. PICK F : F = [i \in 0 .. n |-> HighFirst(size, n, i)]
  OBVIOUS
<1>4. ASSUME NEW c \in 0 .. n - 1
      PROVE  F[c] = HighFirst(size, n, c) /\ F[c + 1] = HighFirst(size, n, c + 1)
  BY <1>3
<1>5. ColorsAreBlocks(color, F, p, n)
  BY <1>2, <1>4 DEF ColorsAreBlocks
<1> QED BY <1>1, <1>3, <1>5

LEMMA LowColors ==
    ASSUME MembersAgree, NEW n \in Nat \ {0}, NEW p \in Processes, Holds(p),
           NEW color, \A q \in Holders : color[q] = DivideLow(Size(q), Rank(q), n)
    PROVE  ColorsAreBlocks(color, [i \in 0 .. n |-> LowFirst(Size(p), n, i)], p, n)
<1>1. PICK size \in Nat : size = Size(p)
  BY HolderIsMember
<1>2. ASSUME NEW q \in Members(p)
      PROVE  /\ color[q] \in 0 .. n - 1
             /\ LowFirst(size, n, color[q]) <= Rank(q) /\ Rank(q) < LowFirst(size, n, color[q] + 1)
  <2>1. q \in Holders /\ Size(q) = size /\ Rank(q) \in 0 .. size - 1
    BY <1>1, MembersHold
  <2> QED BY <2>1, DivideLowInBlock
<1>3. PICK F : F = [i \in 0 .. n |-> LowFirst(size, n, i)]
  OBVIOUS
<1>4. ASSUME NEW c \in 0 .. n - 1
      PROVE  F[c] = LowFirst(size, n, c) /\ F[c + 1] = LowFirst(size, n, c + 1)
  BY <1>3
<1>5. ColorsAreBlocks(color, F, p, n)
  BY <1>2, <1>4 DEF ColorsAreBlocks
<1> QED BY <1>1, <1>3, <1>5

\* Communicators that are split into blocks.
LEMMA DividedStep ==
    ASSUME MembersAgree, NEW n \in Nat \ {0}, NEW color, Split(color), Processed("divide", n),
           \A p \in Processes : Holds(p) =>
              \E F : Begins(F, n, Size(p)) /\ ColorsAreBlocks(color, F, p, n)
    PROVE  DivisionsAreBlocks'
<1>1. PICK now, next : now = comm /\ next = comm'
  OBVIOUS
<1>2. parent' = now /\ last'.arg = n /\ Processes' = Processes /\ DOMAIN next = Processes
  BY <1>1 DEF Split, Processed, Processes
<1>3. PICK P : P = Processes
  OBVIOUS
<1>4. ASSUME NEW p \in P, now[p] # Empty
      PROVE  Divided(now[p].members, {next[q].members : q \in ToSet(now[p].members)}, n)
  <2>1. p \in Processes /\ Holds(p) /\ now[p].members = comm[p].members
    BY <1>1, <1>3, <1>4 DEF Holds
  <2>2. PICK F : Begins(F, n, Size(p)) /\ ColorsAreBlocks(color, F, p, n)
    BY <2>1
  <2>3. PICK groups : groups = {next[q].members : q \in ToSet(now[p].members)}
    OBVIOUS
  <2>4. ASSUME NEW q \in Members(p) PROVE next[q] = SplitOff(q, color, Ranks)
    <3>1. q \in Processes
      BY <2>1, MembersHold
    <3> QED BY <1>1, <3>1 DEF Split
  <2>5. \A h : h \in groups <=> \E q \in Members(p) : h = SplitOff(q, color, Ranks).members
    BY <2>1, <2>3, <2>4 DEF Members
  <2>6. Divided(comm[p].members, groups, n)
    BY <2>1, <2>2, <2>5, ColorsDivide
  <2> QED BY <2>1, <2>3, <2>6
<1> QED BY <1>1, <1>2, <1>3, <1>4 DEF DivisionsAreBlocks

LEMMA DivideStep ==
    ASSUME MembersAgree, NEW n \in Nat \ {0}, Divide(n)
    PROVE  DivisionsAreBlocks'
<1>1. PICK color : color = [p \in Holders |-> Slash(Size(p), Rank(p), n)]
  OBVIOUS
<1>2. Split(color) /\ Processed("divide", n)
  BY <1>1 DEF Divide
<1>3. ASSUME NEW p \in Processes, Holds(p)
      PROVE  \E F : Begins(F, n, Size(p)) /\ ColorsAreBlocks(color, F, p, n)
  <2>1. PICK F : F = [i \in 0 .. n |-> HighFirst(Size(p), n, i)]
    OBVIOUS
  <2>2. Size(p) \in Nat
    BY <1>3, HolderIsMember
  <2>3. Begins(F, n, Size(p))
    BY <2>1, <2>2, HighBegins
  <2>4. \A q \in Holders : color[q] = Slash(Size(q), Rank(q), n)
    BY <1>1
  <2>5. ColorsAreBlocks(color, F, p, n)
    BY <1>3, <2>1, <2>4, HighColors
  <2> QED BY <2>3, <2>5
<1> QED BY <1>2, <1>3, DividedStep

LEMMA LowerStep ==
    ASSUME MembersAgree, NEW n \in Nat \ {0}, Lower(n)
    PROVE  DivisionsAreBlocks'
<1>1. PICK color : color = [p \in Holders |-> DivideLow(Size(p), Rank(p), n)]
  OBVIOUS
<1>2. Split(color) /\ Processed("divide", n)
  BY <1>1 DEF Lower
<1>3. ASSUME NEW p \in Processes, Holds(p)
      PROVE  \E F : Begins(F, n, Size(p)) /\ ColorsAreBlocks(color, F, p, n)
  <2>1. PICK F : F = [i \in 0 .. n |-> LowFirst(Size(p), n, i)]
    OBVIOUS
  <2>2. Size(p) \in Nat
    BY <1>3, HolderIsMember
  <2>3. Begins(F, n, Size(p))
    BY <2>1, <2>2, LowBegins
  <2>4. \A q \in Holders : color[q] = DivideLow(Size(q), Rank(q), n)
    BY <1>1
  <2>5. ColorsAreBlocks(color, F, p, n)
    BY <1>3, <2>1, <2>4, LowColors
  <2> QED BY <2>3, <2>5
<1> QED BY <1>2, <1>3, DividedStep
-----------------------------------------------------------------------------
(* Every step.                                                             *)

\* The divisions, and the other calls.
LEMMA NextCases ==
    ASSUME Next
    PROVE  \/ \E p \in Processes : GoOn(p)
           \/ \E n \in Arguments : Divide(n) \/ Lower(n)
           \/ \E n \in Arguments : Leaders(n)
           \/ \E n \in Arguments : Interleave2(n) \/ StrideGroup(n)
           \/ \E n \in Arguments, op \in Comparisons : Select(op, n) \/ SelectGroup(op, n)
           \/ \E n \in Arguments : Even(n)
           \/ Reversed \/ Subcomm(<<1, 0>>)
           \/ \E shape \in Seq(Nat) : \E periods : Cartesian(shape, periods) \/ CartesianOf(shape, periods)
           \/ \E cut, asked : Cut(cut, asked)
<1>1. \A shape \in Shapes : shape \in Seq(Nat)
  BY ArgumentAssumption
<1>2. <<0>> \in Seq(Nat)
  OBVIOUS
<1> QED BY <1>1, <1>2 DEF Next, Ring, Axis, Hyperplane, Plane, Sub

\* A step leaves every process with a communicator that all its members hold.
LEMMA MembersAgreeStep ==
    ASSUME MembersAgree, [Next]_vars
    PROVE  MembersAgree'
<1>0. \A n \in Arguments : n \in Nat \ {0}
  BY ArgumentAssumption
<1>1. CASE \E p \in Processes : GoOn(p)
  BY <1>1, GoOnStep
<1>2. CASE \E n \in Arguments : Divide(n) \/ Lower(n)
  <2>1. \E color : Split(color)
    BY <1>2 DEF Divide, Lower
  <2> QED BY <2>1, SplitStep
<1>3. CASE \E n \in Arguments : Leaders(n)
  <2>1. \E color : Split(color)
    BY <1>3 DEF Leaders
  <2> QED BY <2>1, SplitStep
<1>4. CASE \E n \in Arguments : Interleave2(n) \/ StrideGroup(n)
  <2>1. PICK n \in Arguments : Interleave2(n) \/ StrideGroup(n)
    BY <1>4
  <2>2. CASE Interleave2(n)
    <3>1. \E color : Split(color)
      BY <2>2 DEF Interleave2
    <3> QED BY <3>1, SplitStep
  <2>3. CASE StrideGroup(n)
    BY <1>0, <2>3, StrideGroupStep
  <2> QED BY <2>1, <2>2, <2>3
<1>5. CASE \E n \in Arguments, op \in Comparisons : Select(op, n) \/ SelectGroup(op, n)
  <2>1. PICK n \in Arguments, op \in Comparisons : Select(op, n) \/ SelectGroup(op, n)
    BY <1>5
  <2>2. CASE Select(op, n)
    <3>1. \E color : Split(color)
      BY <2>2 DEF Select
    <3> QED BY <3>1, SplitStep
  <2>3. CASE SelectGroup(op, n)
    BY <1>0, <2>3, SelectGroupStep
  <2> QED BY <2>1, <2>2, <2>3
<1>6. CASE \E n \in Arguments : Even(n)
  <2>1. \E color : Split(color)
    BY <1>6 DEF Even
  <2> QED BY <2>1, SplitStep
<1>7. CASE Reversed
  BY <1>7, ReversedStep
<1>8. CASE Subcomm(<<1, 0>>)
  <2>1. PICK v : v = <<1, 0>>
    OBVIOUS
  <2>2. v \in Seq(Nat) /\ Distinct(v)
    BY <2>1 DEF Distinct
  <2> QED BY <1>8, <2>1, <2>2, SubcommStep
<1>9. CASE \E shape \in Seq(Nat) : \E periods : Cartesian(shape, periods) \/ CartesianOf(shape, periods)
  BY <1>9, CartesianStep, CartesianOfStep
<1>10. CASE \E cut, asked : Cut(cut, asked)
  <2>1. \E remains : comm' = [p \in Processes |-> SubGrid(p, remains)]
    BY <1>10 DEF Cut
  <2> QED BY <2>1, CutSound
<1>11. CASE UNCHANGED vars
  BY <1>11 DEF vars, MembersAgree, Sound, IsComm, Processes
<1> QED BY <1>1, <1>2, <1>3, <1>4, <1>5, <1>6, <1>7, <1>8, <1>9, <1>10, <1>11, NextCases

\* Whatever the program splits, and however often, each process holds a communicator
\* that it is a member of and that all members hold, with the members in the same
\* order and once each, or the null communicator: the inductive invariant.
THEOREM SplittingInvariant == Spec => []MembersAgree
<1>1. Init => MembersAgree
  BY InitAgree
<1>2. MembersAgree /\ [Next]_vars => MembersAgree'
  BY MembersAgreeStep
<1> QED BY <1>1, <1>2, PTL DEF Spec

\* Only the divisions are processed as such.
LEMMA DivisionsAreBlocksStep ==
    ASSUME MembersAgree, DivisionsAreBlocks, [Next]_vars
    PROVE  DivisionsAreBlocks'
<1>1. CASE \E n \in Arguments : Divide(n) \/ Lower(n)
  <2>1. \A n \in Arguments : n \in Nat \ {0}
    BY ArgumentAssumption
  <2> QED BY <1>1, <2>1, DivideStep, LowerStep
<1>2. CASE UNCHANGED vars
  BY <1>2 DEF vars, DivisionsAreBlocks, Processes
<1>3. CASE last'.call # "divide"
  BY <1>3 DEF DivisionsAreBlocks
<1>4. CASE \E p \in Processes : GoOn(p)
  BY <1>3, <1>4 DEF GoOn
<1>5. CASE \E n \in Arguments : Leaders(n) \/ Interleave2(n) \/ StrideGroup(n) \/ Even(n)
  BY <1>3, <1>5 DEF Leaders, Interleave2, StrideGroup, Even, Processed
<1>6. CASE \E n \in Arguments, op \in Comparisons : Select(op, n) \/ SelectGroup(op, n)
  BY <1>3, <1>6 DEF Select, SelectGroup, Processed, Comparisons
<1>7. CASE Reversed \/ Subcomm(<<1, 0>>)
  BY <1>3, <1>7 DEF Reversed, Subcomm, Processed
<1>8. CASE \E shape \in Seq(Nat) : \E periods : Cartesian(shape, periods) \/ CartesianOf(shape, periods)
  BY <1>3, <1>8 DEF Cartesian, CartesianOf, Processed
<1>9. CASE \E cut, asked : Cut(cut, asked)
  BY <1>3, <1>9 DEF Cut, Processed
<1> QED BY <1>1, <1>2, <1>4, <1>5, <1>6, <1>7, <1>8, <1>9, NextCases

\* Divisions make blocks as even as can be, of a world of any size and of whatever
\* communicators come of splitting it.
THEOREM DivisionsAreBlocksHolds == Spec => []DivisionsAreBlocks
<1>1. Init => MembersAgree /\ DivisionsAreBlocks
  BY InitAgree DEF Init, DivisionsAreBlocks
<1>2. MembersAgree /\ DivisionsAreBlocks /\ [Next]_vars => MembersAgree' /\ DivisionsAreBlocks'
  BY MembersAgreeStep, DivisionsAreBlocksStep
<1> QED BY <1>1, <1>2, PTL DEF Spec

-----------------------------------------------------------------------------
(* Selections.                                                             *)

\* What is kept of all members is all of them.
LEMMA AllKept ==
    ASSUME NEW P, NEW h \in Seq(P), Distinct(h)
    PROVE  Kept(h, ToSet(h)) = h
<1>1. PICK n \in Nat : n = Len(h)
  OBVIOUS
<1>2. PICK a \in Nat : a = 0 /\ a <= n /\ n <= Len(h)
  BY <1>1
<1>3. DOMAIN h = 1 .. n
  BY <1>1
<1>4. Block(h, a, n) = ToSet(h)
  BY <1>2, <1>3 DEF Block, ToSet
<1>5. PICK k : k = Kept(h, Block(h, a, n))
  OBVIOUS
<1>6. Neighbours(k, h, a, n)
  BY <1>2, <1>5, BlockKept
<1>7. k = [i \in 1 .. n |-> h[i]]
  <2>1. Selection(k, h, ToSet(h))
    BY <1>4, <1>5, KeptSelects
  <2>2. k \in Seq(ToSet(h))
    BY <2>1 DEF Selection
  <2>3. Len(k) = n /\ \A i \in 1 .. n : k[i] = h[i]
    BY <1>2, <1>6 DEF Neighbours
  <2> QED BY <2>2, <2>3
<1>8. h = [i \in 1 .. n |-> h[i]]
  BY <1>1
<1> QED BY <1>4, <1>5, <1>7, <1>8

\* A part and the rest, as set_difference and set_union make them.
LEMMA UnionWithRest ==
    ASSUME NEW P, NEW g \in Seq(P), Distinct(g), NEW S \in SUBSET ToSet(g), NEW h, Selection(h, g, S)
    PROVE  /\ SetUnion(h, Difference(g, h)) = h \o Kept(g, ToSet(g) \ S)
           /\ IsPermutation(SetUnion(h, Difference(g, h)), g)
<1>1. PICK T : T = ToSet(g) \ S
  OBVIOUS
<1>2. PICK k : k = Kept(g, T)
  OBVIOUS
<1>3. T \in SUBSET ToSet(g)
  BY <1>1
<1>4. Selection(k, g, T)
  BY <1>2, <1>3, KeptSelects
<1>5. Distinct(k) /\ k \in Seq(P) /\ ToSet(k) = T
  BY <1>3, <1>4, SelectionDistinct DEF Selection
<1>6. ToSet(h) = S /\ h \in Seq(P)
  BY SelectionDistinct DEF Selection
<1>7. Difference(g, h) = k
  BY <1>1, <1>2, <1>6 DEF Difference
<1>8. ToSet(k) \ ToSet(h) = ToSet(k)
  BY <1>1, <1>5, <1>6
<1>9. Difference(k, h) = k
  BY <1>5, <1>8, AllKept DEF Difference
<1>10. PICK u : u = h \o k
  OBVIOUS
<1>11. SetUnion(h, Difference(g, h)) = u
  BY <1>7, <1>9, <1>10 DEF SetUnion
<1>12. Len(h) \in Nat /\ Len(k) \in Nat /\ DOMAIN h = 1 .. Len(h) /\ DOMAIN k = 1 .. Len(k)
  BY <1>5, <1>6
<1>13. /\ DOMAIN u = 1 .. Len(h) + Len(k)
       /\ \A i \in 1 .. Len(h) + Len(k) : u[i] = IF i <= Len(h) THEN h[i] ELSE k[i - Len(h)]
  BY <1>5, <1>6, <1>10
<1>14. ToSet(u) = S \cup T
  <2>1. ASSUME NEW i \in 1 .. Len(h) + Len(k) PROVE u[i] \in S \cup T
    <3>1. CASE i <= Len(h)
      <4>1. u[i] = h[i] /\ h[i] \in ToSet(h)
        BY <1>12, <1>13, <3>1 DEF ToSet
      <4> QED BY <1>6, <4>1
    <3>2. CASE ~(i <= Len(h))
      <4>1. i - Len(h) \in 1 .. Len(k)
        BY <1>12, <3>2
      <4>2. u[i] = k[i - Len(h)] /\ k[i - Len(h)] \in ToSet(k)
        BY <1>12, <1>13, <3>2, <4>1 DEF ToSet
      <4> QED BY <1>5, <4>2
    <3> QED BY <3>1, <3>2
  <2>2. ASSUME NEW q \in S PROVE q \in ToSet(u)
    <3>1. PICK i \in 1 .. Len(h) : h[i] = q
      BY <1>6, <1>12 DEF ToSet
    <3>2. i \in 1 .. Len(h) + Len(k) /\ u[i] = q
      BY <1>12, <1>13, <3>1
    <3> QED BY <1>13, <3>2 DEF ToSet
  <2>3. ASSUME NEW q \in T PROVE q \in ToSet(u)
    <3>1. PICK i \in 1 .. Len(k) : k[i] = q
      BY <1>5, <1>12 DEF ToSet
    <3>2. PICK j \in 1 .. Len(h) + Len(k) : j = Len(h) + i
      BY <1>12
    <3>3. u[j] = q
      BY <1>12, <1>13, <3>1, <3>2
    <3> QED BY <1>13, <3>3 DEF ToSet
  <2> QED BY <1>13, <2>1, <2>2, <2>3 DEF ToSet
<1>15. ToSet(u) = ToSet(g)
  BY <1>1, <1>14
<1>16. CompareGroups(u, g) # "unequal"
  BY <1>15 DEF CompareGroups
<1> QED BY <1>1, <1>2, <1>10, <1>11, <1>16 DEF IsPermutation

\* The beginning and the rest are the whole, in its order.
LEMMA BeginningAndRest ==
    ASSUME NEW P, NEW g \in Seq(P), Distinct(g), NEW m \in Nat, m <= Len(g)
    PROVE  Kept(g, Block(g, 0, m)) \o Kept(g, ToSet(g) \ Block(g, 0, m)) = g
<1>1. PICK n \in Nat, a \in Nat : n = Len(g) /\ a = 0 /\ a <= m /\ m <= n /\ n <= Len(g)
  OBVIOUS
<1>2. \A p \in ToSet(g) : GroupRank(g, p) \in Nat /\ GroupRank(g, p) < n
  BY <1>1, GroupRanks
<1>3. \A p \in ToSet(g) : p \in Block(g, a, m) <=> a <= GroupRank(g, p) /\ GroupRank(g, p) < m
  BY <1>1, BlockFacts
<1>4. /\ \A p \in ToSet(g) : p \in Block(g, m, n) <=> m <= GroupRank(g, p) /\ GroupRank(g, p) < n
      /\ Block(g, m, n) \subseteq ToSet(g)
  BY <1>1, BlockFacts
<1>5. ToSet(g) \ Block(g, a, m) = Block(g, m, n)
  BY <1>1, <1>2, <1>3, <1>4
<1>6. PICK h : h = Kept(g, Block(g, a, m))
  OBVIOUS
<1>7. PICK k : k = Kept(g, Block(g, m, n))
  OBVIOUS
<1>8. Neighbours(h, g, a, m) /\ h \in Seq(P)
  <2>1. Block(g, a, m) \subseteq ToSet(g)
    BY <1>1, BlockFacts
  <2>2. Selection(h, g, Block(g, a, m))
    BY <1>6, <2>1, KeptSelects
  <2>3. h \in Seq(P)
    BY <2>1, <2>2, SelectionDistinct
  <2> QED BY <1>1, <1>6, <2>3, BlockKept
<1>9. Neighbours(k, g, m, n) /\ k \in Seq(P)
  <2>1. Selection(k, g, Block(g, m, n))
    BY <1>4, <1>7, KeptSelects
  <2>2. k \in Seq(P)
    BY <1>4, <2>1, SelectionDistinct
  <2> QED BY <1>1, <1>7, <2>2, BlockKept
<1>10. Len(h) = m /\ \A j \in 1 .. m : h[j] = g[j]
  BY <1>1, <1>8 DEF Neighbours
<1>11. Len(k) = n - m /\ \A j \in 1 .. n - m : k[j] = g[m + j]
  BY <1>1, <1>9 DEF Neighbours
<1>12. PICK u : u = h \o k
  OBVIOUS
<1>13. u \in Seq(P) /\ Len(u) = n
  BY <1>1, <1>8, <1>9, <1>10, <1>11, <1>12
<1>14. ASSUME NEW i \in 1 .. n PROVE u[i] = g[i]
  <2>1. CASE i <= m
    BY <1>1, <1>8, <1>9, <1>10, <1>11, <1>12, <2>1
  <2>2. CASE ~(i <= m)
    <3>1. PICK j \in 1 .. n - m : i = m + j
      <4>1. i - m \in 1 .. n - m /\ i = m + (i - m)
        BY <1>1, <2>2
      <4> QED BY <4>1
    <3>2. u[i] = k[j]
      BY <1>1, <1>8, <1>9, <1>10, <1>11, <1>12, <3>1
    <3> QED BY <1>11, <3>1, <3>2
  <2> QED BY <2>1, <2>2
<1>15. u = g
  <2>1. u = [i \in 1 .. n |-> u[i]] /\ g = [i \in 1 .. n |-> g[i]]
    BY <1>1, <1>13
  <2> QED BY <1>14, <2>1
<1> QED BY <1>1, <1>5, <1>6, <1>7, <1>12, <1>15

\* A selection is what GroupsSelectRanks asks for.
LEMMA SelectionIsSelected ==
    ASSUME NEW P, NEW old, NEW new, NEW g \in Seq(P), Distinct(g), g = old.members,
           NEW S \in SUBSET ToSet(g), Selection(new.members, g, S), NEW p \in S, NEW call,
           call \in {"<", "<="} => \E m \in 0 .. Len(g) : S = Block(g, 0, m) /\ new.members = Kept(g, S)
    PROVE  SelectedFrom(old, new, p, S, call)
<1>1. PICK h : h = new.members
  OBVIOUS
<1>2. h \in Seq(P) /\ Distinct(h) /\ ToSet(h) = S /\ Selection(h, g, S)
  BY <1>1, SelectionDistinct DEF Selection
<1>3. DOMAIN h = 1 .. Len(h) /\ Len(h) \in Nat
  BY <1>2
<1>4. TranslateRank(h, RankIn(new, p), g) = RankIn(old, p)
  <2>1. RankIn(new, p) = GroupRank(h, p)
    BY <1>1, <1>2 DEF RankIn, GroupRank
  <2>2. RankIn(old, p) = GroupRank(g, p)
    BY DEF RankIn, GroupRank
  <2>3. h[GroupRank(h, p) + 1] = p
    BY <1>2, GroupRanks
  <2> QED BY <2>1, <2>2, <2>3 DEF TranslateRank
<1>5. ASSUME NEW i \in DOMAIN h, NEW j \in DOMAIN h, i < j
      PROVE  TranslateRank(h, i - 1, g) < TranslateRank(h, j - 1, g)
  <2>1. GroupRank(g, h[i]) < GroupRank(g, h[j])
    BY <1>2, <1>3, <1>5 DEF Selection
  <2>2. (i - 1) + 1 = i /\ (j - 1) + 1 = j
    BY <1>3
  <2> QED BY <2>1, <2>2 DEF TranslateRank
<1>6. IsPermutation(SetUnion(h, Difference(g, h)), g)
  BY <1>2, UnionWithRest
<1>7. ASSUME call \in {"<", "<="} PROVE SameGroup(SetUnion(h, Difference(g, h)), g)
  <2>1. PICK m \in 0 .. Len(g) : S = Block(g, 0, m) /\ h = Kept(g, S)
    BY <1>1, <1>7
  <2>2. SetUnion(h, Difference(g, h)) = h \o Kept(g, ToSet(g) \ S)
    BY <1>2, UnionWithRest
  <2>3. m \in Nat /\ m <= Len(g)
    BY <2>1
  <2>4. h \o Kept(g, ToSet(g) \ S) = g
    BY <2>1, <2>3, BeginningAndRest
  <2> QED BY <2>2, <2>4 DEF SameGroup, CompareGroups
<1> QED BY <1>1, <1>2, <1>4, <1>5, <1>6, <1>7 DEF SelectedFrom

\* What each process has to hold after a selection: the communicator of those that are
\* chosen, if it is one of them.
Selects(new, p, call, n) ==
    LET g == comm[p].members
        S == ChosenIn(comm[p], p, call, n)
    IN  IF p \in S
        THEN /\ new = Plain(new.members) /\ Selection(new.members, g, S)
             /\ call \in {"<", "<="} => \E m \in 0 .. Len(g) : S = Block(g, 0, m) /\ new.members = Kept(g, S)
        ELSE new = Empty

LEMMA SelectedStep ==
    ASSUME MembersAgree, NEW call, NEW n, Processed(call, n), NEW held,
           comm' = [p \in Processes |-> held[p]],
           \A p \in Processes : Holds(p) => Selects(held[p], p, call, n)
    PROVE  GroupsSelectRanks'
<1>1. PICK now, next : now = comm /\ next = comm'
  OBVIOUS
<1>2. parent' = now /\ last'.arg = n /\ last'.call = call /\ Processes' = Processes
  BY <1>1 DEF Processed, Processes
<1>3. PICK P : P = Processes
  OBVIOUS
<1>4. ASSUME NEW p \in P, now[p] # Empty
      PROVE  LET chosen == ChosenIn(now[p], p, call, n)
             IN  /\ next[p] # Empty <=> p \in chosen
                 /\ next[p] # Empty => SelectedFrom(now[p], next[p], p, chosen, call)
  <2>1. p \in Processes /\ Holds(p) /\ now[p] = comm[p] /\ next[p] = held[p]
    BY <1>1, <1>3, <1>4 DEF Holds
  <2>2. PICK g \in Seq(Processes) : g = comm[p].members /\ Distinct(g)
    BY <2>1, HolderIsMember
  <2>3. PICK S : S = ChosenIn(comm[p], p, call, n)
    OBVIOUS
  <2>4. S \in SUBSET ToSet(g)
    BY <2>2, <2>3 DEF ChosenIn
  <2>5. CASE p \in S
    <3>1. /\ held[p] = Plain(held[p].members) /\ Selection(held[p].members, g, S)
          /\ call \in {"<", "<="} => \E m \in 0 .. Len(g) : S = Block(g, 0, m) /\ held[p].members = Kept(g, S)
      BY <2>1, <2>2, <2>3, <2>5 DEF Selects
    <3>2. held[p] # Empty
      <4>1. ToSet(held[p].members) = S
        BY <3>1 DEF Selection
      <4> QED BY <2>5, <4>1, EmptyIs
    <3>3. SelectedFrom(comm[p], held[p], p, S, call)
      BY <2>2, <2>4, <2>5, <3>1, SelectionIsSelected
    <3> QED BY <2>1, <2>3, <2>5, <3>2, <3>3
  <2>6. CASE p \notin S
    <3>1. held[p] = Empty
      BY <2>1, <2>2, <2>3, <2>6 DEF Selects
    <3> QED BY <2>1, <2>3, <2>6, <3>1
  <2> QED BY <2>5, <2>6
<1> QED BY <1>1, <1>2, <1>3, <1>4 DEF GroupsSelectRanks, Holds

\* Those that compare true are chosen, and they are the beginning for < and <=.
LEMMA ChosenByComparing ==
    ASSUME MembersAgree, NEW p \in Processes, Holds(p), NEW op \in Comparisons, NEW n \in Nat
    PROVE  /\ ChosenIn(comm[p], p, op, n) = Chosen(op, n, comm[p].members)
           /\ op \in {"<", "<="} => \E m \in 0 .. Size(p) : Chosen(op, n, comm[p].members) = Block(comm[p].members, 0, m)
<1>1. PICK g \in Seq(Processes) : g = comm[p].members /\ Distinct(g) /\ Members(p) = ToSet(g) /\ Size(p) = Len(g)
  BY HolderIsMember
<1>2. \A q \in ToSet(g) : RankIn(comm[p], q) = GroupRank(g, q)
  BY <1>1, MembersHold
<1>3. op # "%"
  BY DEF Comparisons
<1>4. ChosenIn(comm[p], p, op, n) = {q \in ToSet(g) : Compare(op, RankIn(comm[p], q), n) = 0}
  BY <1>1, <1>3 DEF ChosenIn
<1>5. ChosenIn(comm[p], p, op, n) = Chosen(op, n, g)
  BY <1>2, <1>4 DEF Chosen
<1>6. ASSUME op \in {"<", "<="} PROVE \E m \in 0 .. Len(g) : Chosen(op, n, g) = Block(g, 0, m)
  <2>1. PICK size \in Nat : size = Len(g)
    OBVIOUS
  <2>2. PICK b \in Nat : b = (IF op = "<" THEN n ELSE n + 1)
    OBVIOUS
  <2>3. PICK m \in Nat : m = (IF b <= size THEN b ELSE size) /\ m <= size
    OBVIOUS
  <2>4. PICK a \in Nat : a = 0 /\ a <= m
    OBVIOUS
  <2>5. /\ Block(g, a, m) \subseteq ToSet(g)
        /\ \A q \in ToSet(g) : q \in Block(g, a, m) <=> a <= GroupRank(g, q) /\ GroupRank(g, q) < m
    BY <1>1, <2>1, <2>3, <2>4, BlockFacts
  <2>6. ASSUME NEW q \in ToSet(g)
        PROVE  q \in Chosen(op, n, g) <=> q \in Block(g, a, m)
    <3>1. PICK r \in Nat : r = GroupRank(g, q) /\ r < size
      BY <1>1, <2>1, GroupRanks
    <3>2. Compare(op, r, n) = 0 <=> r < b
      BY <1>6, <2>2, Compares
    <3>3. q \in Block(g, a, m) <=> r < m
      BY <2>4, <2>5, <3>1
    <3>4. r < b <=> r < m
      BY <2>3, <3>1
    <3> QED BY <3>1, <3>2, <3>3, <3>4 DEF Chosen
  <2>7. Chosen(op, n, g) = Block(g, a, m)
    BY <2>5, <2>6 DEF Chosen
  <2>8. m \in 0 .. Len(g)
    BY <2>1, <2>3
  <2> QED BY <2>4, <2>7, <2>8
<1> QED BY <1>1, <1>5, <1>6

\* Those of the same residue are chosen.
LEMMA ChosenByResidue ==
    ASSUME MembersAgree, NEW p \in Processes, Holds(p), NEW n \in Nat \ {0}
    PROVE  /\ ChosenIn(comm[p], p, "%", n) = Residue(Rank(p) % n, n, comm[p].members)
           /\ p \in ChosenIn(comm[p], p, "%", n)
<1>1. PICK g \in Seq(Processes) : g = comm[p].members /\ Distinct(g) /\ Members(p) = ToSet(g)
  BY HolderIsMember
<1>2. \A q \in ToSet(g) : RankIn(comm[p], q) = GroupRank(g, q)
  BY <1>1, MembersHold
<1>3. p \in ToSet(g) /\ RankIn(comm[p], p) = Rank(p)
  BY <1>1, HolderIsMember, MembersHold
<1>4. ChosenIn(comm[p], p, "%", n) = {q \in ToSet(g) : RankIn(comm[p], q) % n = Rank(p) % n}
  BY <1>1, <1>3 DEF ChosenIn, Percent
<1>5. ChosenIn(comm[p], p, "%", n) = Residue(Rank(p) % n, n, g)
  BY <1>2, <1>4 DEF Residue
<1> QED BY <1>1, <1>3, <1>4, <1>5

LEMMA SelectSelects ==
    ASSUME MembersAgree, NEW n \in Nat, NEW op \in Comparisons, Select(op, n)
    PROVE  GroupsSelectRanks'
<1>1. PICK color : color = [p \in Holders |-> Compare(op, Rank(p), n)]
  OBVIOUS
<1>2. PICK held : held = [p \in Processes |-> SplitOff(p, color, Ranks)]
  OBVIOUS
<1>3. comm' = [p \in Processes |-> held[p]] /\ Processed(op, n)
  BY <1>1, <1>2 DEF Select, Split
<1>4. ASSUME NEW p \in Processes, Holds(p) PROVE Selects(held[p], p, op, n)
  <2>1. PICK g \in Seq(Processes) : g = comm[p].members /\ Distinct(g) /\ Members(p) = ToSet(g) /\ Size(p) = Len(g)
    BY <1>4, HolderIsMember
  <2>2. PICK S : S = Chosen(op, n, g)
    OBVIOUS
  <2>3. ChosenIn(comm[p], p, op, n) = S /\ (op \in {"<", "<="} => \E m \in 0 .. Len(g) : S = Block(g, 0, m))
    BY <1>4, <2>1, <2>2, ChosenByComparing
  <2>4. S \in SUBSET ToSet(g)
    BY <2>2 DEF Chosen
  <2>5. ASSUME NEW q \in ToSet(g)
        PROVE  /\ q \in S <=> color[q] = 0
               /\ color[q] = 0 \/ color[q] = Undefined
    <3>1. q \in Holders /\ Rank(q) = GroupRank(g, q)
      BY <1>4, <2>1, MembersHold
    <3>2. color[q] = Compare(op, GroupRank(g, q), n)
      BY <1>1, <3>1
    <3> QED BY <2>2, <3>2 DEF Chosen, Compare
  <2>6. p \in ToSet(g)
    BY <1>4, <2>1, HolderIsMember
  <2>7. held[p] = SplitOff(p, color, Ranks)
    BY <1>2
  <2>8. CASE p \in S
    <3>1. color[p] # Undefined
      BY <2>5, <2>6, <2>8 DEF Undefined
    <3>2. {q \in Members(p) : color[q] = color[p]} = S
      BY <2>1, <2>4, <2>5, <2>6, <2>8
    <3>3. held[p] = Plain(Kept(g, S))
      BY <1>4, <2>1, <2>7, <3>1, <3>2, SplitIsKept
    <3>4. held[p].members = Kept(g, S)
      BY <3>3 DEF Plain
    <3>5. Selection(Kept(g, S), g, S)
      BY <2>1, <2>4, KeptSelects
    <3> QED BY <2>1, <2>3, <2>8, <3>3, <3>4, <3>5 DEF Selects
  <2>9. CASE p \notin S
    <3>1. color[p] = Undefined
      BY <2>5, <2>6, <2>9
    <3>2. held[p] = Empty
      BY <2>7, <3>1 DEF SplitOff
    <3> QED BY <2>3, <2>9, <3>2 DEF Selects
  <2> QED BY <2>8, <2>9
<1> QED BY <1>3, <1>4, SelectedStep

LEMMA InterleaveSelects ==
    ASSUME MembersAgree, NEW n \in Nat \ {0}, Interleave2(n)
    PROVE  GroupsSelectRanks'
<1>1. PICK color : color = [p \in Holders |-> Percent(Rank(p), n)]
  OBVIOUS
<1>2. PICK held : held = [p \in Processes |-> SplitOff(p, color, Ranks)]
  OBVIOUS
<1>3. comm' = [p \in Processes |-> held[p]] /\ Processed("%", n)
  BY <1>1, <1>2 DEF Interleave2, Split
<1>4. ASSUME NEW p \in Processes, Holds(p) PROVE Selects(held[p], p, "%", n)
  <2>1. PICK g \in Seq(Processes) : g = comm[p].members /\ Distinct(g) /\ Members(p) = ToSet(g)
    BY <1>4, HolderIsMember
  <2>2. PICK S : S = ChosenIn(comm[p], p, "%", n)
    OBVIOUS
  <2>3. S = Residue(Rank(p) % n, n, g) /\ p \in S
    BY <1>4, <2>1, <2>2, ChosenByResidue
  <2>4. S \in SUBSET ToSet(g)
    BY <2>3 DEF Residue
  <2>5. ASSUME NEW q \in ToSet(g)
        PROVE  color[q] = GroupRank(g, q) % n /\ color[q] \in Nat
    <3>1. q \in Holders /\ Rank(q) = GroupRank(g, q) /\ GroupRank(g, q) \in Nat
      BY <1>4, <2>1, MembersHold
    <3>2. color[q] = GroupRank(g, q) % n
      BY <1>1, <3>1 DEF Percent
    <3>3. PICK r \in Nat : r = GroupRank(g, q)
      BY <3>1
    <3>4. r % n \in Nat
      BY DivMod
    <3> QED BY <3>2, <3>3, <3>4
  <2>6. color[p] = Rank(p) % n
    BY <1>1, <1>4 DEF Percent, Holders
  <2>7. color[p] # Undefined
    BY <2>3, <2>4, <2>5 DEF Undefined
  <2>8. {q \in Members(p) : color[q] = color[p]} = S
    BY <2>1, <2>3, <2>5, <2>6 DEF Residue
  <2>9. held[p] = Plain(Kept(g, S))
    BY <1>2, <1>4, <2>1, <2>7, <2>8, SplitIsKept
  <2>10. held[p].members = Kept(g, S)
    BY <2>9 DEF Plain
  <2>11. Selection(Kept(g, S), g, S)
    BY <2>1, <2>4, KeptSelects
  <2> QED BY <2>1, <2>2, <2>3, <2>9, <2>10, <2>11 DEF Selects
<1> QED BY <1>3, <1>4, SelectedStep

\* The beginning by group operations is what is kept of it.
LEMMA ComparingKeeps ==
    ASSUME NEW P, NEW g \in Seq(P), Distinct(g), NEW n \in Nat, n < Len(g), NEW op \in {"<", "<="}
    PROVE  Comparing(op, n, g) = Kept(g, Chosen(op, n, g))
<1>1. PICK m \in Nat : m = (IF op = "<" THEN n ELSE n + 1) /\ m <= Len(g)
  <2>1. Len(g) \in Nat
    OBVIOUS
  <2> QED BY <2>1
<1>2. 0 \in Nat /\ 0 <= m /\ 0 <= n /\ n <= Len(g)
  BY <1>1
<1>3. Comparing(op, n, g) = Kept(g, Block(g, 0, m))
  <2>1. CASE op = "<"
    BY <1>1, <1>2, <2>1, SlicedBlock DEF Comparing
  <2>2. CASE op = "<="
    BY <1>1, <2>2, IncludeBlock DEF Comparing
  <2> QED BY <2>1, <2>2
<1>4. Block(g, 0, m) \subseteq ToSet(g)
  BY <1>1, <1>2, BlockFacts
<1>5. ToSet(Kept(g, Block(g, 0, m))) = Block(g, 0, m)
  BY <1>4, KeptSelects DEF Selection
<1>6. ToSet(Comparing(op, n, g)) = Chosen(op, n, g)
  BY ComparingSelects DEF Selection, Comparisons
<1> QED BY <1>3, <1>5, <1>6

LEMMA SelectGroupSelects ==
    ASSUME MembersAgree, NEW n \in Nat, NEW op \in Comparisons, SelectGroup(op, n)
    PROVE  GroupsSelectRanks'
<1>1. PICK group : group = [p \in Holders |-> Comparing(op, n, comm[p].members)]
  OBVIOUS
<1>2. PICK held : held = [p \in Processes |->
                           IF Holds(p) /\ p \in ToSet(group[p]) THEN Plain(group[p]) ELSE Empty]
  OBVIOUS
<1>3. comm' = [p \in Processes |-> held[p]] /\ Processed(op, n)
  BY <1>1, <1>2 DEF SelectGroup, Create
<1>4. ASSUME NEW p \in Processes, Holds(p) PROVE Selects(held[p], p, op, n)
  <2>1. PICK g \in Seq(Processes) : g = comm[p].members /\ Distinct(g) /\ Members(p) = ToSet(g) /\ Size(p) = Len(g)
    BY <1>4, HolderIsMember
  <2>2. PICK S : S = Chosen(op, n, g)
    OBVIOUS
  <2>3. ChosenIn(comm[p], p, op, n) = S /\ (op \in {"<", "<="} => \E m \in 0 .. Len(g) : S = Block(g, 0, m))
    BY <1>4, <2>1, <2>2, ChosenByComparing
  <2>4. n < Len(g)
    BY <1>4, <2>1 DEF SelectGroup
  <2>5. group[p] = Comparing(op, n, g)
    BY <1>1, <1>4, <2>1 DEF Holders
  <2>6. Selection(group[p], g, S)
    BY <2>1, <2>2, <2>4, <2>5, ComparingSelects
  <2>7. op \in {"<", "<="} => group[p] = Kept(g, S)
    BY <2>1, <2>2, <2>4, <2>5, ComparingKeeps
  <2>8. ToSet(group[p]) = S
    BY <2>6 DEF Selection
  <2>9. held[p] = IF p \in S THEN Plain(group[p]) ELSE Empty
    BY <1>2, <1>4, <2>8
  <2>10. Plain(group[p]).members = group[p]
    BY DEF Plain
  <2> QED BY <2>1, <2>3, <2>6, <2>7, <2>9, <2>10 DEF Selects
<1> QED BY <1>3, <1>4, SelectedStep

LEMMA StrideGroupSelects ==
    ASSUME MembersAgree, NEW n \in Nat \ {0}, StrideGroup(n)
    PROVE  GroupsSelectRanks'
<1>1. PICK group : group = [p \in Holders |-> Sliced(comm[p].members, Rank(p) % n, Size(p), n)]
  OBVIOUS
<1>2. PICK held : held = [p \in Processes |->
                           IF Holds(p) /\ p \in ToSet(group[p]) THEN Plain(group[p]) ELSE Empty]
  OBVIOUS
<1>3. comm' = [p \in Processes |-> held[p]] /\ Processed("%", n)
  BY <1>1, <1>2 DEF StrideGroup, Create
<1>4. ASSUME NEW p \in Processes, Holds(p) PROVE Selects(held[p], p, "%", n)
  <2>1. PICK g \in Seq(Processes) : g = comm[p].members /\ Distinct(g) /\ Members(p) = ToSet(g) /\ Size(p) = Len(g)
    BY <1>4, HolderIsMember
  <2>2. PICK r \in 0 .. n - 1 : r = Rank(p) % n
    <3>1. Rank(p) \in Nat
      BY <1>4, HolderIsMember, MembersHold
    <3> QED BY <3>1, DivMod
  <2>3. PICK S : S = Residue(r, n, g)
    OBVIOUS
  <2>4. ChosenIn(comm[p], p, "%", n) = S /\ p \in S
    BY <1>4, <2>1, <2>2, <2>3, ChosenByResidue
  <2>5. n <= Len(g)
    BY <1>4, <2>1 DEF StrideGroup
  <2>6. group[p] = Sliced(g, r, Len(g), n)
    BY <1>1, <1>4, <2>1, <2>2 DEF Holders
  <2>7. Selection(group[p], g, S)
    BY <2>1, <2>3, <2>5, <2>6, StrideSelects
  <2>8. ToSet(group[p]) = S
    BY <2>7 DEF Selection
  <2>9. held[p] = Plain(group[p])
    BY <1>2, <1>4, <2>4, <2>8
  <2>10. Plain(group[p]).members = group[p]
    BY DEF Plain
  <2> QED BY <2>1, <2>4, <2>7, <2>9, <2>10 DEF Selects
<1> QED BY <1>3, <1>4, SelectedStep

\* Only the selections are processed as such.
LEMMA GroupsSelectRanksStep ==
    ASSUME MembersAgree, GroupsSelectRanks, [Next]_vars
    PROVE  GroupsSelectRanks'
<1>0. \A n \in Arguments : n \in Nat \ {0} /\ n \in Nat
  BY ArgumentAssumption
<1>1. CASE \E n \in Arguments : Interleave2(n) \/ StrideGroup(n)
  BY <1>0, <1>1, InterleaveSelects, StrideGroupSelects
<1>2. CASE \E n \in Arguments, op \in Comparisons : Select(op, n) \/ SelectGroup(op, n)
  BY <1>0, <1>2, SelectSelects, SelectGroupSelects
<1>3. CASE UNCHANGED vars
  BY <1>3 DEF vars, GroupsSelectRanks, Processes, Holds
<1>4. CASE last'.call \notin Comparisons \cup {"%"}
  BY <1>4 DEF GroupsSelectRanks
<1>5. CASE \E p \in Processes : GoOn(p)
  BY <1>4, <1>5 DEF GoOn, Comparisons
<1>6. CASE \E n \in Arguments : Divide(n) \/ Lower(n) \/ Leaders(n) \/ Even(n)
  BY <1>4, <1>6 DEF Divide, Lower, Leaders, Even, Processed, Comparisons
<1>7. CASE Reversed \/ Subcomm(<<1, 0>>)
  BY <1>4, <1>7 DEF Reversed, Subcomm, Processed, Comparisons
<1>8. CASE \E shape \in Seq(Nat) : \E periods : Cartesian(shape, periods) \/ CartesianOf(shape, periods)
  BY <1>4, <1>8 DEF Cartesian, CartesianOf, Processed, Comparisons
<1>9. CASE \E cut, asked : Cut(cut, asked)
  BY <1>4, <1>9 DEF Cut, Processed, Comparisons
<1> QED BY <1>1, <1>2, <1>3, <1>5, <1>6, <1>7, <1>8, <1>9, NextCases
-----------------------------------------------------------------------------
(* Leaders.                                                                *)

\* The larger blocks come first: before one that has members, all have.
Crowded(F, n) ==
    \A i, j \in 0 .. n - 1 : j <= i /\ F[i] < F[i + 1] => F[j] < F[j + 1]

\* The members that are the first of their block.
Firsts(F, n, g) == {g[F[i] + 1] : i \in {i \in 0 .. n - 1 : F[i] < F[i + 1]}}

LEMMA HighCrowded ==
    ASSUME NEW size \in Nat, NEW n \in Nat \ {0}
    PROVE  Crowded([i \in 0 .. n |-> HighFirst(size, n, i)], n)
<1>1. PICK F : F = [i \in 0 .. n |-> HighFirst(size, n, i)]
  OBVIOUS
<1>2. PICK b \in Nat, r \in Nat : b = size \div n /\ r = size % n
  <2>1. size \div n \in Nat /\ size % n \in Nat
    BY DivMod
  <2> QED BY <2>1
<1>3. ASSUME NEW i \in 0 .. n - 1
      PROVE  F[i] \in Nat /\ F[i + 1] = IF i < r THEN F[i] + b + 1 ELSE F[i] + b
  <2>1. i \in 0 .. n /\ i + 1 \in 0 .. n
    OBVIOUS
  <2>2. /\ F[i] = i * b + (IF i < r THEN i ELSE r)
        /\ F[i + 1] = (i + 1) * b + (IF i + 1 < r THEN i + 1 ELSE r)
    BY <1>1, <1>2, <2>1 DEF HighFirst
  <2>3. PICK x \in Nat : x = i * b /\ (i + 1) * b = x + b
    <3>1. i * b \in Nat /\ (i + 1) * b = i * b + b
      BY SMT
    <3> QED BY <3>1
  <2> QED BY <2>1, <2>2, <2>3
<1>4. ASSUME NEW i \in 0 .. n - 1, NEW j \in 0 .. n - 1, j <= i, F[i] < F[i + 1]
      PROVE  F[j] < F[j + 1]
  <2>1. F[i] \in Nat /\ F[i + 1] = IF i < r THEN F[i] + b + 1 ELSE F[i] + b
    BY <1>3
  <2>2. F[j] \in Nat /\ F[j + 1] = IF j < r THEN F[j] + b + 1 ELSE F[j] + b
    BY <1>3
  <2> QED BY <1>4, <2>1, <2>2
<1> QED BY <1>1, <1>4 DEF Crowded

\* The first members of the blocks before block c are as many as c, so the first
\* member of block c has rank c among them.
LEMMA FirstsAreRanked ==
    ASSUME NEW P, NEW g \in Seq(P), Distinct(g), NEW n \in Nat \ {0},
           NEW F, Begins(F, n, Len(g)), Crowded(F, n), NEW c \in 0 .. n - 1, F[c] < F[c + 1],
           NEW p, p = g[F[c] + 1]
    PROVE  /\ Firsts(F, n, g) \in SUBSET ToSet(g) /\ p \in Firsts(F, n, g)
           /\ GroupRank(Kept(g, Firsts(F, n, g)), p) = c
<1>1. PICK size \in Nat : size = Len(g)
  OBVIOUS
<1>2. \A i \in 0 .. n - 1 : F[i] \in Nat /\ F[i + 1] \in Nat /\ F[i + 1] <= size
  <2>1. \A i \in 0 .. n - 1 : i \in 0 .. n /\ i + 1 \in 0 .. n /\ n \in 0 .. n /\ i + 1 <= n
    OBVIOUS
  <2> QED BY <1>1, <2>1 DEF Begins
<1>3. \A i \in 0 .. n - 1 : F[i] < F[i + 1] =>
         g[F[i] + 1] \in ToSet(g) /\ GroupRank(g, g[F[i] + 1]) = F[i]
  <2>1. ASSUME NEW i \in 0 .. n - 1, F[i] < F[i + 1]
        PROVE  g[F[i] + 1] \in ToSet(g) /\ GroupRank(g, g[F[i] + 1]) = F[i]
    <3>1. PICK k \in 1 .. Len(g) : k = F[i] + 1 /\ k - 1 = F[i]
      <4>1. PICK x \in Nat, y \in Nat : x = F[i] /\ y = F[i + 1]
        BY <1>2
      <4>2. x < y /\ y <= size
        BY <1>2, <2>1, <4>1
      <4>3. x + 1 \in 1 .. Len(g) /\ (x + 1) - 1 = x
        BY <1>1, <4>2
      <4> QED BY <4>1, <4>3
    <3>2. g[k] \in ToSet(g) /\ GroupRank(g, g[k]) = k - 1
      BY GroupRanks
    <3> QED BY <3>1, <3>2
  <2> QED BY <2>1
<1>4. PICK S : S = Firsts(F, n, g)
  OBVIOUS
<1>5. S \in SUBSET ToSet(g) /\ p \in S
  BY <1>3, <1>4 DEF Firsts
<1>6. \A i \in 0 .. c - 1 : i \in 0 .. n - 1 /\ F[i] < F[i + 1] /\ F[i] < F[c]
  <2>1. ASSUME NEW i \in 0 .. c - 1
        PROVE  i \in 0 .. n - 1 /\ F[i] < F[i + 1] /\ F[i] < F[c]
    <3>1. i \in 0 .. n - 1 /\ i <= c /\ i + 1 \in 0 .. n /\ c \in 0 .. n /\ i + 1 <= c
      OBVIOUS
    <3>2. F[i] < F[i + 1]
      BY <3>1 DEF Crowded
    <3>3. F[i + 1] <= F[c]
      BY <3>1 DEF Begins
    <3> QED BY <1>2, <3>1, <3>2, <3>3
  <2> QED BY <2>1
<1>7. PICK below : below = BelowIn(g, S)
  OBVIOUS
<1>8. below[p] = {q \in S : GroupRank(g, q) < F[c]}
  BY <1>3, <1>5, <1>7 DEF BelowIn
<1>9. PICK f : f = [i \in 0 .. c - 1 |-> g[F[i] + 1]]
  OBVIOUS
<1>10. f \in Bijection(0 .. c - 1, below[p])
  <2>1. ASSUME NEW i \in 0 .. c - 1 PROVE f[i] \in below[p]
    <3>1. f[i] \in S /\ GroupRank(g, f[i]) = F[i]
      BY <1>3, <1>4, <1>6, <1>9 DEF Firsts
    <3> QED BY <1>6, <1>8, <3>1
  <2>2. ASSUME NEW i \in 0 .. c - 1, NEW j \in 0 .. c - 1, f[i] = f[j] PROVE i = j
    <3>1. F[i] = F[j]
      BY <1>3, <1>6, <1>9, <2>2
    <3>2. /\ i \in 0 .. n /\ j \in 0 .. n /\ i + 1 \in 0 .. n /\ j + 1 \in 0 .. n
          /\ i \in 0 .. n - 1 /\ j \in 0 .. n - 1
      OBVIOUS
    <3>3. i + 1 <= j => F[i + 1] <= F[j]
      BY <3>2 DEF Begins
    <3>4. j + 1 <= i => F[j + 1] <= F[i]
      BY <3>2 DEF Begins
    <3>5. F[i] < F[i + 1] /\ F[j] < F[j + 1]
      BY <1>6
    <3>6. PICK x \in Nat, y \in Nat, z \in Nat : x = F[i] /\ y = F[i + 1] /\ z = F[j + 1]
      BY <1>2, <3>2
    <3>7. ~(i + 1 <= j)
      BY <3>1, <3>3, <3>5, <3>6
    <3>8. ~(j + 1 <= i)
      BY <3>1, <3>4, <3>5, <3>6
    <3> QED BY <3>7, <3>8
  <2>3. ASSUME NEW q \in below[p] PROVE \E i \in 0 .. c - 1 : f[i] = q
    <3>1. PICK i \in 0 .. n - 1 : F[i] < F[i + 1] /\ q = g[F[i] + 1]
      BY <1>4, <1>8 DEF Firsts
    <3>2. F[i] < F[c]
      BY <1>3, <1>8, <3>1
    <3>3. i \in 0 .. n /\ c \in 0 .. n
      OBVIOUS
    <3>4. c <= i => F[c] <= F[i]
      BY <3>3 DEF Begins
    <3>5. i \in 0 .. c - 1
      BY <1>2, <3>2, <3>4
    <3> QED BY <1>9, <3>1, <3>5
  <2>4. f \in [0 .. c - 1 -> below[p]]
    BY <1>9, <2>1
  <2> QED BY <2>2, <2>3, <2>4 DEF Bijection, Injection, Surjection, IsInjective
<1>11. Cardinality(below[p]) = c
  <2>1. PICK z \in Int, d \in Int : z = 0 /\ d = c - 1
    OBVIOUS
  <2>2. IsFiniteSet(z .. d) /\ Cardinality(z .. d) = IF z > d THEN 0 ELSE d - z + 1
    BY FS_Interval
  <2>3. Cardinality(0 .. c - 1) = c
    BY <2>1, <2>2
  <2> QED BY <1>10, <2>1, <2>2, <2>3, FS_Bijection DEF ExistsBijection
<1>12. PICK s : s = Kept(g, S)
  OBVIOUS
<1>13. Arranges(s, S, below)
  BY <1>5, <1>7, <1>12, KeptIs
<1>14. s \in Seq(S) /\ Distinct(s) /\ Len(s) = Cardinality(S)
  <2>1. IsFiniteSet(S)
    BY <1>5, GroupRanks, FS_Subset
  <2> QED BY <1>13, <2>1, ArrangedSeq
<1>15. c \in 0 .. Cardinality(S) - 1 /\ s[c + 1] = p
  BY <1>5, <1>11, <1>13 DEF Arranges
<1>16. PICK k \in 1 .. Len(s) : k = c + 1 /\ k - 1 = c /\ s[k] = p
  BY <1>14, <1>15
<1>17. GroupRank(s, p) = c
  BY <1>14, <1>16, GroupRanks
<1> QED BY <1>4, <1>5, <1>12, <1>17

\* Where the blocks of divide_high begin.
HighBlocks(size, n) == [i \in 0 .. n |-> HighFirst(size, n, i)]

\* The groups of world/n: a member has rank 0 if it is the first of its block.
LEMMA LeadsFirst ==
    ASSUME MembersAgree, NEW n \in Nat \ {0}, NEW p \in Processes, Holds(p),
           NEW q \in Members(p), NEW c, c = Slash(Size(p), Rank(q), n),
           NEW F, F = HighBlocks(Size(p), n)
    PROVE  /\ c \in 0 .. n - 1 /\ F[c] <= Rank(q) /\ Rank(q) < F[c + 1]
           /\ RankIn(Division(n)[q], q) = 0 <=> q = comm[p].members[F[c] + 1]
<1>0. PICK group : group = Division(n)[q]
  OBVIOUS
<1>1. PICK g \in Seq(Processes) : g = comm[p].members /\ Distinct(g) /\ Members(p) = ToSet(g) /\ Size(p) = Len(g)
  BY HolderIsMember
<1>2. /\ q \in Processes /\ q \in Holders /\ Holds(q) /\ comm[q].members = g
      /\ Members(q) = Members(p) /\ Size(q) = Size(p) /\ Rank(q) = GroupRank(g, q)
  BY <1>1, MembersHold
<1>3. PICK color : color = [s \in Holders |-> Slash(Size(s), Rank(s), n)]
  OBVIOUS
<1>4. color[q] = c
  BY <1>2, <1>3
<1>5. ColorsAreBlocks(color, F, p, n)
  BY <1>3, HighColors DEF HighBlocks
<1>6. Begins(F, n, Size(p))
  BY <1>1, HighBegins DEF HighBlocks
<1>7. c \in 0 .. n - 1 /\ F[c] <= Rank(q) /\ Rank(q) < F[c + 1]
  BY <1>4, <1>5 DEF ColorsAreBlocks
<1>8. PICK S : S = {s \in Members(p) : color[s] = c}
  OBVIOUS
<1>9. /\ S = Block(g, F[c], F[c + 1])
      /\ F[c] \in Nat /\ F[c + 1] \in Nat /\ F[c] <= F[c + 1] /\ F[c + 1] <= Len(g)
  BY <1>1, <1>4, <1>5, <1>6, <1>8, ColorIsBlock
<1>10. color[q] # Undefined
  BY <1>4, <1>7 DEF Undefined
<1>11. group = Plain(Kept(g, S))
  <2>1. group = SplitOff(q, color, Ranks)
    BY <1>0, <1>2, <1>3 DEF Division
  <2> QED BY <1>2, <1>4, <1>8, <1>10, <2>1, SplitIsKept
<1>12. PICK h : h = Kept(g, S)
  OBVIOUS
<1>13. Neighbours(h, g, F[c], F[c + 1])
  BY <1>1, <1>9, <1>12, BlockKept
<1>14. q \in S /\ S \in SUBSET ToSet(g)
  BY <1>1, <1>4, <1>8
<1>15. h \in Seq(S) /\ Distinct(h) /\ ToSet(h) = S
  BY <1>1, <1>12, <1>14, KeptSelects, SelectionDistinct DEF Selection
<1>16. group.members = h
  BY <1>11, <1>12 DEF Plain
<1>17. RankIn(group, q) = GroupRank(h, q)
  BY <1>14, <1>15, <1>16 DEF RankIn, GroupRank
<1>18. PICK first \in Nat, next \in Nat, r \in Nat :
          first = F[c] /\ next = F[c + 1] /\ r = Rank(q) /\ first <= r /\ r < next
  <2>1. Rank(q) \in Nat
    BY MembersHold
  <2> QED BY <1>7, <1>9, <2>1
<1>19. /\ 1 \in 1 .. next - first /\ 1 \in 1 .. Len(h)
       /\ h[1] = g[first + 1]
  <2>1. /\ Len(h) = next - first
        /\ \A j \in 1 .. next - first : h[j] = g[first + j]
    BY <1>13, <1>18 DEF Neighbours
  <2>2. 1 \in 1 .. next - first
    BY <1>18
  <2> QED BY <2>1, <2>2
<1>20. GroupRank(h, h[1]) = 1 - 1
  BY <1>15, <1>19, GroupRanks
<1>21. h[GroupRank(h, q) + 1] = q
  BY <1>14, <1>15, GroupRanks
<1>22. RankIn(group, q) = 0 <=> q = g[first + 1]
  <2>1. q = g[first + 1] => GroupRank(h, q) = 0
    BY <1>19, <1>20
  <2>2. GroupRank(h, q) = 0 => q = g[first + 1]
    BY <1>19, <1>21
  <2> QED BY <1>17, <2>1, <2>2
<1> QED BY <1>0, <1>1, <1>7, <1>18, <1>22

\* What p holds after a split of the leaders: the communicator of the first members of
\* the blocks, if it is one of them, where its rank is its color.
LEMMA LeaderHolds ==
    ASSUME MembersAgree, NEW n \in Nat \ {0}, NEW p \in Processes, Holds(p),
           NEW groups, groups = Division(n),
           NEW leader, leader = [q \in Holders |-> IF RankIn(groups[q], q) = 0 THEN 0 ELSE Undefined],
           NEW c, c = Slash(Size(p), Rank(p), n), NEW new, new = SplitOff(p, leader, Ranks)
    PROVE  p = comm[p].members[HighFirst(Size(p), n, c) + 1] <=> new # Empty /\ RankIn(new, p) = c
<1>1. PICK g \in Seq(Processes) : /\ g = comm[p].members /\ Distinct(g) /\ Size(p) = Len(g)
                                   /\ Members(p) = ToSet(g) /\ p \in ToSet(g)
  BY HolderIsMember
<1>2. PICK F : F = HighBlocks(Size(p), n)
  OBVIOUS
<1>3. Begins(F, n, Len(g)) /\ Crowded(F, n)
  BY <1>1, <1>2, HighBegins, HighCrowded DEF HighBlocks
<1>4. ASSUME NEW q \in ToSet(g)
      PROVE  \E d \in 0 .. n - 1 :
                /\ d = Slash(Size(p), Rank(q), n)
                /\ F[d] <= GroupRank(g, q) /\ GroupRank(g, q) < F[d + 1]
                /\ leader[q] = IF q = g[F[d] + 1] THEN 0 ELSE Undefined
  <2>1. q \in Members(p) /\ q \in Processes /\ q \in Holders /\ Rank(q) = GroupRank(g, q)
    BY <1>1, MembersHold
  <2>2. PICK d : d = Slash(Size(p), Rank(q), n)
    OBVIOUS
  <2>3. /\ d \in 0 .. n - 1 /\ F[d] <= Rank(q) /\ Rank(q) < F[d + 1]
        /\ RankIn(groups[q], q) = 0 <=> q = g[F[d] + 1]
    <3>1. /\ d \in 0 .. n - 1 /\ F[d] <= Rank(q) /\ Rank(q) < F[d + 1]
          /\ RankIn(Division(n)[q], q) = 0 <=> q = comm[p].members[F[d] + 1]
      BY <1>2, <2>1, <2>2, LeadsFirst
    <3> QED BY <1>1, <3>1
  <2>4. leader[q] = IF q = g[F[d] + 1] THEN 0 ELSE Undefined
    BY <2>1, <2>3
  <2> QED BY <2>1, <2>2, <2>3, <2>4
<1>5. PICK S : S = Firsts(F, n, g)
  OBVIOUS
<1>6. ASSUME NEW q \in ToSet(g)
      PROVE  /\ q \in S => leader[q] = 0
             /\ q \notin S => leader[q] = Undefined
             /\ q \in S => \E d \in 0 .. n - 1 : /\ d = Slash(Size(p), Rank(q), n)
                                                 /\ q = g[F[d] + 1] /\ F[d] < F[d + 1]
             /\ q \notin S => q # g[F[Slash(Size(p), Rank(q), n)] + 1]
  <2>1. PICK d \in 0 .. n - 1 : /\ d = Slash(Size(p), Rank(q), n)
                                /\ F[d] <= GroupRank(g, q) /\ GroupRank(g, q) < F[d + 1]
                                /\ leader[q] = IF q = g[F[d] + 1] THEN 0 ELSE Undefined
    BY <1>4
  <2>2. PICK size \in Nat, r \in Nat : size = Len(g) /\ r = GroupRank(g, q)
    <3>1. GroupRank(g, q) \in 0 .. Len(g) - 1
      BY <1>1, GroupRanks
    <3> QED BY <3>1
  <2>3. \A i \in 0 .. n - 1 : F[i] \in Nat /\ F[i + 1] \in Nat /\ F[i + 1] <= size
    <3>1. \A i \in 0 .. n - 1 : i \in 0 .. n /\ i + 1 \in 0 .. n /\ n \in 0 .. n /\ i + 1 <= n
      OBVIOUS
    <3> QED BY <1>3, <2>2, <3>1 DEF Begins
  <2>4. F[d] < F[d + 1]
    BY <2>1, <2>2, <2>3
  <2>5. q = g[F[d] + 1] => q \in S
    BY <1>5, <2>4 DEF Firsts
  <2>6. ASSUME q \in S PROVE q = g[F[d] + 1]
    <3>1. PICK i \in 0 .. n - 1 : F[i] < F[i + 1] /\ q = g[F[i] + 1]
      BY <1>5, <2>6 DEF Firsts
    <3>2. PICK x \in Nat, y \in Nat : x = F[i] /\ y = F[i + 1] /\ x < y /\ y <= size
      BY <2>3, <3>1
    <3>3. PICK k \in 1 .. Len(g) : k = x + 1 /\ k - 1 = x
      <4>1. x + 1 \in 1 .. Len(g) /\ (x + 1) - 1 = x
        BY <2>2, <3>2
      <4> QED BY <4>1
    <3>4. GroupRank(g, g[k]) = k - 1
      BY <1>1, GroupRanks
    <3>5. r = x
      BY <2>2, <3>1, <3>2, <3>3, <3>4
    <3>6. i = d
      <4>1. F[i] <= r /\ r < F[i + 1] /\ F[d] <= r /\ r < F[d + 1]
        BY <2>1, <2>2, <3>2, <3>5
      <4>2. Begins(F, n, size)
        BY <1>3, <2>2
      <4> QED BY <4>1, <4>2, BlockUnique
    <3> QED BY <3>1, <3>6
  <2> QED BY <2>1, <2>4, <2>5, <2>6
<1>7. c = Slash(Size(p), Rank(p), n)
  OBVIOUS
<1>8. c \in 0 .. n - 1 /\ F[c] = HighFirst(Size(p), n, c)
  <2>1. c \in 0 .. n - 1
    BY <1>1, <1>4, <1>7
  <2>2. c \in 0 .. n
    BY <2>1
  <2> QED BY <1>2, <2>1, <2>2 DEF HighBlocks
<1>9. CASE p \in S
  <2>1. p = g[F[c] + 1] /\ F[c] < F[c + 1]
    BY <1>1, <1>6, <1>7, <1>9
  <2>2. S \in SUBSET ToSet(g) /\ GroupRank(Kept(g, S), p) = c
    <3>1. PICK P : P = Processes
      OBVIOUS
    <3>2. g \in Seq(P) /\ Distinct(g) /\ c \in 0 .. n - 1 /\ F[c] < F[c + 1] /\ p = g[F[c] + 1]
      BY <1>1, <1>8, <2>1, <3>1
    <3>3. /\ Firsts(F, n, g) \in SUBSET ToSet(g)
          /\ GroupRank(Kept(g, Firsts(F, n, g)), p) = c
      BY <1>3, <3>2, FirstsAreRanked
    <3> QED BY <1>5, <3>3
  <2>3. leader[p] = 0 /\ leader[p] # Undefined
    <3>1. 0 # Undefined
      BY DEF Undefined
    <3> QED BY <1>1, <1>6, <1>9, <3>1
  <2>4. {q \in Members(p) : leader[q] = leader[p]} = S
    <3>1. \A q \in ToSet(g) : leader[q] = 0 <=> q \in S
      <4>1. 0 # Undefined
        BY DEF Undefined
      <4> QED BY <1>6, <4>1
    <3> QED BY <1>1, <2>2, <2>3, <3>1
  <2>5. new = Plain(Kept(g, S))
    BY <1>1, <2>3, <2>4, SplitIsKept
  <2>6. new.members = Kept(g, S)
    BY <2>5 DEF Plain
  <2>7. ToSet(Kept(g, S)) = S
    BY <1>1, <2>2, KeptSelects DEF Selection
  <2>8. new # Empty
    BY <1>9, <2>6, <2>7, EmptyIs
  <2>9. RankIn(new, p) = GroupRank(Kept(g, S), p)
    <3>1. PICK h : h = new.members
      OBVIOUS
    <3>2. p \in ToSet(h) /\ h = Kept(g, S)
      BY <1>9, <2>6, <2>7, <3>1
    <3>3. GroupRank(h, p) = CHOOSE r \in 0 .. Len(h) - 1 : h[r + 1] = p
      BY <3>2 DEF GroupRank
    <3>4. RankIn(new, p) = CHOOSE r \in 0 .. Len(h) - 1 : h[r + 1] = p
      BY <3>1 DEF RankIn
    <3> QED BY <3>2, <3>3, <3>4
  <2> QED BY <1>1, <1>8, <2>1, <2>2, <2>8, <2>9
<1>10. CASE p \notin S
  <2>1. leader[p] = Undefined /\ p # g[F[c] + 1]
    BY <1>1, <1>6, <1>7, <1>10
  <2>2. new = Empty
    BY <2>1 DEF SplitOff
  <2> QED BY <1>1, <1>8, <2>1, <2>2
<1> QED BY <1>9, <1>10

LEMMA LeadersStep ==
    ASSUME MembersAgree, NEW n \in Nat \ {0}, Leaders(n)
    PROVE  LeadersFollowGroups'
<1>1. PICK now, next : now = comm /\ next = comm'
  OBVIOUS
<1>2. PICK groups : groups = Division(n)
  OBVIOUS
<1>3. PICK leader : leader = [q \in Holders |-> IF RankIn(groups[q], q) = 0 THEN 0 ELSE Undefined]
  OBVIOUS
<1>4. Split(leader) /\ Processed("leaders", n)
  BY <1>2, <1>3 DEF Leaders
<1>5. parent' = now /\ last'.arg = n /\ Processes' = Processes
  BY <1>1, <1>4 DEF Split, Processed, Processes
<1>6. PICK P : P = Processes
  OBVIOUS
<1>7. ASSUME NEW p \in P, now[p] # Empty
      PROVE  LET size == Len(now[p].members)
                 color == Slash(size, RankIn(now[p], p), n)
                 root == now[p].members[HighFirst(size, n, color) + 1]
             IN  p = root <=> next[p] # Empty /\ RankIn(next[p], p) = color
  <2>1. p \in Processes /\ Holds(p) /\ now[p] = comm[p]
    BY <1>1, <1>6, <1>7 DEF Holds
  <2>2. next[p] = SplitOff(p, leader, Ranks)
    BY <1>1, <1>4, <2>1 DEF Split
  <2>3. PICK c : c = Slash(Size(p), Rank(p), n)
    OBVIOUS
  <2>4. p = comm[p].members[HighFirst(Size(p), n, c) + 1] <=> next[p] # Empty /\ RankIn(next[p], p) = c
    BY <1>2, <1>3, <2>1, <2>2, <2>3, LeaderHolds
  <2> QED BY <2>1, <2>3, <2>4 DEF Size, Rank
<1> QED BY <1>1, <1>5, <1>6, <1>7 DEF LeadersFollowGroups, Holds, Rank

LEMMA LeadersFollowGroupsStep ==
    ASSUME MembersAgree, LeadersFollowGroups, [Next]_vars
    PROVE  LeadersFollowGroups'
<1>1. CASE \E n \in Arguments : Leaders(n)
  <2>1. \A n \in Arguments : n \in Nat \ {0}
    BY ArgumentAssumption
  <2> QED BY <1>1, <2>1, LeadersStep
<1>2. CASE UNCHANGED vars
  BY <1>2 DEF vars, LeadersFollowGroups, Processes, Holds, Rank
<1>3. CASE last'.call # "leaders"
  BY <1>3 DEF LeadersFollowGroups
<1>4. CASE \E p \in Processes : GoOn(p)
  BY <1>3, <1>4 DEF GoOn
<1>5. CASE \E n \in Arguments : Divide(n) \/ Lower(n) \/ Interleave2(n) \/ StrideGroup(n) \/ Even(n)
  BY <1>3, <1>5 DEF Divide, Lower, Interleave2, StrideGroup, Even, Processed
<1>6. CASE \E n \in Arguments, op \in Comparisons : Select(op, n) \/ SelectGroup(op, n)
  BY <1>3, <1>6 DEF Select, SelectGroup, Processed, Comparisons
<1>7. CASE Reversed \/ Subcomm(<<1, 0>>)
  BY <1>3, <1>7 DEF Reversed, Subcomm, Processed
<1>8. CASE \E shape \in Seq(Nat) : \E periods : Cartesian(shape, periods) \/ CartesianOf(shape, periods)
  BY <1>3, <1>8 DEF Cartesian, CartesianOf, Processed
<1>9. CASE \E cut, asked : Cut(cut, asked)
  BY <1>3, <1>9 DEF Cut, Processed
<1> QED BY <1>1, <1>2, <1>4, <1>5, <1>6, <1>7, <1>8, <1>9, NextCases

\* In every communicator that comes of splitting, the leaders of its groups have the
\* numbers of their groups for ranks, and a selection by ranks, by colors or by groups,
\* has the members that are chosen, in their order, who know which ranks were theirs.
THEOREM SelectionsAgreeHolds == Spec => []SelectionsAgree
<1>1. Init => MembersAgree /\ SelectionsAgree
  BY InitAgree DEF Init, SelectionsAgree, LeadersFollowGroups, GroupsSelectRanks, Comparisons
<1>2. MembersAgree /\ SelectionsAgree /\ [Next]_vars => MembersAgree' /\ SelectionsAgree'
  BY MembersAgreeStep, LeadersFollowGroupsStep, GroupsSelectRanksStep DEF SelectionsAgree
<1> QED BY <1>1, <1>2, PTL DEF Spec

-----------------------------------------------------------------------------
(* Numbers by their digits: the places of a grid.                          *)

\* Quotients and remainders are what they should be, whatever the sign.
LEMMA RemainderIs ==
    ASSUME NEW a \in Int, NEW b \in Nat \ {0}, NEW q \in Int, NEW r \in 0 .. b - 1, a = b * q + r
    PROVE  a % b = r /\ a \div b = q
BY SMT

\* Division with remainder of a displaced coordinate.
LEMMA IntDivMod ==
    ASSUME NEW a \in Int, NEW b \in Nat \ {0}
    PROVE  a % b \in 0 .. b - 1 /\ a \div b \in Int /\ a = b * (a \div b) + (a % b)
BY SMT

\* What is moved by d and back again, on a ring of b, is where it was.
LEMMA MovedBack ==
    ASSUME NEW b \in Nat \ {0}, NEW x \in 0 .. b - 1, NEW d \in Int
    PROVE  (((x + d) % b) - d) % b = x
<1>1. PICK r \in 0 .. b - 1, q \in Int : r = (x + d) % b /\ x + d = b * q + r
  <2>1. x + d \in Int
    OBVIOUS
  <2> QED BY <2>1, IntDivMod
<1>2. PICK k \in Int : k = -q
  OBVIOUS
<1>3. b * k = -(b * q)
  BY <1>2
<1>4. r - d = b * k + x
  <2>1. PICK y \in Int : y = b * q
    <3>1. b * q \in Int
      BY SMT
    <3> QED BY <3>1
  <2> QED BY <1>1, <1>3, <2>1
<1>5. r - d \in Int
  OBVIOUS
<1>6. (r - d) % b = x
  BY <1>4, <1>5, RemainderIs
<1> QED BY <1>1, <1>6

\* Two divisions in a row are one by the product.
LEMMA QuotientOfQuotient ==
    ASSUME NEW a \in Nat, NEW b \in Nat \ {0}, NEW c \in Nat \ {0}
    PROVE  b * c \in Nat \ {0} /\ (a \div b) \div c = a \div (b * c)
<1>1. PICK q \in Nat, r \in 0 .. b - 1 : q = a \div b /\ a = b * q + r
  BY DivMod
<1>2. PICK u \in Nat, v \in 0 .. c - 1 : u = q \div c /\ q = c * u + v
  BY DivMod
<1>3. PICK m \in Nat \ {0} : m = b * c
  <2>1. b * c \in Nat \ {0}
    BY SMT
  <2> QED BY <2>1
<1>4. PICK w \in 0 .. m - 1 : w = b * v + r
  <2>1. b * v <= b * (c - 1)
    BY ProductMonotone
  <2>2. b * (c - 1) = m - b
    BY <1>3
  <2>3. b * v \in Nat
    BY SMT
  <2>4. b * v + r \in 0 .. m - 1
    BY <2>1, <2>2, <2>3
  <2> QED BY <2>4
<1>5. a = m * u + w
  <2>1. b * q = b * (c * u) + b * v
    <3>1. \A x, y \in Nat : b * (x + y) = b * x + b * y
      BY SMT
    <3>2. c * u \in Nat
      BY SMT
    <3> QED BY <1>2, <3>1, <3>2
  <2>2. b * (c * u) = m * u
    BY <1>3, SMT
  <2> QED BY <1>1, <1>4, <2>1, <2>2, SMT
<1>6. a \div m = u
  BY <1>5, RemainderIs
<1> QED BY <1>1, <1>2, <1>3, <1>6

\* A sequence with a new first factor.
LEMMA ProductOfMore ==
    ASSUME NEW a \in Seq(Nat), NEW b \in Seq(Nat), Len(a) = Len(b) + 1,
           \A i \in 1 .. Len(b) : a[i + 1] = b[i]
    PROVE  Product(a) = a[1] * Product(b)
<1>1. PICK N \in Nat : N = Len(b) /\ Len(a) = N + 1 /\ \A k \in 1 .. N : b[k] \in Nat
  <2>1. Len(b) \in Nat /\ \A k \in 1 .. Len(b) : b[k] \in Nat
    OBVIOUS
  <2> QED BY <2>1
<1>2. PICK f : ProductSoFar(f, a, N + 1) /\ Product(a) = f[N + 1]
  BY <1>1, ProductIs
<1>3. PICK g : ProductSoFar(g, b, N) /\ Product(b) = g[N]
  BY <1>1, ProductIs
<1>4. PICK x \in Nat : x = a[1]
  BY <1>1
<1> DEFINE T == {k \in 0 .. N : f[k + 1] = x * g[k]}
<1>5. 0 \in T
  <2>1. f[1] = f[0] * a[1] /\ f[0] = 1 /\ g[0] = 1
    <3>1. 1 \in 1 .. N + 1 /\ 1 - 1 = 0
      OBVIOUS
    <3> QED BY <1>2, <1>3, <3>1 DEF ProductSoFar
  <2> QED BY <1>4, <2>1
<1>6. ASSUME NEW n \in T, n \in 0 .. N - 1 PROVE n + 1 \in T
  <2>1. PICK u \in Nat, v \in Nat : u = g[n] /\ v = b[n + 1]
    <3>1. n + 1 \in 1 .. N /\ n \in 0 .. N
      BY <1>6
    <3> QED BY <1>1, <1>3, <3>1 DEF ProductSoFar
  <2>2. f[(n + 1) + 1] = f[n + 1] * a[(n + 1) + 1]
    <3>1. (n + 1) + 1 \in 1 .. N + 1 /\ ((n + 1) + 1) - 1 = n + 1
      BY <1>6
    <3> QED BY <1>2, <3>1 DEF ProductSoFar
  <2>3. a[(n + 1) + 1] = v
    <3>1. n + 1 \in 1 .. N
      BY <1>6
    <3> QED BY <1>1, <2>1, <3>1
  <2>4. g[n + 1] = u * v
    <3>1. n + 1 \in 1 .. N /\ (n + 1) - 1 = n
      BY <1>6
    <3> QED BY <1>3, <2>1, <3>1 DEF ProductSoFar
  <2>5. f[n + 1] = x * u
    BY <2>1
  <2>6. (x * u) * v = x * (u * v)
    BY SMT
  <2>7. n + 1 \in 0 .. N
    BY <1>6
  <2> QED BY <2>2, <2>3, <2>4, <2>5, <2>6, <2>7
<1>7. N \in T
  <2> HIDE DEF T
  <2>1. 0 .. N \subseteq T
    BY <1>5, <1>6, UpTo
  <2> QED BY <2>1
<1> QED BY <1>2, <1>3, <1>4, <1>7

-----------------------------------------------------------------------------
\* What a step in each dimension is worth: the product of the extents behind it.
IsWeights(W, s) ==
    /\ W \in [0 .. Len(s) -> Nat \ {0}]
    /\ W[Len(s)] = 1 /\ W[0] = Product(s)
    /\ \A k \in 1 .. Len(s) : W[k - 1] = W[k] * s[k]

TailProducts(W, s) == \A k \in 1 .. Len(s) : W[k] = Product(SubSeq(s, k + 1, Len(s)))

\* Every shape has weights: the products of the dimensions that follow each.
LEMMA WeightsAre ==
    ASSUME NEW s \in Seq(Nat \ {0})
    PROVE  \E W : IsWeights(W, s) /\ TailProducts(W, s)
<1>1. PICK N \in Nat : N = Len(s) /\ \A k \in 1 .. N : s[k] \in Nat \ {0}
  OBVIOUS
<1>2. PICK tail : tail = [k \in 0 .. N |-> SubSeq(s, k + 1, N)]
  OBVIOUS
<1>3. ASSUME NEW k \in 0 .. N
      PROVE  tail[k] \in Seq(Nat) /\ Len(tail[k]) = N - k /\ \A i \in 1 .. N - k : tail[k][i] = s[k + i]
  <2>1. tail[k] = SubSeq(s, k + 1, N)
    BY <1>2
  <2>2. tail[k] = [i \in 1 .. N - k |-> s[k + i]]
    BY <1>1, <2>1
  <2>3. \A i \in 1 .. N - k : k + i \in 1 .. N
    OBVIOUS
  <2>4. N - k \in Nat
    OBVIOUS
  <2> QED BY <1>1, <2>2, <2>3, <2>4
<1>4. PICK W : W = [k \in 0 .. N |-> Product(tail[k])]
  OBVIOUS
<1>5. W[N] = 1
  <2>1. PICK b \in Seq(Nat) : b = tail[N] /\ Len(b) = 0
    <3>1. N \in 0 .. N /\ N - N = 0
      OBVIOUS
    <3> QED BY <1>3, <3>1
  <2>2. PICK f : ProductSoFar(f, b, Len(b)) /\ Product(b) = f[Len(b)]
    BY ProductIs
  <2>3. f[0] = 1
    BY <2>2 DEF ProductSoFar
  <2> QED BY <1>4, <2>1, <2>2, <2>3
<1>6. W[0] = Product(s)
  <2>1. tail[0] = s
    <3>1. PICK b \in Seq(Nat) : b = tail[0] /\ Len(b) = N /\ \A i \in 1 .. N : b[i] = s[0 + i]
      <4>1. 0 \in 0 .. N /\ N - 0 = N
        OBVIOUS
      <4> QED BY <1>3, <4>1
    <3>2. \A i \in 1 .. N : b[i] = s[i]
      BY <3>1
    <3> QED BY <1>1, <3>1, <3>2
  <2> QED BY <1>4, <2>1
<1>7. ASSUME NEW k \in 1 .. N PROVE W[k - 1] = s[k] * W[k]
  <2>1. PICK a \in Seq(Nat), b \in Seq(Nat) :
            /\ a = tail[k - 1] /\ b = tail[k] /\ Len(a) = N - (k - 1) /\ Len(b) = N - k
            /\ \A i \in 1 .. N - (k - 1) : a[i] = s[(k - 1) + i]
            /\ \A i \in 1 .. N - k : b[i] = s[k + i]
    <3>1. k - 1 \in 0 .. N /\ k \in 0 .. N
      OBVIOUS
    <3> QED BY <1>3, <3>1
  <2>2. Len(a) = Len(b) + 1
    BY <2>1
  <2>3. \A i \in 1 .. Len(b) : a[i + 1] = b[i]
    <3>1. ASSUME NEW i \in 1 .. N - k PROVE a[i + 1] = b[i]
      <4>1. i + 1 \in 1 .. N - (k - 1) /\ (k - 1) + (i + 1) = k + i
        OBVIOUS
      <4> QED BY <2>1, <4>1
    <3> QED BY <2>1, <3>1
  <2>4. Product(a) = a[1] * Product(b)
    BY <2>2, <2>3, ProductOfMore
  <2>5. a[1] = s[k]
    <3>1. 1 \in 1 .. N - (k - 1) /\ (k - 1) + 1 = k
      OBVIOUS
    <3> QED BY <2>1, <3>1
  <2>6. W[k - 1] = Product(a) /\ W[k] = Product(b)
    <3>1. k - 1 \in 0 .. N /\ k \in 0 .. N
      OBVIOUS
    <3> QED BY <1>4, <2>1, <3>1
  <2> QED BY <2>4, <2>5, <2>6
<1> DEFINE T == {j \in 0 .. N : W[N - j] \in Nat \ {0}}
<1>8. 0 \in T
  BY <1>5
<1>9. ASSUME NEW j \in T, j \in 0 .. N - 1 PROVE j + 1 \in T
  <2>1. PICK k \in 1 .. N : k = N - j
    <3>1. N - j \in 1 .. N
      BY <1>9
    <3> QED BY <3>1
  <2>2. PICK x \in Nat \ {0}, w \in Nat \ {0} : x = s[k] /\ w = W[k]
    BY <1>1, <2>1
  <2>3. x * w \in Nat \ {0}
    BY SMT
  <2>4. N - (j + 1) = k - 1 /\ j + 1 \in 0 .. N
    BY <1>9, <2>1
  <2> QED BY <1>7, <2>2, <2>3, <2>4
<1>10. ASSUME NEW k \in 0 .. N PROVE W[k] \in Nat \ {0}
  <2>1. 0 .. N \subseteq T
    <3> HIDE DEF T
    <3> QED BY <1>8, <1>9, UpTo
  <2>2. N - k \in 0 .. N /\ N - (N - k) = k
    OBVIOUS
  <2> QED BY <2>1, <2>2
<1>11. W \in [0 .. N -> Nat \ {0}]
  BY <1>4, <1>10
<1>12. \A k \in 1 .. N : W[k - 1] = W[k] * s[k]
  <2>1. ASSUME NEW k \in 1 .. N PROVE W[k - 1] = W[k] * s[k]
    <3>1. PICK x \in Nat \ {0}, w \in Nat \ {0} : x = s[k] /\ w = W[k]
      BY <1>1, <1>10
    <3>2. x * w = w * x
      BY SMT
    <3> QED BY <1>7, <3>1, <3>2
  <2> QED BY <2>1
<1>13. \A k \in 1 .. N : W[k] = Product(SubSeq(s, k + 1, Len(s)))
  BY <1>1, <1>2, <1>4
<1>14. IsWeights(W, s)
  BY <1>1, <1>5, <1>6, <1>11, <1>12 DEF IsWeights
<1>15. TailProducts(W, s)
  BY <1>1, <1>13 DEF TailProducts
<1> QED BY <1>14, <1>15

\* The place of given coordinates, dimension by dimension.
RankSoFar(R, s, coords) ==
    /\ R \in [0 .. Len(s) -> Nat]
    /\ R[0] = 0 /\ \A k \in 1 .. Len(s) : R[k] = R[k - 1] * s[k] + (coords[k] % s[k])

\* MPI_Cart_rank makes the number of a place dimension by dimension.
LEMMA CartRankIs ==
    ASSUME NEW c, c.dims \in Seq(Nat \ {0}),
           NEW coords, \A k \in 1 .. Len(c.dims) : coords[k] \in Int
    PROVE  \E R : RankSoFar(R, c.dims, coords) /\ CartRank(c, coords) = R[Len(c.dims)]
<1>1. PICK s \in Seq(Nat \ {0}), N \in Nat :
          s = c.dims /\ N = Len(s) /\ \A k \in 1 .. N : s[k] \in Nat \ {0} /\ coords[k] \in Int
  OBVIOUS
<1>2. PICK step : step = [k \in 1 .. N |-> [v \in Nat |-> v * s[k] + (coords[k] % s[k])]]
  OBVIOUS
<1>3. step \in [1 .. N -> [Nat -> Nat]]
  <2>1. ASSUME NEW k \in 1 .. N, NEW v \in Nat PROVE v * s[k] + (coords[k] % s[k]) \in Nat
    <3>0. PICK x \in Nat \ {0}, z \in Int : x = s[k] /\ z = coords[k]
      BY <1>1
    <3>1. PICK y \in Nat : x = s[k] /\ y = coords[k] % s[k]
      <4>1. z % x \in Nat
        BY IntDivMod
      <4> QED BY <3>0, <4>1
    <3>2. v * x \in Nat
      BY SMT
    <3> QED BY <3>1, <3>2
  <2> QED BY <1>2, <2>1
<1>4. PICK f \in [0 .. N -> Nat] : f[0] = 0 /\ \A k \in 1 .. N : f[k] = step[k][f[k - 1]]
  <2>1. \E f : CountsUp(f, N, Nat, 0, step)
    BY <1>3, CountedUp
  <2> QED BY <2>1 DEF CountsUp
<1>5. \A k \in 1 .. N : f[k] = f[k - 1] * s[k] + (coords[k] % s[k])
  <2>1. ASSUME NEW k \in 1 .. N PROVE f[k] = f[k - 1] * s[k] + (coords[k] % s[k])
    <3>1. f[k - 1] \in Nat
      OBVIOUS
    <3> QED BY <1>2, <1>4, <3>1
  <2> QED BY <2>1
<1>6. PICK h : h = CHOOSE g : g = [k \in 0 .. Len(c.dims) |->
                     IF k = 0 THEN 0 ELSE g[k - 1] * c.dims[k] + (coords[k] % c.dims[k])]
  OBVIOUS
<1>7. f = [k \in 0 .. Len(c.dims) |-> IF k = 0 THEN 0 ELSE f[k - 1] * c.dims[k] + (coords[k] % c.dims[k])]
  BY <1>1, <1>4, <1>5
<1>8. h = [k \in 0 .. Len(c.dims) |-> IF k = 0 THEN 0 ELSE h[k - 1] * c.dims[k] + (coords[k] % c.dims[k])]
  BY <1>6, <1>7
<1>9. CartRank(c, coords) = h[Len(c.dims)]
  BY Zenon, <1>6 DEF CartRank
<1>10. \A k \in 0 .. N : h[k] = f[k]
  <2>1. h[0] = f[0]
    BY <1>1, <1>4, <1>8
  <2>2. ASSUME NEW k \in 1 .. N, h[k - 1] = f[k - 1] PROVE h[k] = f[k]
    <3>1. k \in 0 .. Len(c.dims) /\ k # 0
      BY <1>1
    <3>2. h[k] = h[k - 1] * s[k] + (coords[k] % s[k])
      BY <1>1, <1>8, <3>1
    <3> QED BY <1>5, <2>2, <3>2
  <2> QED BY <2>1, <2>2, CountedAlike
<1>11. RankSoFar(f, c.dims, coords)
  BY <1>1, <1>4, <1>5 DEF RankSoFar
<1> QED BY <1>1, <1>9, <1>10, <1>11

\* Weights are positive, and the first of them is the size of the whole grid.
LEMMA WeightsArePositive ==
    ASSUME NEW s \in Seq(Nat \ {0}), NEW W, IsWeights(W, s), NEW k \in 0 .. Len(s)
    PROVE  W[k] \in Nat \ {0}
BY DEF IsWeights

LEMMA FirstWeight ==
    ASSUME NEW s \in Seq(Nat \ {0}), NEW W, IsWeights(W, s)
    PROVE  W[0] \in Nat \ {0} /\ W[0] = Product(s)
<1>1. PICK N \in Nat : N = Len(s)
  OBVIOUS
<1>2. 0 \in 0 .. N
  BY <1>1
<1>3. W[0] \in Nat \ {0}
  BY <1>1, <1>2, WeightsArePositive
<1>4. W[0] = Product(s)
  BY DEF IsWeights
<1> QED BY <1>3, <1>4

\* The digits of a number, and the number of the digits: each leads to the other.
Digits(W, s, r) == [i \in 1 .. Len(s) |-> (r \div W[i]) % s[i]]

QuotientsStep(W, s, r, k) ==
    /\ r \div W[k] \in Nat /\ r \div W[k - 1] \in Nat
    /\ (r \div W[k]) % s[k] \in 0 .. s[k] - 1
    /\ r \div W[k - 1] = (r \div W[k]) \div s[k]
    /\ r \div W[k] = (r \div W[k - 1]) * s[k] + ((r \div W[k]) % s[k])

\* One dimension more: its digit is what the next division leaves.
LEMMA QuotientsByWeights ==
    ASSUME NEW s \in Seq(Nat \ {0}), NEW W, IsWeights(W, s), NEW r \in Nat, NEW k \in 1 .. Len(s)
    PROVE  QuotientsStep(W, s, r, k)
<1>0. PICK N \in Nat : N = Len(s) /\ \A i \in 1 .. N : s[i] \in Nat \ {0}
  OBVIOUS
<1>1. PICK w \in Nat \ {0}, x \in Nat \ {0}, v \in Nat \ {0} : w = W[k] /\ x = s[k] /\ v = W[k - 1]
  <2>1. k \in 0 .. N /\ k - 1 \in 0 .. N /\ k \in 1 .. N
    BY <1>0
  <2>2. W \in [0 .. N -> Nat \ {0}]
    BY <1>0 DEF IsWeights
  <2> QED BY <1>0, <2>1, <2>2
<1>2. v = w * x
  BY <1>1 DEF IsWeights
<1>3. PICK q \in Nat : q = r \div w
  BY DivMod
<1>4. q \div x = r \div v
  <2>1. (r \div w) \div x = r \div (w * x)
    BY QuotientOfQuotient
  <2> QED BY <1>2, <1>3, <2>1
<1>5. q \div x \in Nat /\ q % x \in 0 .. x - 1 /\ q = x * (q \div x) + (q % x)
  BY DivMod
<1>6. PICK u \in Nat : u = q \div x
  BY <1>5
<1>7. x * u = u * x
  BY SMT
<1> QED BY <1>1, <1>3, <1>4, <1>5, <1>6, <1>7 DEF QuotientsStep

\* Back from the digits of a number to the number.
LEMMA RankOfDigits ==
    ASSUME NEW s \in Seq(Nat \ {0}), NEW W, IsWeights(W, s), NEW r \in 0 .. Product(s) - 1,
           NEW coords, NEW R, RankSoFar(R, s, coords),
           \A k \in 1 .. Len(s) : coords[k] % s[k] = (r \div W[k]) % s[k]
    PROVE  R[Len(s)] = r
<1>1. PICK N \in Nat : N = Len(s)
  OBVIOUS
<1>2. r \in Nat /\ r < W[0] /\ W[0] \in Nat \ {0}
  BY DEF IsWeights
<1>3. r \div W[0] = 0
  <2>1. W[0] * 0 = 0
    BY <1>2
  <2> QED BY <1>2, <2>1, Quotient
<1>4. R[0] = r \div W[0]
  BY <1>3 DEF RankSoFar
<1>5. PICK f : f = [k \in 0 .. N |-> r \div W[k]]
  OBVIOUS
<1>6. \A k \in 1 .. N : R[k - 1] = f[k - 1] => R[k] = f[k]
  <2>1. ASSUME NEW k \in 1 .. N, R[k - 1] = f[k - 1] PROVE R[k] = f[k]
    <3>1. f[k] = r \div W[k] /\ f[k - 1] = r \div W[k - 1]
      BY <1>5
    <3>2. r \div W[k] = (r \div W[k - 1]) * s[k] + ((r \div W[k]) % s[k])
      <4>1. QuotientsStep(W, s, r, k)
        BY <1>1, <1>2, QuotientsByWeights
      <4> QED BY <4>1 DEF QuotientsStep
    <3>3. R[k] = R[k - 1] * s[k] + ((r \div W[k]) % s[k])
      BY <1>1 DEF RankSoFar
    <3> QED BY <2>1, <3>1, <3>2, <3>3
  <2> QED BY <2>1
<1>7. R[0] = f[0]
  BY <1>4, <1>5
<1>8. R[N] = f[N]
  <2>1. \A k \in 0 .. N : R[k] = f[k]
    BY <1>6, <1>7, CountedAlike
  <2> QED BY <2>1
<1>9. f[N] = r
  <2>1. W[N] = 1 /\ f[N] = r \div W[N]
    BY <1>1, <1>5 DEF IsWeights
  <2> QED BY <1>2, <2>1
<1> QED BY <1>1, <1>8, <1>9

DigitsFit(W, s, R, coords) ==
    /\ R[Len(s)] \in 0 .. Product(s) - 1
    /\ \A k \in 1 .. Len(s) : (R[Len(s)] \div W[k]) % s[k] = coords[k] % s[k]

\* The number that is made of coordinates has their remainders for digits.
LEMMA DigitsOfRank ==
    ASSUME NEW s \in Seq(Nat \ {0}), NEW W, IsWeights(W, s),
           NEW coords, \A k \in 1 .. Len(s) : coords[k] \in Int, NEW R, RankSoFar(R, s, coords)
    PROVE  DigitsFit(W, s, R, coords)
<1>1. PICK N \in Nat : N = Len(s) /\ \A k \in 1 .. N : s[k] \in Nat \ {0}
  OBVIOUS
<1>2. PICK r \in Nat : r = R[N]
  BY <1>1 DEF RankSoFar
<1>3. ASSUME NEW k \in 1 .. N
      PROVE  R[k] \in Nat /\ R[k] \div s[k] = R[k - 1] /\ R[k] % s[k] = coords[k] % s[k]
  <2>0. PICK x \in Nat \ {0} : x = s[k]
    BY <1>1
  <2>1. PICK m \in 0 .. x - 1 : x = s[k] /\ m = coords[k] % s[k]
    BY <1>1, <2>0, IntDivMod
  <2>2. PICK u \in Nat, v \in Nat : u = R[k - 1] /\ v = R[k] /\ v = u * x + m
    <3>1. k - 1 \in 0 .. N /\ k \in 0 .. N
      OBVIOUS
    <3>2. R[k - 1] \in Nat /\ R[k] \in Nat
      BY <1>1, <3>1 DEF RankSoFar
    <3>3. R[k] = R[k - 1] * s[k] + (coords[k] % s[k])
      BY <1>1 DEF RankSoFar
    <3> QED BY <2>0, <2>1, <3>2, <3>3
  <2>3. u * x = x * u
    BY SMT
  <2>4. v = x * u + m
    BY <2>2, <2>3
  <2>5. v % x = m /\ v \div x = u
    BY <2>4, RemainderIs
  <2> QED BY <2>1, <2>2, <2>5
<1> DEFINE T == {j \in 0 .. N : r \div W[N - j] = R[N - j]}
<1>4. 0 \in T
  <2>1. W[N] = 1
    BY <1>1 DEF IsWeights
  <2> QED BY <1>2, <2>1
<1>5. ASSUME NEW j \in T, j \in 0 .. N - 1 PROVE j + 1 \in T
  <2>1. PICK k \in 1 .. N : k = N - j
    <3>1. N - j \in 1 .. N
      BY <1>5
    <3> QED BY <3>1
  <2>2. r \div W[k] = R[k]
    BY <2>1
  <2>3. r \div W[k - 1] = (r \div W[k]) \div s[k]
    <3>1. QuotientsStep(W, s, r, k)
      BY <1>1, QuotientsByWeights
    <3> QED BY <3>1 DEF QuotientsStep
  <2>4. r \div W[k - 1] = R[k - 1]
    BY <1>3, <2>2, <2>3
  <2>5. N - (j + 1) = k - 1 /\ j + 1 \in 0 .. N
    BY <1>5, <2>1
  <2> QED BY <2>4, <2>5
<1>6. ASSUME NEW k \in 0 .. N PROVE r \div W[k] = R[k]
  <2>1. 0 .. N \subseteq T
    <3> HIDE DEF T
    <3> QED BY <1>4, <1>5, UpTo
  <2>2. N - k \in 0 .. N /\ N - (N - k) = k
    OBVIOUS
  <2> QED BY <2>1, <2>2
<1>7. r < W[0]
  <2>1. PICK w \in Nat \ {0} : w = W[0]
    BY FirstWeight
  <2>2. r \div w = 0
    BY <1>6, <2>1 DEF RankSoFar
  <2>3. r = w * (r \div w) + (r % w) /\ r % w \in 0 .. w - 1
    BY DivMod
  <2>4. w * 0 = 0
    OBVIOUS
  <2> QED BY <2>1, <2>2, <2>3, <2>4
<1>8. r \in 0 .. Product(s) - 1
  <2>1. PICK w \in Nat \ {0} : w = W[0] /\ w = Product(s)
    BY FirstWeight
  <2>2. r < w
    BY <1>7, <2>1
  <2>3. r \in 0 .. w - 1
    BY <1>2, <2>2
  <2> QED BY <2>1, <2>3
<1>9. \A k \in 1 .. N : (r \div W[k]) % s[k] = coords[k] % s[k]
  BY <1>3, <1>6
<1> QED BY <1>1, <1>2, <1>8, <1>9 DEF DigitsFit

\* The first digit in which two numbers differ tells which is less.
LEMMA FirstDigitTells ==
    ASSUME NEW s \in Seq(Nat \ {0}), NEW W, IsWeights(W, s), NEW a \in Nat, NEW b \in Nat,
           a < Product(s), b < Product(s), NEW i \in 1 .. Len(s),
           \A j \in 1 .. i - 1 : (a \div W[j]) % s[j] = (b \div W[j]) % s[j],
           (a \div W[i]) % s[i] < (b \div W[i]) % s[i]
    PROVE  a < b
<1>1. PICK N \in Nat : N = Len(s)
  OBVIOUS
<1>2. ASSUME NEW r \in Nat, r < Product(s) PROVE r \div W[0] = 0
  <2>1. PICK w \in Nat \ {0} : w = W[0] /\ w = Product(s)
    BY FirstWeight
  <2>2. r < w
    BY <1>2, <2>1
  <2>3. w * 0 = 0
    OBVIOUS
  <2>4. w * 0 <= r /\ r < w * 0 + w
    BY <2>2, <2>3
  <2>5. r \div w = 0
    BY <2>4, Quotient
  <2> QED BY <2>1, <2>5
<1>3. PICK f, h : f = [k \in 0 .. N |-> a \div W[k]] /\ h = [k \in 0 .. N |-> b \div W[k]]
  OBVIOUS
<1>4. PICK n \in Nat : n = i - 1 /\ n \in 0 .. N - 1
  BY <1>1
<1>5. ASSUME NEW k \in 1 .. n, f[k - 1] = h[k - 1] PROVE f[k] = h[k]
  <2>1. k \in 1 .. N /\ k \in 1 .. i - 1
    BY <1>1, <1>4
  <2>2. a \div W[k] = (a \div W[k - 1]) * s[k] + ((a \div W[k]) % s[k])
    BY <1>1, <2>1, QuotientsByWeights DEF QuotientsStep
  <2>3. b \div W[k] = (b \div W[k - 1]) * s[k] + ((b \div W[k]) % s[k])
    BY <1>1, <2>1, QuotientsByWeights DEF QuotientsStep
  <2>4. f[k] = a \div W[k] /\ f[k - 1] = a \div W[k - 1] /\ h[k] = b \div W[k] /\ h[k - 1] = b \div W[k - 1]
    BY <1>3, <2>1
  <2> QED BY <1>5, <2>1, <2>2, <2>3, <2>4
<1>6. h[0] = f[0]
  BY <1>2, <1>3
<1>7. f[n] = h[n]
  <2> DEFINE T == {k \in 0 .. n : f[k] = h[k]}
  <2>1. 0 \in T
    BY <1>4, <1>6
  <2>2. ASSUME NEW k \in T, k \in 0 .. n - 1 PROVE k + 1 \in T
    <3>1. k + 1 \in 1 .. n /\ (k + 1) - 1 = k
      BY <1>4, <2>2
    <3>2. f[k] = h[k]
      BY <2>2
    <3>3. f[k + 1] = h[k + 1]
      BY <1>5, <3>1, <3>2
    <3> QED BY <3>1, <3>3
  <2>3. 0 .. n \subseteq T
    <3> HIDE DEF T
    <3> QED BY <1>4, <2>1, <2>2, UpTo
  <2>4. n \in 0 .. n
    BY <1>4
  <2> QED BY <2>3, <2>4
<1>8. a \div W[i - 1] = b \div W[i - 1]
  BY <1>3, <1>4, <1>7
<1>9. a \div W[i] < b \div W[i]
  <2>1. a \div W[i] = (a \div W[i - 1]) * s[i] + ((a \div W[i]) % s[i])
    BY QuotientsByWeights DEF QuotientsStep
  <2>2. b \div W[i] = (b \div W[i - 1]) * s[i] + ((b \div W[i]) % s[i])
    BY QuotientsByWeights DEF QuotientsStep
  <2>3. (a \div W[i]) % s[i] \in 0 .. s[i] - 1 /\ (b \div W[i]) % s[i] \in 0 .. s[i] - 1
        /\ a \div W[i - 1] \in Nat /\ s[i] \in Nat
    BY QuotientsByWeights DEF QuotientsStep
  <2>4. PICK u \in Nat : u = (a \div W[i - 1]) * s[i]
    <3>1. PICK x \in Nat, y \in Nat : x = a \div W[i - 1] /\ y = s[i]
      BY <2>3
    <3>2. x * y \in Nat
      BY SMT
    <3> QED BY <3>1, <3>2
  <2>5. PICK d \in Nat, e \in Nat : d = (a \div W[i]) % s[i] /\ e = (b \div W[i]) % s[i] /\ d < e
    BY <2>3
  <2>6. a \div W[i] = u + d /\ b \div W[i] = u + e
    BY <1>8, <2>1, <2>2, <2>4, <2>5
  <2> QED BY <2>5, <2>6
<1>10. PICK w \in Nat \ {0} : w = W[i]
  <2>1. i \in 0 .. Len(s)
    BY <1>1
  <2> QED BY <2>1, WeightsArePositive
<1>11. ASSUME b <= a PROVE FALSE
  <2>1. PICK q \in Nat, z \in Nat : q = a \div w /\ z = b \div w /\ a < w * q + w /\ w * z <= b
    BY QuotientBounds
  <2>2. q + 1 <= z
    BY <1>9, <1>10, <2>1
  <2>3. w * (q + 1) <= w * z
    BY <2>2, ProductMonotone
  <2>4. w * (q + 1) = w * q + w
    OBVIOUS
  <2>5. PICK g \in Nat, y \in Nat : g = w * q /\ y = w * z
    <3>1. w * q \in Nat /\ w * z \in Nat
      BY SMT
    <3> QED BY <3>1
  <2>6. w * (q + 1) = g + w
    BY <2>4, <2>5
  <2>7. g + w <= y
    BY <2>3, <2>5, <2>6
  <2>8. a < g + w /\ y <= b
    BY <2>1, <2>5
  <2> QED BY <1>11, <2>7, <2>8
<1> QED BY <1>11

-----------------------------------------------------------------------------
\* The coordinates of each place of a grid, as MPI orders the places.
Places(s) ==
    [r \in 0 .. Product(s) - 1 |->
        [i \in 1 .. Len(s) |-> (r \div Product(SubSeq(s, i + 1, Len(s)))) % s[i]]]

\* D tells apart the numbers below N by n digits, digit i less than s[i]; all digits
\* occur, and the first in which two numbers differ tells which is less.
Numbers(D, s, n, N) ==
    /\ D \in [0 .. N - 1 -> [1 .. n -> Nat]]
    /\ \A r \in 0 .. N - 1 : \A i \in 1 .. n : D[r][i] < s[i]
    /\ \A r, x \in 0 .. N - 1 : D[r] = D[x] => r = x
    /\ \A e \in [1 .. n -> Nat] :
          (\A i \in 1 .. n : e[i] < s[i]) => \E r \in 0 .. N - 1 : D[r] = e
    /\ \A r, x \in 0 .. N - 1 : \A i \in 1 .. n :
          (\A j \in 1 .. i - 1 : D[r][j] = D[x][j]) /\ D[r][i] < D[x][i] => r < x

LEMMA SmallRemainder ==
    ASSUME NEW a \in Nat, NEW b \in Nat \ {0}, a < b
    PROVE  a % b = a
BY SMT

\* A grid has a place for all coordinates, if its dimensions are taken as periodic.
RanksBy(c, coords) ==
    /\ CartRank(c, coords) \in 0 .. Product(c.dims) - 1
    /\ Places(c.dims)[CartRank(c, coords)] = [k \in 1 .. Len(c.dims) |-> coords[k] % c.dims[k]]

\* MPI_Cart_rank finds the place of any coordinates.
LEMMA CartRankPlaces ==
    ASSUME NEW c, c.dims \in Seq(Nat \ {0}),
           NEW coords, \A k \in 1 .. Len(c.dims) : coords[k] \in Int
    PROVE  RanksBy(c, coords)
<1>1. PICK s \in Seq(Nat \ {0}) : s = c.dims /\ \A k \in 1 .. Len(s) : coords[k] \in Int
  OBVIOUS
<1>2. PICK R : RankSoFar(R, s, coords) /\ CartRank(c, coords) = R[Len(s)]
  BY <1>1, CartRankIs
<1>3. PICK W : IsWeights(W, s) /\ TailProducts(W, s)
  BY WeightsAre
<1>4. PICK r : r = R[Len(s)]
  OBVIOUS
<1>5. r \in 0 .. Product(s) - 1 /\ \A k \in 1 .. Len(s) : (r \div W[k]) % s[k] = coords[k] % s[k]
  <2>1. DigitsFit(W, s, R, coords)
    BY <1>1, <1>2, <1>3, DigitsOfRank
  <2> QED BY <1>4, <2>1 DEF DigitsFit
<1>6. Places(s)[r] = [i \in 1 .. Len(s) |-> (r \div W[i]) % s[i]]
  BY <1>3, <1>5 DEF Places, TailProducts
<1>7. Places(s)[r] = [i \in 1 .. Len(s) |-> coords[i] % s[i]]
  BY <1>5, <1>6
<1> QED BY <1>1, <1>2, <1>4, <1>5, <1>7 DEF RanksBy

\* The places of a grid are numbered by their coordinates.
LEMMA PlacesAre ==
    ASSUME NEW s \in Seq(Nat \ {0})
    PROVE  Numbers(Places(s), s, Len(s), Product(s))
<1>1. PICK n \in Nat : n = Len(s) /\ \A i \in 1 .. n : s[i] \in Nat \ {0}
  OBVIOUS
<1>2. PICK W : IsWeights(W, s) /\ TailProducts(W, s)
  BY WeightsAre
<1>3. PICK N \in Nat : N = Product(s)
  <2>1. W[0] \in Nat /\ W[0] = Product(s)
    BY <1>1, <1>2 DEF IsWeights
  <2> QED BY <2>1
<1>4. PICK D : D = Places(s)
  OBVIOUS
<1>5. D = [r \in 0 .. N - 1 |-> [i \in 1 .. n |-> (r \div W[i]) % s[i]]]
  BY <1>1, <1>2, <1>3, <1>4 DEF Places, TailProducts
<1>6. ASSUME NEW r \in 0 .. N - 1, NEW i \in 1 .. n
      PROVE  D[r][i] = (r \div W[i]) % s[i] /\ D[r][i] \in Nat /\ D[r][i] < s[i]
  <2>1. QuotientsStep(W, s, r, i)
    BY <1>1, <1>2, QuotientsByWeights
  <2>2. PICK x \in Nat \ {0} : x = s[i]
    BY <1>1
  <2>3. (r \div W[i]) % s[i] \in 0 .. x - 1
    BY <2>1, <2>2 DEF QuotientsStep
  <2> QED BY <1>5, <2>2, <2>3
<1>7. D \in [0 .. N - 1 -> [1 .. n -> Nat]]
  <2>1. ASSUME NEW r \in 0 .. N - 1 PROVE D[r] \in [1 .. n -> Nat]
    <3>1. D[r] = [i \in 1 .. n |-> (r \div W[i]) % s[i]]
      BY <1>5
    <3>2. \A i \in 1 .. n : D[r][i] \in Nat
      BY <1>6
    <3> QED BY <3>1, <3>2
  <2> QED BY <1>5, <2>1
<1>8. \A r \in 0 .. N - 1 : \A i \in 1 .. n : D[r][i] < s[i]
  BY <1>1, <1>6
<1>9. PICK c : c.dims = s
  <2>1. [dims |-> s].dims = s
    OBVIOUS
  <2> QED BY <2>1
<1>10. ASSUME NEW e \in [1 .. n -> Nat], \A i \in 1 .. n : e[i] < s[i]
       PROVE  CartRank(c, e) \in 0 .. N - 1 /\ D[CartRank(c, e)] = e
  <2>1. /\ CartRank(c, e) \in 0 .. Product(c.dims) - 1
        /\ Places(c.dims)[CartRank(c, e)] = [k \in 1 .. Len(c.dims) |-> e[k] % c.dims[k]]
    <3>1. c.dims \in Seq(Nat \ {0}) /\ \A k \in 1 .. Len(c.dims) : e[k] \in Int
      BY <1>1, <1>9
    <3>2. RanksBy(c, e)
      BY <3>1, CartRankPlaces
    <3> QED BY <3>2 DEF RanksBy
  <2>2. \A k \in 1 .. n : e[k] % s[k] = e[k]
    <3>1. ASSUME NEW k \in 1 .. n PROVE e[k] % s[k] = e[k]
      <4>1. PICK x \in Nat \ {0}, y \in Nat : x = s[k] /\ y = e[k] /\ y < x
        BY <1>1, <1>10
      <4> QED BY <4>1, SmallRemainder
    <3> QED BY <3>1
  <2>3. [k \in 1 .. n |-> e[k] % s[k]] = e
    BY <2>2
  <2> QED BY <1>1, <1>3, <1>4, <1>9, <2>1, <2>3
<1>11. ASSUME NEW r \in 0 .. N - 1 PROVE CartRank(c, D[r]) = r
  <2>1. c.dims \in Seq(Nat \ {0}) /\ \A k \in 1 .. Len(c.dims) : D[r][k] \in Int
    BY <1>1, <1>7, <1>9
  <2>2. PICK R : RankSoFar(R, s, D[r]) /\ CartRank(c, D[r]) = R[Len(s)]
    BY <1>9, <2>1, CartRankIs
  <2>3. ASSUME NEW k \in 1 .. Len(s) PROVE D[r][k] % s[k] = (r \div W[k]) % s[k]
    <3>1. PICK x \in Nat \ {0}, y \in Nat : x = s[k] /\ y = D[r][k] /\ y < x
      BY <1>1, <1>6
    <3>2. y % x = y
      BY <3>1, SmallRemainder
    <3>3. D[r][k] = (r \div W[k]) % s[k]
      BY <1>1, <1>6
    <3> QED BY <3>1, <3>2, <3>3
  <2>4. r \in 0 .. Product(s) - 1
    BY <1>3
  <2>5. R[Len(s)] = r
    BY <1>2, <2>2, <2>3, <2>4, RankOfDigits
  <2> QED BY <2>2, <2>5
<1>12. \A r, x \in 0 .. N - 1 : D[r] = D[x] => r = x
  BY <1>11
<1>13. \A e \in [1 .. n -> Nat] : (\A i \in 1 .. n : e[i] < s[i]) => \E r \in 0 .. N - 1 : D[r] = e
  BY <1>10
<1>14. ASSUME NEW r \in 0 .. N - 1, NEW x \in 0 .. N - 1, NEW i \in 1 .. n,
              \A j \in 1 .. i - 1 : D[r][j] = D[x][j], D[r][i] < D[x][i]
       PROVE  r < x
  <2>1. \A j \in 1 .. i - 1 : (r \div W[j]) % s[j] = (x \div W[j]) % s[j]
    <3>1. ASSUME NEW j \in 1 .. i - 1 PROVE (r \div W[j]) % s[j] = (x \div W[j]) % s[j]
      <4>1. j \in 1 .. n
        OBVIOUS
      <4> QED BY <1>6, <1>14, <4>1
    <3> QED BY <3>1
  <2>2. (r \div W[i]) % s[i] < (x \div W[i]) % s[i]
    BY <1>6, <1>14
  <2>3. r \in Nat /\ x \in Nat /\ r < Product(s) /\ x < Product(s) /\ i \in 1 .. Len(s)
    BY <1>1, <1>3
  <2> QED BY <1>2, <2>1, <2>2, <2>3, FirstDigitTells
<1>15. Numbers(D, s, n, N)
  BY <1>7, <1>8, <1>12, <1>13, <1>14 DEF Numbers
<1> QED BY <1>1, <1>3, <1>4, <1>15

\* Two numbers differ in a first digit.
DifferFirst(D, r, x, i) == D[r][i] # D[x][i] /\ \A j \in 1 .. i - 1 : D[r][j] = D[x][j]

\* Two numbers of a grid differ in a first digit.
LEMMA FirstDifference ==
    ASSUME NEW D, NEW s, NEW n \in Nat, NEW N \in Nat, Numbers(D, s, n, N),
           NEW r \in 0 .. N - 1, NEW x \in 0 .. N - 1, r # x
    PROVE  \E i \in 1 .. n : DifferFirst(D, r, x, i)
<1>1. PICK T : T = {i \in 1 .. n : D[r][i] # D[x][i]}
  OBVIOUS
<1>2. D[r] \in [1 .. n -> Nat] /\ D[x] \in [1 .. n -> Nat] /\ D[r] # D[x]
  BY DEF Numbers
<1>3. T \subseteq Nat /\ T # {}
  BY <1>1, <1>2
<1>4. PICK i \in T : \A y \in T : i <= y
  BY <1>3, LeastNumber
<1>5. i \in 1 .. n /\ D[r][i] # D[x][i]
  BY <1>1
<1>6. ASSUME NEW j \in 1 .. i - 1 PROVE D[r][j] = D[x][j]
  <2>1. j \in 1 .. n /\ ~(i <= j)
    BY <1>5
  <2> QED BY <1>1, <1>4, <2>1
<1> QED BY <1>5, <1>6 DEF DifferFirst

\* f numbers those in R from 0 to M - 1, as they rise, by those of their digits that
\* t lists.
Renumbers(f, R, M, D, E, t, m) ==
    /\ f \in [R -> 0 .. M - 1]
    /\ \A y \in 0 .. M - 1 : \E r \in R : f[r] = y
    /\ \A r, x \in R : r < x <=> f[r] < f[x]
    /\ \A r \in R : \A k \in 1 .. m : E[f[r]][k] = D[r][t[k]]

\* The numbers that share the digits which t does not list.
Sharing(D, n, N, t, m, a) ==
    {r \in 0 .. N - 1 : \A i \in 1 .. n : (\A k \in 1 .. m : t[k] # i) => D[r][i] = D[a][i]}

\* Numbers that share the digits which t does not list are numbered by those it lists, in
\* the same order and without a gap.
LEMMA FewerDigits ==
    ASSUME NEW n \in Nat, NEW m \in Nat, NEW N \in Nat, NEW M \in Nat,
           NEW s \in [1 .. n -> Nat \ {0}], NEW t \in [1 .. m -> 1 .. n],
           \A j, k \in 1 .. m : j < k => t[j] < t[k],
           NEW D, Numbers(D, s, n, N),
           NEW E, NEW u, u = [k \in 1 .. m |-> s[t[k]]], Numbers(E, u, m, M),
           NEW a \in 0 .. N - 1, NEW R,
           R = Sharing(D, n, N, t, m, a)
    PROVE  \E f : Renumbers(f, R, M, D, E, t, m)
<1>1. D \in [0 .. N - 1 -> [1 .. n -> Nat]] /\ E \in [0 .. M - 1 -> [1 .. m -> Nat]]
  BY DEF Numbers
<1>0. ASSUME NEW r \in R
      PROVE  r \in 0 .. N - 1 /\ \A i \in 1 .. n : (\A k \in 1 .. m : t[k] # i) => D[r][i] = D[a][i]
  BY DEF Sharing
<1>11. \A r, x \in 0 .. N - 1 : \A i \in 1 .. n :
          (\A j \in 1 .. i - 1 : D[r][j] = D[x][j]) /\ D[r][i] < D[x][i] => r < x
  BY DEF Numbers
<1>12. \A r, x \in 0 .. M - 1 : \A i \in 1 .. m :
          (\A j \in 1 .. i - 1 : E[r][j] = E[x][j]) /\ E[r][i] < E[x][i] => r < x
  BY DEF Numbers
<1>13. \A r, x \in 0 .. M - 1 : E[r] = E[x] => r = x
  BY DEF Numbers
<1>14. \A y \in 0 .. M - 1 : \A k \in 1 .. m : E[y][k] \in Nat /\ E[y][k] < u[k]
  <2>1. \A y \in 0 .. M - 1 : \A k \in 1 .. m : E[y][k] < u[k]
    BY DEF Numbers
  <2> QED BY <1>1, <2>1
<1>2. ASSUME NEW r \in R PROVE \E y \in 0 .. M - 1 : E[y] = [k \in 1 .. m |-> D[r][t[k]]]
  <2>1. PICK e : e = [k \in 1 .. m |-> D[r][t[k]]]
    OBVIOUS
  <2>2. e \in [1 .. m -> Nat]
    BY <1>0, <1>1, <2>1
  <2>3. \A k \in 1 .. m : e[k] < u[k]
    BY <1>0, <2>1 DEF Numbers
  <2> QED BY <2>1, <2>2, <2>3 DEF Numbers
<1>3. PICK f : f = [r \in R |-> CHOOSE y \in 0 .. M - 1 : E[y] = [k \in 1 .. m |-> D[r][t[k]]]]
  OBVIOUS
<1>4. ASSUME NEW r \in R
      PROVE  /\ f[r] \in 0 .. M - 1 /\ E[f[r]] = [k \in 1 .. m |-> D[r][t[k]]]
             /\ \A k \in 1 .. m : E[f[r]][k] = D[r][t[k]]
  <2>1. f[r] = CHOOSE y \in 0 .. M - 1 : E[y] = [k \in 1 .. m |-> D[r][t[k]]]
    BY <1>3
  <2>2. f[r] \in 0 .. M - 1 /\ E[f[r]] = [k \in 1 .. m |-> D[r][t[k]]]
    BY <1>2, <2>1
  <2> QED BY <2>2
<1> DEFINE Tells(i, r, x) == /\ D[r][i] # D[x][i]
                             /\ D[r][i] < D[x][i] => r < x /\ f[r] < f[x]
                             /\ D[x][i] < D[r][i] => x < r /\ f[x] < f[r]
<1>5. ASSUME NEW r \in R, NEW x \in R, r # x
      PROVE  \E i \in 1 .. n : Tells(i, r, x)
  <2>1. r \in 0 .. N - 1 /\ x \in 0 .. N - 1
    BY <1>0
  <2>2. PICK i \in 1 .. n : D[r][i] # D[x][i] /\ \A j \in 1 .. i - 1 : D[r][j] = D[x][j]
    <3>1. \E i \in 1 .. n : DifferFirst(D, r, x, i)
      BY <1>5, <2>1, FirstDifference
    <3> QED BY <3>1 DEF DifferFirst
  <2>3. PICK k \in 1 .. m : t[k] = i
    BY <1>0, <2>2
  <2>4. E[f[r]][k] = D[r][i] /\ E[f[x]][k] = D[x][i]
    BY <1>4, <2>3
  <2>5. ASSUME NEW j \in 1 .. k - 1 PROVE E[f[r]][j] = E[f[x]][j]
    <3>1. j \in 1 .. m /\ j < k
      OBVIOUS
    <3>2. t[j] \in 1 .. i - 1
      BY <2>3, <3>1
    <3>3. D[r][t[j]] = D[x][t[j]]
      BY <2>2, <3>2
    <3> QED BY <1>4, <3>1, <3>3
  <2>6. f[r] \in 0 .. M - 1 /\ f[x] \in 0 .. M - 1
    BY <1>4
  <2>7. D[r][i] < D[x][i] => r < x /\ f[r] < f[x]
    <3>1. D[r][i] < D[x][i] => r < x
      BY <1>11, <2>1, <2>2
    <3>2. E[f[r]][k] < E[f[x]][k] => f[r] < f[x]
      BY <1>12, <2>5, <2>6
    <3> QED BY <2>4, <3>1, <3>2
  <2>8. D[x][i] < D[r][i] => x < r /\ f[x] < f[r]
    <3>1. D[x][i] < D[r][i] => x < r
      BY <1>11, <2>1, <2>2
    <3>2. E[f[x]][k] < E[f[r]][k] => f[x] < f[r]
      BY <1>12, <2>5, <2>6
    <3> QED BY <2>4, <3>1, <3>2
  <2> QED BY <2>2, <2>7, <2>8
<1>6. ASSUME NEW r \in R, NEW x \in R PROVE r < x <=> f[r] < f[x]
  <2>1. r \in Int /\ x \in Int /\ f[r] \in Int /\ f[x] \in Int
    <3>1. r \in 0 .. N - 1 /\ x \in 0 .. N - 1
      BY <1>0
    <3>2. f[r] \in 0 .. M - 1 /\ f[x] \in 0 .. M - 1
      BY <1>4
    <3> QED BY <3>1, <3>2
  <2>2. CASE r = x
    BY <2>1, <2>2
  <2>3. CASE r # x
    <3>1. PICK i \in 1 .. n : Tells(i, r, x)
      <4> HIDE DEF Tells
      <4> QED BY <1>5, <2>3
    <3>2. D[r][i] \in Nat /\ D[x][i] \in Nat
      BY <1>0, <1>1
    <3>3. CASE D[r][i] < D[x][i]
      <4>1. r < x /\ f[r] < f[x]
        BY <3>1, <3>3
      <4> QED BY <4>1
    <3>4. CASE D[x][i] < D[r][i]
      <4>1. x < r /\ f[x] < f[r]
        BY <3>1, <3>4
      <4>2. ~ (r < x) /\ ~ (f[r] < f[x])
        BY <2>1, <4>1
      <4> QED BY <4>2
    <3>5. D[r][i] # D[x][i]
      BY <3>1
    <3>6. D[r][i] < D[x][i] \/ D[x][i] < D[r][i]
      BY <3>2, <3>5
    <3> QED BY <3>3, <3>4, <3>6
  <2> QED BY <2>2, <2>3
<1>7. ASSUME NEW y \in 0 .. M - 1 PROVE \E r \in R : f[r] = y
  <2>1. PICK e : e = [i \in 1 .. n |-> IF \E k \in 1 .. m : t[k] = i
                                       THEN E[y][CHOOSE k \in 1 .. m : t[k] = i] ELSE D[a][i]]
    OBVIOUS
  <2>2. ASSUME NEW k \in 1 .. m PROVE e[t[k]] = E[y][k]
    <3>1. PICK l : l = CHOOSE j \in 1 .. m : t[j] = t[k]
      OBVIOUS
    <3>2. l \in 1 .. m /\ t[l] = t[k]
      BY <3>1
    <3>3. l = k
      <4>1. ~(l < k) /\ ~(k < l)
        <5>1. t[l] \in Nat /\ t[k] \in Nat
          BY <3>2
        <5> QED BY <3>2, <5>1
      <4> QED BY <3>2, <4>1
    <3> QED BY <2>1, <3>1, <3>3
  <2>3. ASSUME NEW i \in 1 .. n PROVE e[i] \in Nat /\ e[i] < s[i]
    <3>1. CASE \E k \in 1 .. m : t[k] = i
      <4>1. PICK k \in 1 .. m : t[k] = i
        BY <3>1
      <4>2. E[y][k] \in Nat /\ E[y][k] < u[k] /\ u[k] = s[i]
        BY <1>14, <4>1
      <4> QED BY <2>2, <4>1, <4>2
    <3>2. CASE ~\E k \in 1 .. m : t[k] = i
      <4>1. e[i] = D[a][i]
        BY <2>1, <3>2
      <4> QED BY <1>1, <4>1 DEF Numbers
    <3> QED BY <3>1, <3>2
  <2>4. e \in [1 .. n -> Nat]
    BY <2>1, <2>3
  <2>5. PICK r \in 0 .. N - 1 : D[r] = e
    BY <2>3, <2>4 DEF Numbers
  <2>6. r \in R
    <3>1. ASSUME NEW i \in 1 .. n, \A k \in 1 .. m : t[k] # i PROVE D[r][i] = D[a][i]
      BY <2>1, <2>5, <3>1
    <3> QED BY <3>1 DEF Sharing
  <2>7. E[f[r]] = [k \in 1 .. m |-> D[r][t[k]]] /\ f[r] \in 0 .. M - 1
    BY <1>4, <2>6
  <2>8. E[y] = [k \in 1 .. m |-> D[r][t[k]]]
    BY <1>1, <2>2, <2>5
  <2>9. f[r] = y
    <3>1. E[f[r]] = E[y]
      BY <2>7, <2>8
    <3> QED BY <1>13, <2>7, <3>1
  <2> QED BY <2>6, <2>9
<1>8. f \in [R -> 0 .. M - 1]
  BY <1>3, <1>4
<1>9. \A r \in R : \A k \in 1 .. m : E[f[r]][k] = D[r][t[k]]
  BY <1>4
<1>10. Renumbers(f, R, M, D, E, t, m)
  BY <1>6, <1>7, <1>8, <1>9 DEF Renumbers
<1> QED BY <1>10

-----------------------------------------------------------------------------
(* Grids.                                                                  *)

\* As many members as the extents say, if there are any, and a period for each extent.
IsGrid(c) ==
    /\ c.dims \in Seq(Nat \ {0}) /\ c.periods \in [DOMAIN c.dims -> BOOLEAN]
    /\ c.dims # <<>> => Len(c.members) = Product(c.dims)

\* The members have the places of the grid, and the places their coordinates.
HavePlaces(c) ==
    /\ \A q \in ToSet(c.members) :
          /\ RankIn(c, q) \in 0 .. Product(c.dims) - 1 /\ c.members[RankIn(c, q) + 1] = q
          /\ Coordinates(c, q) = Places(c.dims)[RankIn(c, q)]
    /\ \A x \in 0 .. Product(c.dims) - 1 :
          c.members[x + 1] \in ToSet(c.members) /\ RankIn(c, c.members[x + 1]) = x

\* The members of a grid are at the places that their ranks say.
LEMMA MembersHavePlaces ==
    ASSUME NEW P, NEW c, IsComm(c, P), IsGrid(c), c.dims # <<>>
    PROVE  HavePlaces(c)
<1>1. PICK g \in Seq(P) : g = c.members /\ Distinct(g)
  BY DEF IsComm
<1>2. PICK N \in Nat : N = Len(g) /\ N = Product(c.dims)
  BY <1>1 DEF IsGrid
<1>3. ASSUME NEW q \in ToSet(g) PROVE RankIn(c, q) = GroupRank(g, q)
  <2>1. GroupRank(g, q) = CHOOSE r \in 0 .. Len(g) - 1 : g[r + 1] = q
    BY DEF GroupRank
  <2>2. RankIn(c, q) = CHOOSE r \in 0 .. Len(g) - 1 : g[r + 1] = q
    BY <1>1 DEF RankIn
  <2> QED BY <2>1, <2>2
<1>4. /\ \A i \in 1 .. Len(g) : g[i] \in ToSet(g) /\ GroupRank(g, g[i]) = i - 1
      /\ \A p \in ToSet(g) : GroupRank(g, p) \in 0 .. Len(g) - 1 /\ g[GroupRank(g, p) + 1] = p
  BY <1>1, GroupRanks
<1>5. ASSUME NEW q \in ToSet(g)
      PROVE  /\ RankIn(c, q) \in 0 .. N - 1 /\ g[RankIn(c, q) + 1] = q
             /\ Coordinates(c, q) = Places(c.dims)[RankIn(c, q)]
  <2>1. RankIn(c, q) \in 0 .. N - 1 /\ g[RankIn(c, q) + 1] = q
    BY <1>2, <1>3, <1>4
  <2>2. DOMAIN c.dims = 1 .. Len(c.dims)
    BY DEF IsGrid
  <2>3. PICK r \in 0 .. Product(c.dims) - 1 : r = RankIn(c, q)
    BY <1>2, <2>1
  <2>4. Coordinates(c, q) = [i \in 1 .. Len(c.dims) |->
            (r \div Product(SubSeq(c.dims, i + 1, Len(c.dims)))) % c.dims[i]]
    BY Zenon, <2>2, <2>3 DEF Coordinates
  <2>5. Places(c.dims)[r] = [i \in 1 .. Len(c.dims) |->
            (r \div Product(SubSeq(c.dims, i + 1, Len(c.dims)))) % c.dims[i]]
    BY Zenon DEF Places
  <2> QED BY <2>1, <2>3, <2>4, <2>5
<1>6. ASSUME NEW x \in 0 .. N - 1 PROVE g[x + 1] \in ToSet(g) /\ RankIn(c, g[x + 1]) = x
  <2>1. x + 1 \in 1 .. Len(g) /\ (x + 1) - 1 = x
    BY <1>2
  <2>2. g[x + 1] \in ToSet(g) /\ GroupRank(g, g[x + 1]) = (x + 1) - 1
    BY <1>4, <2>1
  <2> QED BY <1>3, <2>1, <2>2
<1> QED BY <1>1, <1>2, <1>5, <1>6 DEF HavePlaces

\* Coordinates lead to one place.
LEMMA CoordinatesLeadTo ==
    ASSUME NEW P, NEW c, IsComm(c, P), IsGrid(c), c.dims # <<>>,
           NEW p \in ToSet(c.members), NEW coords,
           \A k \in 1 .. Len(c.dims) : /\ coords[k] \in Int
                                       /\ coords[k] % c.dims[k] = Coordinates(c, p)[k]
    PROVE  CartRank(c, coords) = RankIn(c, p)
<1>1. HavePlaces(c) /\ c.dims \in Seq(Nat \ {0})
  BY MembersHavePlaces DEF IsGrid
<1>2. PICK x : x = CartRank(c, coords)
  OBVIOUS
<1>3. x \in 0 .. Product(c.dims) - 1 /\ Places(c.dims)[x] = [k \in 1 .. Len(c.dims) |-> coords[k] % c.dims[k]]
  <2>1. RanksBy(c, coords)
    BY <1>1, CartRankPlaces
  <2> QED BY <1>2, <2>1 DEF RanksBy
<1>4. PICK n \in Nat, N \in Nat : n = Len(c.dims) /\ N = Product(c.dims)
  BY <1>1, ProductIsNumber
<1>5. PICK D : D = Places(c.dims) /\ Numbers(D, c.dims, n, N)
  BY <1>1, <1>4, PlacesAre
<1>6. PICK r \in 0 .. N - 1 : r = RankIn(c, p) /\ D[r] = Coordinates(c, p)
  BY <1>1, <1>4, <1>5 DEF HavePlaces
<1>7. D[r] \in [1 .. n -> Nat]
  BY <1>5 DEF Numbers
<1>8. D[x] = D[r]
  BY <1>3, <1>4, <1>5, <1>6, <1>7
<1>9. x = r
  BY <1>3, <1>4, <1>5, <1>8 DEF Numbers
<1> QED BY <1>2, <1>6, <1>9

\* What coordinates are.
LEMMA CoordinatesAre ==
    ASSUME NEW P, NEW c, IsComm(c, P), IsGrid(c), c.dims # <<>>, NEW p \in ToSet(c.members)
    PROVE  /\ Coordinates(c, p) \in [1 .. Len(c.dims) -> Nat]
           /\ \A k \in 1 .. Len(c.dims) : /\ c.dims[k] \in Nat \ {0} /\ Coordinates(c, p)[k] < c.dims[k]
                                          /\ Coordinates(c, p)[k] % c.dims[k] = Coordinates(c, p)[k]
<1>1. HavePlaces(c) /\ c.dims \in Seq(Nat \ {0})
  BY MembersHavePlaces DEF IsGrid
<1>2. PICK n \in Nat, N \in Nat : n = Len(c.dims) /\ N = Product(c.dims)
  BY <1>1, ProductIsNumber
<1>3. PICK D : D = Places(c.dims) /\ Numbers(D, c.dims, n, N)
  BY <1>1, <1>2, PlacesAre
<1>4. PICK r \in 0 .. N - 1 : D[r] = Coordinates(c, p)
  BY <1>1, <1>2, <1>3 DEF HavePlaces
<1>5. D[r] \in [1 .. n -> Nat] /\ \A k \in 1 .. n : D[r][k] < c.dims[k]
  BY <1>3 DEF Numbers
<1>6. ASSUME NEW k \in 1 .. n PROVE c.dims[k] \in Nat \ {0} /\ D[r][k] % c.dims[k] = D[r][k]
  <2>0. c.dims[k] \in Nat \ {0}
    BY <1>1, <1>2
  <2>1. PICK x \in Nat \ {0}, y \in Nat : x = c.dims[k] /\ y = D[r][k] /\ y < x
    BY <1>5, <2>0
  <2> QED BY <2>1, SmallRemainder
<1> QED BY <1>2, <1>4, <1>5, <1>6

\* One that is shifted has a place, and is shifted back to where it was.
Returns(c, p, d, displacement, x) ==
    /\ x \in 0 .. Product(c.dims) - 1
    /\ Displaced(c, c.members[x + 1], d, -displacement) = RankIn(c, p)

\* Displaced(c, p, d, displacement) is undone by the opposite displacement.
LEMMA ShiftedBack ==
    ASSUME NEW P, NEW c, IsComm(c, P), IsGrid(c), c.dims # <<>>, NEW p \in ToSet(c.members),
           NEW d \in DOMAIN c.dims, NEW displacement \in Int,
           NEW x, x = Displaced(c, p, d, displacement),
           x # NoProcess \/ c.periods[d]
    PROVE  Returns(c, p, d, displacement, x)
<1>1. HavePlaces(c) /\ c.dims \in Seq(Nat \ {0}) /\ c.periods \in [DOMAIN c.dims -> BOOLEAN]
  BY MembersHavePlaces DEF IsGrid
<1>2. PICK n \in Nat : n = Len(c.dims) /\ DOMAIN c.dims = 1 .. n
  BY <1>1
<1>3. PICK b \in Nat \ {0} : b = c.dims[d]
  BY <1>1
<1>4. PICK at \in [1 .. n -> Nat] :
          /\ at = Coordinates(c, p) /\ at[d] < b
          /\ \A k \in 1 .. n : c.dims[k] \in Nat \ {0} /\ at[k] % c.dims[k] = at[k]
  BY <1>2, <1>3, CoordinatesAre
<1>5. PICK moved \in Int : moved = at[d] + displacement
  BY <1>2, <1>4
<1>6. PICK to : to = [at EXCEPT ![d] = moved]
  OBVIOUS
<1>7. to \in [1 .. n -> Int] /\ to[d] = moved /\ \A k \in 1 .. n : k # d => to[k] = at[k]
  BY <1>2, <1>4, <1>6
<1>8. c.periods[d] \/ moved \in 0 .. b - 1
  <2>1. Displaced(c, p, d, displacement) = IF c.periods[d] \/ moved \in 0 .. c.dims[d] - 1
                                           THEN CartRank(c, to) ELSE NoProcess
    BY <1>4, <1>5, <1>6 DEF Displaced
  <2> QED BY <1>3, <2>1
<1>9. x = CartRank(c, to)
  <2>1. Displaced(c, p, d, displacement) = IF c.periods[d] \/ moved \in 0 .. c.dims[d] - 1
                                           THEN CartRank(c, to) ELSE NoProcess
    BY <1>4, <1>5, <1>6 DEF Displaced
  <2> QED BY <1>3, <1>8, <2>1
<1>10. x \in 0 .. Product(c.dims) - 1
       /\ Places(c.dims)[x] = [k \in 1 .. Len(c.dims) |-> to[k] % c.dims[k]]
  <2>1. \A k \in 1 .. Len(c.dims) : to[k] \in Int
    BY <1>2, <1>7
  <2>2. RanksBy(c, to)
    BY <1>1, <2>1, CartRankPlaces
  <2> QED BY <1>9, <2>2 DEF RanksBy
<1>11. PICK q \in ToSet(c.members) : q = c.members[x + 1] /\ RankIn(c, q) = x
  BY <1>1, <1>10 DEF HavePlaces
<1>12. Coordinates(c, q) = [k \in 1 .. n |-> to[k] % c.dims[k]]
  BY <1>1, <1>2, <1>10, <1>11 DEF HavePlaces
<1>13. PICK near \in [1 .. n -> Nat] : near = Coordinates(c, q)
  BY <1>2, CoordinatesAre
<1>14. near[d] = moved % b /\ \A k \in 1 .. n : k # d => near[k] = at[k]
  <2>1. d \in 1 .. n
    BY <1>2
  <2>2. near[d] = to[d] % b
    BY <1>3, <1>12, <1>13, <2>1
  <2>3. \A k \in 1 .. n : k # d => near[k] = at[k]
    BY <1>4, <1>7, <1>12, <1>13
  <2> QED BY <1>7, <2>2, <2>3
<1>15. PICK back : back = [near EXCEPT ![d] = near[d] + (-displacement)]
  OBVIOUS
<1>16. near[d] + (-displacement) \in Int /\ near[d] + (-displacement) = (moved % b) - displacement
  <2>1. near[d] \in Nat
    BY <1>2, <1>13
  <2> QED BY <1>14, <2>1
<1>17. ASSUME NEW k \in 1 .. n PROVE back[k] \in Int /\ back[k] % c.dims[k] = at[k]
  <2>1. CASE k = d
    <3>1. back[k] = (moved % b) - displacement
      BY <1>2, <1>13, <1>15, <1>16, <2>1
    <3>2. at[d] \in 0 .. b - 1
      BY <1>2, <1>4
    <3>3. (((at[d] + displacement) % b) - displacement) % b = at[d]
      BY <3>2, MovedBack
    <3> QED BY <1>3, <1>5, <1>14, <1>16, <2>1, <3>1, <3>3
  <2>2. CASE k # d
    BY <1>4, <1>13, <1>14, <1>15, <2>2
  <2> QED BY <2>1, <2>2
<1>18. CartRank(c, back) = RankIn(c, p)
  BY <1>2, <1>4, <1>17, CoordinatesLeadTo
<1>19. c.periods[d] \/ near[d] + (-displacement) \in 0 .. c.dims[d] - 1
  <2>1. CASE c.periods[d]
    BY <2>1
  <2>2. CASE moved \in 0 .. b - 1
    <3>1. moved % b = moved
      BY <2>2, SmallRemainder
    <3>2. at[d] \in 0 .. b - 1
      BY <1>2, <1>4
    <3> QED BY <1>3, <1>5, <1>16, <3>1, <3>2
  <2> QED BY <1>8, <2>1, <2>2
<1>20. Displaced(c, q, d, -displacement) = CartRank(c, back)
  BY <1>13, <1>15, <1>19 DEF Displaced
<1> QED BY <1>10, <1>11, <1>18, <1>20 DEF Returns

-----------------------------------------------------------------------------
\* What grids are, in a state: each has its extents, periods and members, and they have
\* the same number of dimensions.
GridsFit ==
    /\ MembersAgree
    /\ \A p \in Processes : IsGrid(comm[p])
    /\ \A p, q \in Holders : DOMAIN comm[p].dims = DOMAIN comm[q].dims

\* The last to the right is the first.
LEMMA LeftOfRight ==
    ASSUME NEW n \in Nat \ {0}, NEW r \in 0 .. n - 1
    PROVE  /\ Left(n, Right(n, r)) = r
           /\ PrevAsserted(r) => NextAsserted(n, Prev1(r))
<1>1. CASE r = n - 1
  <2>1. (r + 1) % n = 0
    BY <1>1
  <2> QED BY <1>1, <2>1 DEF Left, Right, PrevAsserted, NextAsserted, Prev1
<1>2. CASE r # n - 1
  <2>1. r + 1 \in Nat /\ r + 1 < n
    BY <1>2
  <2>2. (r + 1) % n = r + 1
    BY <2>1, SmallRemainder
  <2> QED BY <2>1, <2>2 DEF Left, Right, PrevAsserted, NextAsserted, Prev1
<1> QED BY <1>1, <1>2

\* The ends of a shift.
LEMMA ShiftsMeet ==
    ASSUME NEW P, NEW c, IsComm(c, P), IsGrid(c), NEW p \in ToSet(c.members),
           NEW d \in DOMAIN c.dims, NEW displacement \in Int
    PROVE  LET end == Shift(c, p, d, displacement)
               At(r) == c.members[r + 1]
           IN  /\ end.dest # NoProcess => Shift(c, At(end.dest), d, displacement).source = RankIn(c, p)
               /\ end.source # NoProcess => Shift(c, At(end.source), d, displacement).dest = RankIn(c, p)
<1>0. c.dims # <<>>
  OBVIOUS
<1>1. PICK x, y : x = Displaced(c, p, d, displacement) /\ y = Displaced(c, p, d, -displacement)
  OBVIOUS
<1>2. ASSUME x # NoProcess PROVE Displaced(c, c.members[x + 1], d, -displacement) = RankIn(c, p)
  <2>1. Returns(c, p, d, displacement, x)
    BY <1>0, <1>1, <1>2, ShiftedBack
  <2> QED BY <2>1 DEF Returns
<1>3. ASSUME y # NoProcess PROVE Displaced(c, c.members[y + 1], d, displacement) = RankIn(c, p)
  <2>1. PICK k \in Int : k = -displacement /\ -k = displacement
    OBVIOUS
  <2>2. y = Displaced(c, p, d, k)
    BY <1>1, <2>1
  <2>3. Returns(c, p, d, k, y)
    BY <1>0, <1>3, <2>2, ShiftedBack
  <2> QED BY <2>1, <2>3 DEF Returns
<1>4. Shift(c, p, d, displacement).dest = x /\ Shift(c, p, d, displacement).source = y
  BY <1>1 DEF Shift
<1>5. \A q : /\ Shift(c, q, d, displacement).source = Displaced(c, q, d, -displacement)
             /\ Shift(c, q, d, displacement).dest = Displaced(c, q, d, displacement)
  BY DEF Shift
<1> QED BY <1>2, <1>3, <1>4, <1>5

\* Values of the members of a ring, each its own, go around and come back.
RingTurns(c, own, p, displacement) ==
    LET rotated == Rotate(c, own, displacement)
    IN  /\ Unrotate(c, rotated, displacement) = own
        /\ rotated[c.members[Displaced(c, p, 1, displacement) + 1]] = p

\* ring::rotate and ring::unrotate, by any displacement.
LEMMA RingsTurn ==
    ASSUME NEW P, NEW c, IsComm(c, P), IsGrid(c), NEW p \in ToSet(c.members),
           c.periods = <<TRUE>>, NEW displacement \in Int,
           NEW own, own = [q \in ToSet(c.members) |-> q]
    PROVE  RingTurns(c, own, p, displacement)
<1>0. c.dims # <<>> /\ 1 \in DOMAIN c.dims /\ c.periods[1] /\ HavePlaces(c)
  <2>1. DOMAIN c.periods = DOMAIN c.dims
    BY DEF IsGrid
  <2>2. 1 \in DOMAIN c.dims /\ c.periods[1]
    BY <2>1
  <2>3. c.dims # <<>>
    BY <2>2
  <2> QED BY <2>2, <2>3, MembersHavePlaces
<1>1. PICK M : M = ToSet(c.members)
  OBVIOUS
<1> DEFINE At(q, k) == c.members[Displaced(c, q, 1, k) + 1]
<1>2. ASSUME NEW q \in M, NEW k \in Int
      PROVE  /\ Displaced(c, q, 1, k) # NoProcess /\ At(q, k) \in M
             /\ Displaced(c, At(q, k), 1, -k) = RankIn(c, q)
  <2>1. PICK x : x = Displaced(c, q, 1, k)
    OBVIOUS
  <2>2. Returns(c, q, 1, k, x)
    BY <1>0, <1>1, <2>1, ShiftedBack
  <2>3. x \in 0 .. Product(c.dims) - 1 /\ Displaced(c, c.members[x + 1], 1, -k) = RankIn(c, q)
    BY <2>2 DEF Returns
  <2>4. c.members[x + 1] \in M
    BY <1>0, <1>1, <2>3 DEF HavePlaces
  <2>5. x # NoProcess
    BY <2>3 DEF NoProcess
  <2> QED BY <2>1, <2>3, <2>4, <2>5
<1>3. ASSUME NEW q \in M PROVE c.members[RankIn(c, q) + 1] = q
  BY <1>0, <1>1 DEF HavePlaces
<1>4. PICK k \in Int : k = -displacement /\ -k = displacement
  OBVIOUS
<1>5. PICK rotated : rotated = Rotate(c, own, displacement)
  OBVIOUS
<1>6. rotated = [q \in M |-> At(q, k)]
  <2>1. DOMAIN own = M /\ \A q \in M : own[q] = q
    BY <1>1
  <2>2. PICK route : route = [q \in DOMAIN own |-> Exchanged(c, q, -displacement)]
    OBVIOUS
  <2>3. rotated = Carried(c, own, route)
    BY <1>5, <2>2 DEF Rotate
  <2>4. \A q \in M : route[q].source = Displaced(c, q, 1, k)
    BY <1>4, <2>1, <2>2 DEF Exchanged, Shift
  <2>5. rotated = [q \in M |-> LET from == route[q].source
                               IN  IF from = NoProcess THEN own[q] ELSE own[c.members[from + 1]]]
    BY <2>1, <2>3 DEF Carried
  <2>6. ASSUME NEW q \in M PROVE rotated[q] = At(q, k)
    <3>1. rotated[q] = own[At(q, k)]
      BY <1>2, <2>4, <2>5
    <3>2. At(q, k) \in M
      BY <1>2
    <3> QED BY <2>1, <3>1, <3>2
  <2> QED BY <2>5, <2>6
<1>7. Unrotate(c, rotated, displacement) = own
  <2>1. PICK route : route = [q \in DOMAIN rotated |-> Exchanged(c, q, displacement)]
    OBVIOUS
  <2>2. PICK back : back = Unrotate(c, rotated, displacement)
    OBVIOUS
  <2>3. back = Carried(c, rotated, route) /\ DOMAIN rotated = M
    BY <1>6, <2>1, <2>2 DEF Unrotate
  <2>4. \A q \in M : route[q].source = Displaced(c, q, 1, displacement)
    BY <2>1, <2>3 DEF Exchanged, Shift
  <2>5. back = [q \in M |-> LET from == route[q].source
                            IN  IF from = NoProcess THEN rotated[q] ELSE rotated[c.members[from + 1]]]
    BY <2>3 DEF Carried
  <2>6. ASSUME NEW q \in M PROVE back[q] = q
    <3>1. PICK z : z = At(q, displacement)
      OBVIOUS
    <3>2. z \in M /\ Displaced(c, z, 1, k) = RankIn(c, q) /\ Displaced(c, q, 1, displacement) # NoProcess
      BY <1>2, <1>4, <3>1
    <3>3. back[q] = rotated[z]
      BY <2>4, <2>5, <3>1, <3>2
    <3>4. rotated[z] = c.members[RankIn(c, q) + 1]
      BY <1>6, <3>2
    <3> QED BY <1>3, <3>3, <3>4
  <2> QED BY <1>1, <2>2, <2>5, <2>6
<1>8. rotated[At(p, displacement)] = p
  <2>1. PICK z : z = At(p, displacement)
    OBVIOUS
  <2>2. z \in M /\ Displaced(c, z, 1, k) = RankIn(c, p)
    BY <1>1, <1>2, <1>4, <2>1
  <2>3. rotated[z] = c.members[RankIn(c, p) + 1]
    BY <1>6, <2>2
  <2> QED BY <1>1, <1>3, <2>1, <2>3
<1> QED BY <1>5, <1>7, <1>8 DEF RingTurns

\* Neighbours meet wherever the grids are as the invariant says.
LEMMA NeighboursMeetOnGrids ==
    ASSUME GridsFit
    PROVE  NeighboursMeet
<1> SUFFICES ASSUME NEW p \in Processes, Holds(p)
    PROVE  /\ Left(Size(p), Right(Size(p), Rank(p))) = Rank(p)
           /\ PrevAsserted(Rank(p)) => NextAsserted(Size(p), Prev1(Rank(p)))
           /\ \A d \in Dimensions(p), displacement \in Offsets :
                 LET end == Shift(comm[p], p, d, displacement)
                     At(r) == comm[p].members[r + 1]
                 IN  /\ end.dest # NoProcess =>
                           Shift(comm[p], At(end.dest), d, displacement).source = Rank(p)
                     /\ end.source # NoProcess =>
                           Shift(comm[p], At(end.source), d, displacement).dest = Rank(p)
           /\ \A displacement \in Offsets : comm[p].periods = <<TRUE>> =>
                 RingTurns(comm[p], [q \in Members(p) |-> q], p, displacement)
  BY Zenon DEF NeighboursMeet, RingTurns
<1>1. MembersAgree /\ IsGrid(comm[p]) /\ IsComm(comm[p], Processes)
  BY DEF GridsFit, MembersAgree, Sound
<1>2. p \in Members(p) /\ Members(p) = ToSet(comm[p].members) /\ Size(p) \in Nat \ {0}
  BY <1>1, HolderIsMember
<1>3. Rank(p) \in 0 .. Size(p) - 1 /\ RankIn(comm[p], p) = Rank(p)
  BY <1>1, <1>2, MembersHold
<1>4. /\ Left(Size(p), Right(Size(p), Rank(p))) = Rank(p)
      /\ PrevAsserted(Rank(p)) => NextAsserted(Size(p), Prev1(Rank(p)))
  <2>1. PICK n \in Nat \ {0} : n = Size(p)
    BY <1>2
  <2>2. PICK r \in 0 .. n - 1 : r = Rank(p)
    BY <1>3, <2>1
  <2> QED BY <2>1, <2>2, LeftOfRight
<1>5. Offsets \subseteq Int
  BY ArgumentAssumption
<1>6. ASSUME NEW d \in Dimensions(p), NEW displacement \in Offsets
      PROVE  LET end == Shift(comm[p], p, d, displacement)
                 At(r) == comm[p].members[r + 1]
             IN  /\ end.dest # NoProcess =>
                       Shift(comm[p], At(end.dest), d, displacement).source = Rank(p)
                 /\ end.source # NoProcess =>
                       Shift(comm[p], At(end.source), d, displacement).dest = Rank(p)
  <2>1. d \in DOMAIN comm[p].dims /\ displacement \in Int
    BY <1>5 DEF Dimensions
  <2> QED BY <1>1, <1>2, <1>3, <2>1, ShiftsMeet
<1>7. ASSUME NEW displacement \in Offsets, comm[p].periods = <<TRUE>>
      PROVE  RingTurns(comm[p], [q \in Members(p) |-> q], p, displacement)
  <2>1. displacement \in Int
    BY <1>5
  <2>2. PICK own : own = [q \in Members(p) |-> q] /\ own = [q \in ToSet(comm[p].members) |-> q]
    BY <1>2
  <2>3. RingTurns(comm[p], own, p, displacement)
    BY <1>1, <1>2, <1>7, <2>1, <2>2, RingsTurn
  <2> QED BY <2>2, <2>3
<1> QED BY <1>4, <1>6, <1>7

-----------------------------------------------------------------------------
\* Dimensions in rising order.
LEMMA SortedIs ==
    ASSUME NEW n \in Nat, NEW K \in SUBSET (1 .. n)
    PROVE  \E m \in Nat : /\ Sorted(K) \in [1 .. m -> K] /\ ToSet(Sorted(K)) = K
                          /\ DOMAIN Sorted(K) = 1 .. m /\ (K # {} => m # 0)
                          /\ \A i, j \in 1 .. m : i < j => Sorted(K)[i] < Sorted(K)[j]
<1>1. IsFiniteSet(K)
  <2>1. IsFiniteSet(1 .. n)
    BY FS_Interval
  <2> QED BY <2>1, FS_Subset
<1>2. PICK below : below = [k \in K |-> {j \in K : j < k}]
  OBVIOUS
<1>3. \A j, k \in K : j \in below[k] <=> j < k
  BY <1>2
<1>4. below \in [K -> SUBSET K]
  BY <1>2
<1>5. PICK t : t = Sorted(K)
  OBVIOUS
<1>6. Arranges(t, K, below)
  <2>1. \A k \in K : k \in Int
    OBVIOUS
  <2>2. \A q \in K : q \notin below[q]
    BY <1>3, <2>1
  <2>3. \A p, q \in K : p \in below[q] => below[p] \subseteq below[q]
    <3>1. ASSUME NEW p \in K, NEW q \in K, p \in below[q], NEW j \in below[p] PROVE j \in below[q]
      <4>1. j \in K
        BY <1>4
      <4>2. j < p /\ p < q
        BY <1>3, <3>1, <4>1
      <4>3. j < q
        BY <2>1, <4>1, <4>2
      <4> QED BY <1>3, <4>1, <4>3
    <3> QED BY <3>1
  <2>4. \A p, q \in K : p = q \/ p \in below[q] \/ q \in below[p]
    BY <1>3, <2>1
  <2>5. Arranges(InOrder(K, below), K, below)
    BY <1>1, <1>4, <2>2, <2>3, <2>4, InOrderArranges
  <2> QED BY <1>2, <1>5, <2>5 DEF Sorted
<1>7. PICK m \in Nat : m = Cardinality(K)
  BY <1>1, FS_CardinalityType
<1>8. t \in [1 .. m -> K] /\ \A i, j \in 1 .. m : t[i] \in below[t[j]] <=> i < j
  BY <1>6, <1>7 DEF Arranges
<1>9. \A i, j \in 1 .. m : i < j => t[i] < t[j]
  BY <1>3, <1>8
<1>10. ToSet(t) = K
  BY <1>1, <1>6, ArrangedSeq
<1>11. K # {} => m # 0
  <2>1. DOMAIN t = 1 .. m
    BY <1>8
  <2> QED BY <1>10, <2>1 DEF ToSet
<1> QED BY <1>5, <1>7, <1>8, <1>9, <1>10, <1>11

NumberedBy(h, S, g, M) == Len(h) = M /\ \A q \in S : h[g[q] + 1] = q

\* Members that are numbered as their ranks rise are in that order.
LEMMA OrderedByRanks ==
    ASSUME MembersAgree, NEW p \in Processes, NEW S \in SUBSET Members(p), NEW M \in Nat,
           NEW g \in [S -> 0 .. M - 1], \A y \in 0 .. M - 1 : \E q \in S : g[q] = y,
           \A q, x \in S : Rank(q) < Rank(x) <=> g[q] < g[x]
    PROVE  NumberedBy(Ordered(S, Ranks), S, g, M)
<1>1. comm[p].members \in Seq(Processes) /\ Distinct(comm[p].members)
  BY DEF MembersAgree, Sound, IsComm
<1>2. IsFiniteSet(S)
  BY <1>1, GroupRanks, FS_Subset DEF Members
<1>3. \A q \in S : Rank(q) = GroupRank(comm[p].members, q) /\ Rank(q) \in 0 .. Size(p) - 1 /\ Ranks[q] = Rank(q)
  BY MembersHold
<1>4. \A q, s \in S : Rank(q) = Rank(s) => q = s
  BY <1>1, <1>3, GroupRanks DEF Members
<1>5. \A q \in S : Rank(q) \in Int
  BY <1>3
<1>6. PICK below : below = [q \in S |-> {s \in S : Rank(s) < Rank(q)}]
  OBVIOUS
<1>7. below \in [S -> SUBSET S] /\ \A q, s \in S : s \in below[q] <=> Rank(s) < Rank(q)
  BY <1>6
<1>8. PICK h : h = Ordered(S, Ranks)
  OBVIOUS
<1>9. h = InOrder(S, below)
  <2>1. \A q \in S : {s \in S : Ranks[s] < Ranks[q] \/ (Ranks[s] = Ranks[q] /\ Rank(s) < Rank(q))}
                     = {s \in S : Rank(s) < Rank(q)}
    BY <1>3, <1>5
  <2>2. [q \in S |-> {s \in S : Ranks[s] < Ranks[q] \/ (Ranks[s] = Ranks[q] /\ Rank(s) < Rank(q))}] = below
    BY <1>6, <2>1
  <2> QED BY <1>8, <2>2 DEF Ordered
<1>10. Arranges(h, S, below)
  <2>1. \A q \in S : q \notin below[q]
    BY <1>5, <1>7
  <2>2. \A q, s \in S : s \in below[q] => below[s] \subseteq below[q]
    BY <1>5, <1>7
  <2>3. \A q, s \in S : q = s \/ q \in below[s] \/ s \in below[q]
    BY <1>4, <1>5, <1>7
  <2> QED BY <1>2, <1>7, <1>9, <2>1, <2>2, <2>3, InOrderArranges
<1>11. \A q, s \in S : g[q] = g[s] => q = s
  <2>1. ASSUME NEW q \in S, NEW s \in S, g[q] = g[s] PROVE q = s
    <3>1. g[q] \in Int /\ ~(g[q] < g[s]) /\ ~(g[s] < g[q])
      BY <2>1
    <3>2. Rank(q) = Rank(s)
      BY <1>5, <3>1
    <3> QED BY <1>4, <3>2
  <2> QED BY <2>1
<1>12. Cardinality(S) = M
  <2>1. g \in Bijection(S, 0 .. M - 1)
    BY <1>11 DEF Bijection, Injection, Surjection, IsInjective
  <2>2. Cardinality(0 .. M - 1) = M
    BY FS_Interval
  <2> QED BY <1>2, <2>1, <2>2, FS_Bijection DEF ExistsBijection
<1>13. ASSUME NEW q \in S PROVE Cardinality(below[q]) = g[q]
  <2>0. PICK B : B = below[q]
    OBVIOUS
  <2>1. PICK y \in 0 .. M - 1 : B = below[q] /\ y = g[q]
    BY <2>0
  <2>2. \A s \in S : s \in B <=> g[s] < y
    BY <1>7, <2>1
  <2>3. PICK f : f = [s \in B |-> g[s]]
    OBVIOUS
  <2>4. B \subseteq S
    BY <1>7, <2>1
  <2>5. f \in [B -> 0 .. y - 1]
    <3>1. \A s \in B : g[s] \in 0 .. y - 1
      BY <2>2, <2>4
    <3> QED BY <2>3, <3>1
  <2>6. \A x \in 0 .. y - 1 : \E s \in B : f[s] = x
    <3>1. ASSUME NEW x \in 0 .. y - 1 PROVE \E s \in B : f[s] = x
      <4>1. PICK s \in S : g[s] = x
        OBVIOUS
      <4> QED BY <2>2, <2>3, <4>1
    <3> QED BY <3>1
  <2>7. \A s, r \in B : f[s] = f[r] => s = r
    BY <1>11, <2>3, <2>4
  <2>8. f \in Bijection(B, 0 .. y - 1)
    BY <2>5, <2>6, <2>7 DEF Bijection, Injection, Surjection, IsInjective
  <2>9. Cardinality(0 .. y - 1) = y
    BY FS_Interval
  <2>10. IsFiniteSet(B)
    BY <1>2, <2>4, FS_Subset
  <2> QED BY <2>1, <2>8, <2>9, <2>10, FS_Bijection DEF ExistsBijection
<1>14. Len(h) = M
  BY <1>2, <1>10, <1>12, ArrangedSeq
<1>15. \A q \in S : h[g[q] + 1] = q
  BY <1>10, <1>13 DEF Arranges
<1> QED BY <1>8, <1>14, <1>15 DEF NumberedBy

-----------------------------------------------------------------------------
\* What is cut from a grid is one, of the dimensions that remain, and a member has in it
\* those coordinates that remain.
CutFits(c, p, remains, cut) ==
    /\ IsGrid(cut) /\ DOMAIN cut.dims = DOMAIN remains
    /\ cut.dims = Remaining(c.dims, remains) /\ cut.periods = Remaining(c.periods, remains)
    /\ cut.dims # <<>> => Coordinates(cut, p) = Remaining(Coordinates(c, p), remains)

\* MPI_Cart_sub, for any member and any dimensions that remain.
LEMMA SubGridFits ==
    ASSUME GridsFit, NEW p \in Processes, Holds(p), comm[p].dims # <<>>,
           NEW K \in SUBSET (DOMAIN comm[p].dims),
           NEW cut, cut = SubGrid(p, Sorted(K)), IsComm(cut, Processes)
    PROVE  CutFits(comm[p], p, Sorted(K), cut)
<1>1. MembersAgree /\ IsGrid(comm[p]) /\ IsComm(comm[p], Processes)
  BY DEF GridsFit, MembersAgree, Sound
<1>2. p \in Members(p) /\ Members(p) = ToSet(comm[p].members)
  BY <1>1, HolderIsMember
<1>3. PICK c : c = comm[p]
  OBVIOUS
<1>4. HavePlaces(c) /\ c.dims \in Seq(Nat \ {0}) /\ c.periods \in [DOMAIN c.dims -> BOOLEAN]
  BY <1>1, <1>3, MembersHavePlaces DEF IsGrid
<1>5. PICK n \in Nat, N \in Nat : n = Len(c.dims) /\ N = Product(c.dims) /\ DOMAIN c.dims = 1 .. n
  <2>1. PICK d : d = c.dims /\ d \in Seq(Nat \ {0})
    BY <1>4
  <2>2. Product(d) \in Nat
    BY <2>1, ProductIsNumber
  <2>3. Len(d) \in Nat /\ DOMAIN d = 1 .. Len(d)
    BY <2>1
  <2> QED BY <2>1, <2>2, <2>3
<1>6. PICK s \in [1 .. n -> Nat \ {0}] : s = c.dims
  BY <1>4, <1>5
<1>7. PICK t : t = Sorted(K)
  OBVIOUS
<1>8. PICK m \in Nat : /\ t \in [1 .. m -> K] /\ ToSet(t) = K /\ DOMAIN t = 1 .. m
                       /\ \A i, j \in 1 .. m : i < j => t[i] < t[j]
  BY <1>3, <1>5, <1>7, SortedIs
<1>9. K \subseteq 1 .. n /\ t \in [1 .. m -> 1 .. n]
  BY <1>3, <1>5, <1>8
<1>10. PICK u : u = [k \in 1 .. m |-> s[t[k]]]
  OBVIOUS
<1>11. u \in Seq(Nat \ {0}) /\ Len(u) = m /\ DOMAIN u = 1 .. m
  <2>1. u \in [1 .. m -> Nat \ {0}]
    BY <1>9, <1>10
  <2> QED BY <2>1
<1>12. PICK M \in Nat : M = Product(u)
  BY <1>11, ProductIsNumber
<1>13. PICK D : D = Places(c.dims) /\ Numbers(D, s, n, N)
  BY <1>4, <1>5, <1>6, PlacesAre
<1>14. PICK E : E = Places(u) /\ Numbers(E, u, m, M)
  BY <1>11, <1>12, PlacesAre
<1>15. \A q \in Members(p) : /\ Rank(q) = RankIn(c, q) /\ Rank(q) \in 0 .. N - 1
                              /\ c.members[Rank(q) + 1] = q /\ Coordinates(c, q) = D[Rank(q)]
  <2>1. \A q \in Members(p) : Rank(q) = RankIn(c, q)
    BY <1>1, <1>3, MembersHold
  <2> QED BY <1>2, <1>3, <1>4, <1>5, <1>13, <2>1 DEF HavePlaces
<1>16. PICK a \in 0 .. N - 1 : a = Rank(p)
  BY <1>2, <1>15
<1>17. PICK R : R = Sharing(D, n, N, t, m, a)
  OBVIOUS
<1>18. PICK f : Renumbers(f, R, M, D, E, t, m)
  <2>1. \A j, k \in 1 .. m : j < k => t[j] < t[k]
    BY <1>8
  <2>2. Numbers(D, s, n, N) /\ Numbers(E, u, m, M)
    BY <1>13, <1>14
  <2>3. t \in [1 .. m -> 1 .. n]
    BY <1>9
  <2> QED BY <1>10, <1>17, <2>1, <2>2, <2>3, FewerDigits
<1>19. PICK S : S = {q \in Members(p) : \A i \in DOMAIN c.dims \ ToSet(t) :
                        Coordinates(c, q)[i] = Coordinates(c, p)[i]}
  OBVIOUS
<1>20. \A i \in 1 .. n : i \in ToSet(t) <=> ~(\A k \in 1 .. m : t[k] # i)
  BY <1>8 DEF ToSet
<1>21. ASSUME NEW q \in Members(p) PROVE q \in S <=> Rank(q) \in R
  <2>1. q \in S <=> \A i \in 1 .. n : i \notin ToSet(t) => D[Rank(q)][i] = D[a][i]
    BY <1>2, <1>5, <1>15, <1>16, <1>19
  <2>2. Rank(q) \in R <=> \A i \in 1 .. n : (\A k \in 1 .. m : t[k] # i) => D[Rank(q)][i] = D[a][i]
    BY <1>15, <1>17 DEF Sharing
  <2> QED BY <1>20, <2>1, <2>2
<1>22. S \in SUBSET Members(p) /\ p \in S
  BY <1>2, <1>19
<1>23. PICK g : g = [q \in S |-> f[Rank(q)]]
  OBVIOUS
<1>24. /\ \A q \in S : Rank(q) \in R /\ g[q] = f[Rank(q)]
       /\ \A r \in R : f[r] \in 0 .. M - 1
  BY <1>18, <1>21, <1>22, <1>23 DEF Renumbers
<1>25. g \in [S -> 0 .. M - 1]
  BY <1>23, <1>24
<1>26. ASSUME NEW y \in 0 .. M - 1 PROVE \E q \in S : g[q] = y
  <2>1. PICK r \in R : f[r] = y
    BY <1>18 DEF Renumbers
  <2>2. r \in 0 .. N - 1
    BY <1>17 DEF Sharing
  <2>3. PICK q \in Members(p) : q = c.members[r + 1] /\ RankIn(c, q) = r
    BY <1>2, <1>3, <1>4, <1>5, <2>2 DEF HavePlaces
  <2>4. Rank(q) = r /\ q \in S
    BY <1>15, <1>21, <2>3
  <2> QED BY <1>24, <2>1, <2>4
<1>27. \A q, x \in S : Rank(q) < Rank(x) <=> g[q] < g[x]
  BY <1>18, <1>24 DEF Renumbers
<1>28. PICK h : h = Ordered(S, Ranks)
  OBVIOUS
<1>29. Len(h) = M /\ \A q \in S : h[g[q] + 1] = q
  <2>1. NumberedBy(Ordered(S, Ranks), S, g, M)
    BY <1>1, <1>22, <1>25, <1>26, <1>27, OrderedByRanks
  <2> QED BY <1>28, <2>1 DEF NumberedBy
<1>30. cut = [members |-> h, dims |-> Remaining(c.dims, t), periods |-> Remaining(c.periods, t)]
  <2>1. cut = [members |-> Ordered({q \in Members(p) : \A i \in DOMAIN c.dims \ ToSet(t) :
                                       Coordinates(c, q)[i] = Coordinates(c, p)[i]}, Ranks),
               dims |-> Remaining(c.dims, t), periods |-> Remaining(c.periods, t)]
    BY <1>3, <1>7 DEF SubGrid
  <2> QED BY <1>19, <1>28, <2>1
<1>31. cut.members = h /\ cut.dims = u
  BY <1>6, <1>8, <1>10, <1>30 DEF Remaining
<1>32. cut.periods \in [DOMAIN cut.dims -> BOOLEAN]
  <2>1. cut.periods = [k \in 1 .. m |-> c.periods[t[k]]]
    BY <1>8, <1>30 DEF Remaining
  <2> QED BY <1>4, <1>5, <1>9, <1>11, <1>31, <2>1
<1>33. IsGrid(cut)
  BY <1>11, <1>12, <1>29, <1>31, <1>32 DEF IsGrid
<1>34. ASSUME cut.dims # <<>> PROVE Coordinates(cut, p) = Remaining(Coordinates(c, p), t)
  <2>1. HavePlaces(cut)
    BY <1>33, <1>34, MembersHavePlaces
  <2>2. PICK x \in 0 .. M - 1 : x = f[a]
    BY <1>16, <1>22, <1>24
  <2>3. h[x + 1] = p
    BY <1>16, <1>22, <1>24, <1>29, <2>2
  <2>4. RankIn(cut, p) = x /\ p \in ToSet(cut.members)
    BY <1>12, <1>31, <2>1, <2>3 DEF HavePlaces
  <2>5. Coordinates(cut, p) = E[x]
    BY <1>14, <1>31, <2>1, <2>4 DEF HavePlaces
  <2>6. E[x] \in [1 .. m -> Nat]
    BY <1>14 DEF Numbers
  <2>7. a \in R
    BY <1>16, <1>22, <1>24
  <2>8. \A k \in 1 .. m : E[x][k] = D[a][t[k]]
    BY <1>18, <2>2, <2>7 DEF Renumbers
  <2>9. E[x] = [k \in 1 .. m |-> D[a][t[k]]]
    BY <2>6, <2>8
  <2>10. Remaining(Coordinates(c, p), t) = [k \in 1 .. m |-> D[a][t[k]]]
    BY <1>2, <1>8, <1>15, <1>16 DEF Remaining
  <2> QED BY <2>5, <2>9, <2>10
<1>35. CutFits(c, p, t, cut)
  BY <1>8, <1>11, <1>30, <1>31, <1>33, <1>34 DEF CutFits
<1> QED BY <1>3, <1>7, <1>35

-----------------------------------------------------------------------------
(* Every step, as to grids.                                                *)

Flat(held) == \A p \in DOMAIN held : held[p].dims = <<>> /\ held[p].periods = <<>>

\* Communicators without a topology have no dimensions: those of a split, of groups and
\* of selected ranks.
LEMMA PlainIsFlat ==
    /\ Empty.dims = <<>> /\ Empty.periods = <<>>
    /\ \A s : Plain(s).dims = <<>> /\ Plain(s).periods = <<>>
BY DEF Empty, Plain

LEMMA SplitIsFlat ==
    ASSUME NEW color, NEW key, comm' = [p \in Processes |-> SplitOff(p, color, key)]
    PROVE  Flat(comm')
<1>1. PICK held : held = comm'
  OBVIOUS
<1>2. ASSUME NEW p \in Processes PROVE held[p].dims = <<>> /\ held[p].periods = <<>>
  <2>1. held[p] = SplitOff(p, color, key)
    BY <1>1
  <2>2. SplitOff(p, color, key) = Empty \/ \E s : SplitOff(p, color, key) = Plain(s)
    BY DEF SplitOff
  <2> QED BY <2>1, <2>2, PlainIsFlat
<1> QED BY <1>1, <1>2 DEF Flat

LEMMA GroupsAreFlat ==
    ASSUME NEW in, NEW members, comm' = [p \in Processes |-> IF in[p] THEN Plain(members[p]) ELSE Empty]
    PROVE  Flat(comm')
<1>1. PICK held : held = comm'
  OBVIOUS
<1>2. ASSUME NEW p \in Processes PROVE held[p].dims = <<>> /\ held[p].periods = <<>>
  <2>1. held[p] = IF in[p] THEN Plain(members[p]) ELSE Empty
    BY <1>1
  <2> QED BY <2>1, PlainIsFlat
<1> QED BY <1>1, <1>2 DEF Flat

LEMMA CreateIsFlat ==
    ASSUME NEW group, Create(group)
    PROVE  Flat(comm')
<1>1. PICK in : in = [p \in Processes |-> Holds(p) /\ p \in ToSet(group[p])]
  OBVIOUS
<1>2. comm' = [p \in Processes |-> IF in[p] THEN Plain(group[p]) ELSE Empty]
  BY <1>1 DEF Create
<1> QED BY <1>2, GroupsAreFlat

LEMMA SubcommIsFlat ==
    ASSUME NEW v, Subcomm(v)
    PROVE  Flat(comm')
<1>1. PICK in : in = [p \in Processes |-> Holds(p) /\ Rank(p) \in ToSet(v)]
  OBVIOUS
<1>2. PICK members : members = [p \in Processes |-> [i \in DOMAIN v |-> comm[p].members[v[i] + 1]]]
  OBVIOUS
<1>3. comm' = [p \in Processes |-> IF in[p] THEN Plain(members[p]) ELSE Empty]
  BY <1>1, <1>2 DEF Subcomm
<1> QED BY <1>3, GroupsAreFlat

LEMMA OneElement ==
    ASSUME NEW S, NEW b \in S
    PROVE  <<b>> \in [1 .. 1 -> S]
OBVIOUS

\* The calls that make grids, and the others.
LEMMA GridCases ==
    ASSUME Next
    PROVE  \/ \E p \in Processes : GoOn(p)
           \/ Flat(comm') /\ last'.call # "cut"
           \/ \E shape \in Seq(Nat) : \E periods \in [DOMAIN shape -> BOOLEAN] :
                 Cartesian(shape, periods) \/ CartesianOf(shape, periods)
           \/ \E cut \in SUBSET Dim : Cut(cut, cut)
<1>1. CASE \E p \in Processes : GoOn(p)
  BY <1>1
<1>2. CASE \E n \in Arguments : Divide(n) \/ Lower(n) \/ Interleave2(n) \/ Even(n) \/ Leaders(n)
  <2>1. last'.call # "cut"
    BY <1>2 DEF Divide, Lower, Interleave2, Even, Leaders, Processed
  <2>2. \E color : Split(color)
    BY <1>2 DEF Divide, Lower, Interleave2, Even, Leaders
  <2> QED BY <2>1, <2>2, SplitIsFlat DEF Split
<1>3. CASE \E n \in Arguments : \E op \in Comparisons : Select(op, n)
  <2>1. last'.call # "cut"
    BY <1>3 DEF Select, Processed, Comparisons
  <2>2. \E color : Split(color)
    BY <1>3 DEF Select
  <2> QED BY <2>1, <2>2, SplitIsFlat DEF Split
<1>4. CASE \E n \in Arguments : StrideGroup(n) \/ \E op \in Comparisons : SelectGroup(op, n)
  <2>1. last'.call # "cut"
    BY <1>4 DEF StrideGroup, SelectGroup, Processed, Comparisons
  <2>2. \E group : Create(group)
    BY <1>4 DEF StrideGroup, SelectGroup
  <2> QED BY <2>1, <2>2, CreateIsFlat
<1>5. CASE Reversed
  <2>1. last'.call # "cut"
    BY <1>5 DEF Reversed, Processed
  <2>2. \E color, key : comm' = [p \in Processes |-> SplitOff(p, color, key)]
    BY <1>5 DEF Reversed
  <2> QED BY <2>1, <2>2, SplitIsFlat
<1>6. CASE Subcomm(<<1, 0>>)
  <2>1. last'.call # "cut"
    BY <1>6 DEF Subcomm, Processed
  <2> QED BY <1>6, <2>1, SubcommIsFlat
<1>7. CASE Ring
  <2>1. <<0>> \in Seq(Nat) /\ <<TRUE>> \in [DOMAIN <<0>> -> BOOLEAN]
    <3>1. DOMAIN <<0>> = 1 .. 1
      OBVIOUS
    <3>2. <<TRUE>> \in [1 .. 1 -> BOOLEAN]
      BY OneElement, Zenon
    <3>3. <<0>> \in Seq(Nat)
      OBVIOUS
    <3> QED BY <3>1, <3>2, <3>3
  <2> QED BY <1>7, <2>1 DEF Ring
<1>8. CASE \E shape \in Shapes : \E periods \in [DOMAIN shape -> BOOLEAN] :
              Cartesian(shape, periods) \/ CartesianOf(shape, periods)
  <2>1. Shapes \subseteq Seq(Nat)
    BY ArgumentAssumption
  <2> QED BY <1>8, <2>1
<1>9. CASE \/ \E d \in Dim : Axis(d) \/ Hyperplane(d) \/ \E e \in Dim : Plane(d, e)
           \/ \E remains \in SUBSET Dim : Sub(remains)
  BY <1>9 DEF Axis, Hyperplane, Plane, Sub
<1>10. Next => \/ \E p \in Processes : GoOn(p)
               \/ \E n \in Arguments : Divide(n) \/ Lower(n) \/ Interleave2(n) \/ Even(n) \/ Leaders(n)
               \/ \E n \in Arguments : \E op \in Comparisons : Select(op, n)
               \/ \E n \in Arguments : StrideGroup(n) \/ \E op \in Comparisons : SelectGroup(op, n)
               \/ Reversed \/ Subcomm(<<1, 0>>) \/ Ring
               \/ \E shape \in Shapes : \E periods \in [DOMAIN shape -> BOOLEAN] :
                     Cartesian(shape, periods) \/ CartesianOf(shape, periods)
               \/ \E d \in Dim : Axis(d) \/ Hyperplane(d) \/ \E e \in Dim : Plane(d, e)
               \/ \E remains \in SUBSET Dim : Sub(remains)
  BY DEF Next
<1> QED BY <1>1, <1>2, <1>3, <1>4, <1>5, <1>6, <1>7, <1>8, <1>9, <1>10

\* Grids in what processes P hold, with dimensions dim if they hold any.
FitIn(held, P, dim) == \A p \in P : IsGrid(held[p]) /\ (held[p] # Empty => DOMAIN held[p].dims = dim)

\* What is to be shown of a step.
LEMMA FitNext ==
    ASSUME MembersAgree', NEW dim, FitIn(comm', DOMAIN comm', dim)
    PROVE  GridsFit'
<1>1. PICK held : held = comm'
  OBVIOUS
<1>2. Processes' = DOMAIN held /\ Holders' = {p \in DOMAIN held : held[p] # Empty}
  BY <1>1 DEF Processes, Holders, Holds
<1>3. \A p \in DOMAIN held : IsGrid(held[p])
  BY <1>1 DEF FitIn
<1>4. \A p, q \in DOMAIN held : held[p] # Empty /\ held[q] # Empty => DOMAIN held[p].dims = DOMAIN held[q].dims
  BY <1>1 DEF FitIn
<1> QED BY <1>1, <1>2, <1>3, <1>4 DEF GridsFit

LEMMA FlatIsGrid ==
    ASSUME NEW c, c.dims = <<>>, c.periods = <<>>
    PROVE  IsGrid(c) /\ DOMAIN c.dims = {}
<1>1. <<>> \in Seq(Nat \ {0}) /\ DOMAIN <<>> = {} /\ <<>> \in [{} -> BOOLEAN]
  OBVIOUS
<1> QED BY <1>1 DEF IsGrid

\* A step that makes communicators without a topology.
LEMMA FlatFits ==
    ASSUME NEW held, Flat(held)
    PROVE  FitIn(held, DOMAIN held, {})
BY FlatIsGrid DEF Flat, FitIn

\* What MPI_Cart_create leaves.
LEMMA ArrangedFits ==
    ASSUME MembersAgree, NEW extents, NEW periods, NEW reorder \in BOOLEAN,
           \A p \in Holders : /\ extents[p] \in Seq(Nat \ {0}) /\ Product(extents[p]) <= Size(p)
                              /\ periods \in [DOMAIN extents[p] -> BOOLEAN],
           comm' = [p \in Processes |-> Arranged(p, extents[p], periods, reorder)]
    PROVE  FitIn(comm', DOMAIN comm', DOMAIN periods)
<1>1. PICK held : held = comm'
  OBVIOUS
<1>2. ASSUME NEW p \in Processes
      PROVE  IsGrid(held[p]) /\ (held[p] # Empty => DOMAIN held[p].dims = DOMAIN periods)
  <2>1. held[p] = Arranged(p, extents[p], periods, reorder)
    BY <1>1
  <2>2. CASE held[p] = Empty
    BY <2>2, PlainIsFlat, FlatIsGrid
  <2>3. CASE held[p] # Empty
    <3>1. PICK placed : placed = SubSeq(comm[p].members, 1, Product(extents[p]))
      OBVIOUS
    <3>2. Holds(p) /\ held[p] = [members |-> IF reorder THEN Reverse(placed) ELSE placed,
                                 dims |-> extents[p], periods |-> periods]
      BY <2>1, <2>3, <3>1 DEF Arranged
    <3>3. p \in Holders
      BY <3>2 DEF Holders
    <3>4. PICK d \in Seq(Nat \ {0}) : d = extents[p] /\ Product(d) <= Size(p) /\ periods \in [DOMAIN d -> BOOLEAN]
      BY <3>3
    <3>5. PICK N \in Nat : N = Product(d)
      BY ProductIsNumber
    <3>6. PICK g \in Seq(Processes) : g = comm[p].members /\ Size(p) = Len(g)
      BY <3>2, HolderIsMember
    <3>7. Len(placed) = N /\ Len(Reverse(placed)) = N
      <4>1. placed = SubSeq(g, 1, N) /\ N <= Len(g)
        BY <3>1, <3>4, <3>5, <3>6
      <4>2. Len(placed) = N
        BY <4>1
      <4>3. Reverse(placed) = [i \in 1 .. N |-> placed[(N - i) + 1]]
        BY <4>2 DEF Reverse
      <4> QED BY <4>2, <4>3
    <3>8. held[p].dims = d /\ held[p].periods = periods /\ Len(held[p].members) = N
      BY <3>2, <3>4, <3>7
    <3> QED BY <3>4, <3>5, <3>8 DEF IsGrid
  <2> QED BY <2>2, <2>3
<1>3. DOMAIN held = Processes
  BY <1>1
<1> QED BY <1>1, <1>2, <1>3 DEF FitIn

\* A grid whose shape is left to MPI_Dims_create.
LEMMA CartesianFits ==
    ASSUME MembersAgree, NEW shape \in Seq(Nat), NEW periods \in [DOMAIN shape -> BOOLEAN],
           Cartesian(shape, periods)
    PROVE  \E dim : FitIn(comm', DOMAIN comm', dim)
<1>1. PICK extents : extents = [p \in Processes |-> DimsCreate(Size(p), shape)]
  OBVIOUS
<1>2. PICK reorder \in BOOLEAN :
          comm' = [p \in Processes |->
                     IF Holds(p) THEN Arranged(p, DimsCreate(Size(p), shape), periods, reorder) ELSE Empty]
  BY DEF Cartesian
<1>3. \A p \in Processes :
          (IF Holds(p) THEN Arranged(p, DimsCreate(Size(p), shape), periods, reorder) ELSE Empty)
          = Arranged(p, extents[p], periods, reorder)
  BY <1>1 DEF Arranged
<1>4. comm' = [p \in Processes |-> Arranged(p, extents[p], periods, reorder)]
  BY <1>2, <1>3
<1>5. ASSUME NEW p \in Holders
      PROVE  /\ extents[p] \in Seq(Nat \ {0}) /\ Product(extents[p]) <= Size(p)
             /\ periods \in [DOMAIN extents[p] -> BOOLEAN]
  <2>1. p \in Processes /\ Holds(p)
    BY DEF Holders
  <2>2. PICK size \in Nat : size = Size(p)
    BY <2>1, HolderIsMember
  <2>3. Divisors(size, shape) # {}
    BY <2>1, <2>2 DEF Cartesian
  <2>4. PICK d : d = DimsCreate(size, shape) /\ d \in Divisors(size, shape)
    BY <2>3, DimsAreDivisors
  <2>5. d \in [DOMAIN shape -> 1 .. size] /\ Product(d) = size
    BY <2>4 DEF Divisors
  <2>6. PICK n \in Nat : DOMAIN shape = 1 .. n
    OBVIOUS
  <2>7. d \in [1 .. n -> Nat \ {0}]
    BY <2>5, <2>6
  <2>8. d \in Seq(Nat \ {0}) /\ DOMAIN d = DOMAIN shape
    BY <2>6, <2>7
  <2>9. extents[p] = d
    BY <1>1, <2>1, <2>2, <2>4
  <2> QED BY <2>2, <2>5, <2>8, <2>9
<1>6. FitIn(comm', DOMAIN comm', DOMAIN periods)
  BY <1>4, <1>5, ArrangedFits
<1> QED BY <1>6

\* A grid of the shape that is given.
LEMMA CartesianOfFits ==
    ASSUME MembersAgree, NEW dims \in Seq(Nat), NEW periods \in [DOMAIN dims -> BOOLEAN],
           CartesianOf(dims, periods)
    PROVE  \E dim : FitIn(comm', DOMAIN comm', dim)
<1>1. PICK extents : extents = [p \in Processes |-> dims]
  OBVIOUS
<1>2. PICK reorder \in BOOLEAN : comm' = [p \in Processes |-> Arranged(p, dims, periods, reorder)]
  BY DEF CartesianOf
<1>3. comm' = [p \in Processes |-> Arranged(p, extents[p], periods, reorder)]
  BY <1>1, <1>2
<1>4. dims \in Seq(Nat \ {0})
  <2>1. PICK n \in Nat : n = Len(dims) /\ DOMAIN dims = 1 .. n /\ dims \in [1 .. n -> Nat]
    OBVIOUS
  <2>2. \A i \in 1 .. n : dims[i] # 0
    BY <2>1 DEF CartesianOf, ToSet
  <2>3. dims \in [1 .. n -> Nat \ {0}]
    BY <2>1, <2>2
  <2> QED BY <2>3
<1>5. ASSUME NEW p \in Holders
      PROVE  /\ extents[p] \in Seq(Nat \ {0}) /\ Product(extents[p]) <= Size(p)
             /\ periods \in [DOMAIN extents[p] -> BOOLEAN]
  <2>1. p \in Processes /\ Holds(p)
    BY DEF Holders
  <2> QED BY <1>1, <1>4, <2>1 DEF CartesianOf
<1>6. FitIn(comm', DOMAIN comm', DOMAIN periods)
  BY <1>3, <1>5, ArrangedFits
<1> QED BY <1>6

\* A process that goes on alone.
LEMMA GoOnFits ==
    ASSUME GridsFit, NEW p \in Processes, GoOn(p)
    PROVE  \E dim : FitIn(comm', DOMAIN comm', dim)
<1>1. MembersAgree /\ IsGrid(comm[p]) /\ IsComm(comm[p], Processes) /\ Holds(p)
  BY DEF GridsFit, MembersAgree, Sound, GoOn
<1>2. PICK n \in Nat : n = Size(p) /\ n = Len(comm[p].members)
  BY <1>1, HolderIsMember
<1>3. PICK c : c = [comm[p] EXCEPT !.members = [i \in 1 .. n |-> i]]
  OBVIOUS
<1>4. comm' = [q \in 1 .. n |-> c]
  BY <1>2, <1>3 DEF GoOn
<1>5. c.dims = comm[p].dims /\ c.periods = comm[p].periods /\ Len(c.members) = n
  <2>1. comm[p] = [members |-> comm[p].members, dims |-> comm[p].dims, periods |-> comm[p].periods]
    BY <1>1 DEF IsComm
  <2>2. c.members = [i \in 1 .. n |-> i] /\ c.dims = comm[p].dims /\ c.periods = comm[p].periods
    BY <1>3, <2>1
  <2>3. Len([i \in 1 .. n |-> i]) = n
    OBVIOUS
  <2> QED BY <2>2, <2>3
<1>6. IsGrid(c)
  BY <1>1, <1>2, <1>5 DEF IsGrid
<1>7. FitIn(comm', DOMAIN comm', DOMAIN c.dims)
  BY <1>4, <1>6 DEF FitIn
<1> QED BY <1>7

\* What processes hold after a cut.
LEMMA CutHolds ==
    ASSUME GridsFit, MembersAgree', NEW K \in SUBSET Dim, Cut(K, K), NEW p \in Processes, Holds(p)
    PROVE  /\ comm[p].dims # <<>> /\ K \subseteq DOMAIN comm[p].dims
           /\ CutFits(comm[p], p, Sorted(K), comm'[p])
<1>1. MembersAgree /\ IsGrid(comm[p])
  BY DEF GridsFit
<1>2. PICK dim : dim = DOMAIN comm[p].dims
  OBVIOUS
<1>3. \A q \in Processes : Dimensions(q) \subseteq dim
  <2>1. ASSUME NEW q \in Processes PROVE Dimensions(q) \subseteq dim
    <3>1. CASE Holds(q)
      <4>1. p \in Holders /\ q \in Holders
        BY <3>1 DEF Holders
      <4> QED BY <1>2, <4>1 DEF GridsFit, Dimensions
    <3>2. CASE ~Holds(q)
      <4>1. comm[q].dims = <<>> /\ DOMAIN <<>> = {}
        BY <3>2, PlainIsFlat DEF Holds
      <4> QED BY <4>1 DEF Dimensions
    <3> QED BY <3>1, <3>2
  <2> QED BY <2>1
<1>4. Dim \subseteq dim /\ Dim # {}
  BY <1>3 DEF Dim, Cut
<1>5. comm[p].dims # <<>>
  <2>1. DOMAIN <<>> = {}
    OBVIOUS
  <2> QED BY <1>2, <1>4, <2>1
<1>6. PICK new : new = comm'
  OBVIOUS
<1>7. new[p] = SubGrid(p, Sorted(K)) /\ Processes' = Processes
  BY <1>6 DEF Cut, Processes
<1>8. IsComm(new[p], Processes)
  BY <1>6, <1>7 DEF MembersAgree, Sound
<1>9. K \in SUBSET (DOMAIN comm[p].dims)
  BY <1>2, <1>4
<1>10. CutFits(comm[p], p, Sorted(K), new[p])
  BY <1>5, <1>7, <1>8, <1>9, SubGridFits
<1> QED BY <1>5, <1>6, <1>9, <1>10

\* A cut of all grids of the world.
LEMMA CutFitsIn ==
    ASSUME GridsFit, MembersAgree', NEW K \in SUBSET Dim, Cut(K, K)
    PROVE  \E dim : FitIn(comm', DOMAIN comm', dim)
<1>1. PICK new : new = comm'
  OBVIOUS
<1>2. ASSUME NEW p \in Processes
      PROVE  IsGrid(new[p]) /\ (new[p] # Empty => DOMAIN new[p].dims = DOMAIN Sorted(K))
  <2>1. CASE Holds(p)
    <3>1. CutFits(comm[p], p, Sorted(K), new[p])
      BY <1>1, <2>1, CutHolds
    <3> QED BY <3>1 DEF CutFits
  <2>2. CASE ~Holds(p)
    <3>1. new[p] = Empty
      BY <1>1, <2>2 DEF Cut, SubGrid
    <3> QED BY <3>1, PlainIsFlat, FlatIsGrid
  <2> QED BY <2>1, <2>2
<1>3. DOMAIN new = Processes
  BY <1>1 DEF Cut
<1>4. FitIn(comm', DOMAIN comm', DOMAIN Sorted(K))
  BY <1>1, <1>2, <1>3 DEF FitIn
<1> QED BY <1>4

\* A step leaves grids.
LEMMA GridsFitStep ==
    ASSUME GridsFit, [Next]_vars
    PROVE  GridsFit'
<1>0. MembersAgree /\ MembersAgree'
  BY MembersAgreeStep DEF GridsFit
<1>1. CASE UNCHANGED vars
  <2>1. comm' = comm /\ Processes' = Processes /\ Holders' = Holders
    BY <1>1 DEF vars, Processes, Holders, Holds
  <2> QED BY <1>0, <2>1 DEF GridsFit
<1>2. CASE Next
  <2>1. CASE Flat(comm')
    <3>1. FitIn(comm', DOMAIN comm', {})
      BY <2>1, FlatFits
    <3> QED BY <1>0, <3>1, FitNext
  <2>2. CASE \E dim : FitIn(comm', DOMAIN comm', dim)
    BY <1>0, <2>2, FitNext
  <2>3. CASE \E p \in Processes : GoOn(p)
    BY <2>2, <2>3, GoOnFits
  <2>4. CASE \E shape \in Seq(Nat) : \E periods \in [DOMAIN shape -> BOOLEAN] :
                Cartesian(shape, periods) \/ CartesianOf(shape, periods)
    BY <1>0, <2>2, <2>4, CartesianFits, CartesianOfFits
  <2>5. CASE \E cut \in SUBSET Dim : Cut(cut, cut)
    BY <1>0, <2>2, <2>5, CutFitsIn
  <2> QED BY <1>2, <2>1, <2>3, <2>4, <2>5, GridCases
<1> QED BY <1>1, <1>2

\* At first nobody holds a grid.
LEMMA InitFits ==
    ASSUME Init
    PROVE  GridsFit
<1>1. MembersAgree
  BY InitAgree
<1>2. ASSUME NEW p \in Processes PROVE IsGrid(comm[p]) /\ DOMAIN comm[p].dims = {}
  <2>1. PICK s : comm[p] = Plain(s)
    BY DEF Init, Processes
  <2> QED BY <2>1, PlainIsFlat, FlatIsGrid
<1> QED BY <1>1, <1>2 DEF GridsFit, Holders

\* Whatever is split, arranged and cut, each grid has a member for each of its places,
\* and all have the same number of dimensions: the inductive invariant of grids.
THEOREM GridsInvariant == Spec => []GridsFit
<1>1. Init => GridsFit
  BY InitFits
<1>2. GridsFit /\ [Next]_vars => GridsFit'
  BY GridsFitStep
<1> QED BY <1>1, <1>2, PTL DEF Spec

\* Neighbours agree with each other, in any grid, for any displacement.
THEOREM NeighboursMeetHolds == Spec => []NeighboursMeet
<1>1. GridsFit => NeighboursMeet
  BY NeighboursMeetOnGrids
<1> QED BY <1>1, GridsInvariant, PTL

\* What CutsKeepPlaces says of grids, and of those that were just cut.
MembersAreAtHome ==
    \A p \in Processes : Holds(p) /\ Dimensions(p) # {} =>
        /\ Size(p) = Product(comm[p].dims)
        /\ CartRank(comm[p], Coordinates(comm[p], p)) = Rank(p)
        /\ \A q \in Members(p) : Members(q) = Members(p)

RemainingAreKept ==
    \A p \in Processes : Holds(p) /\ Dimensions(p) # {} /\ last.call = "cut" =>
        LET before == Topology(parent[p], p)
            after == Topology(comm[p], p)
            kept == Sorted(last.arg)
        IN  /\ after.coordinates = Remaining(before.coordinates, kept)
            /\ after.dimensions = Remaining(before.dimensions, kept)
            /\ after.periods = Remaining(before.periods, kept)

\* A grid has as many members as places, and MPI_Cart_rank leads each member to itself.
LEMMA GridMembersAreAtHome ==
    ASSUME GridsFit
    PROVE  MembersAreAtHome
<1>1. ASSUME NEW p \in Processes, Holds(p), Dimensions(p) # {}
      PROVE  /\ Size(p) = Product(comm[p].dims)
             /\ CartRank(comm[p], Coordinates(comm[p], p)) = Rank(p)
             /\ \A q \in Members(p) : Members(q) = Members(p)
  <2>1. MembersAgree /\ IsGrid(comm[p]) /\ IsComm(comm[p], Processes)
    BY DEF GridsFit, MembersAgree, Sound
  <2>2. p \in ToSet(comm[p].members)
    BY <1>1, <2>1, HolderIsMember
  <2>3. comm[p].dims # <<>>
    BY <1>1 DEF Dimensions
  <2>4. \A k \in 1 .. Len(comm[p].dims) :
            /\ Coordinates(comm[p], p)[k] \in Int
            /\ Coordinates(comm[p], p)[k] % comm[p].dims[k] = Coordinates(comm[p], p)[k]
    BY <2>1, <2>2, <2>3, CoordinatesAre
  <2>5. CartRank(comm[p], Coordinates(comm[p], p)) = RankIn(comm[p], p)
    BY <2>1, <2>2, <2>3, <2>4, CoordinatesLeadTo
  <2>6. \A q \in Members(p) : Members(q) = Members(p)
    BY <2>1, MembersHold
  <2>7. Size(p) = Product(comm[p].dims)
    BY <2>1, <2>3 DEF IsGrid, Size
  <2> QED BY <2>5, <2>6, <2>7 DEF Rank
<1> QED BY <1>1 DEF MembersAreAtHome

\* A cut keeps the coordinates, dimensions and periods that remain.
LEMMA RemainingAreKeptStep ==
    ASSUME GridsFit, RemainingAreKept, [Next]_vars
    PROVE  RemainingAreKept'
<1>0. MembersAgree'
  BY MembersAgreeStep DEF GridsFit
<1>1. CASE UNCHANGED vars
  BY <1>1 DEF vars, RemainingAreKept, Processes, Holds, Dimensions
<1>2. CASE last'.call # "cut"
  BY <1>2 DEF RemainingAreKept
<1>3. CASE \E cut \in SUBSET Dim : Cut(cut, cut)
  <2>1. PICK K \in SUBSET Dim : Cut(K, K)
    BY <1>3
  <2>2. PICK new : new = comm'
    OBVIOUS
  <2>3. parent' = comm /\ last'.arg = K /\ Processes' = Processes
    BY <2>1 DEF Cut, Processed, Processes
  <2>4. ASSUME NEW p \in Processes, new[p] # Empty, DOMAIN new[p].dims # {}
        PROVE  /\ Coordinates(new[p], p) = Remaining(Coordinates(comm[p], p), Sorted(K))
               /\ new[p].dims = Remaining(comm[p].dims, Sorted(K))
               /\ new[p].periods = Remaining(comm[p].periods, Sorted(K))
    <3>1. Holds(p)
      BY <2>1, <2>2, <2>4 DEF Cut, SubGrid
    <3>2. CutFits(comm[p], p, Sorted(K), new[p])
      BY <1>0, <2>1, <2>2, <3>1, CutHolds
    <3>3. new[p].dims # <<>>
      BY <2>4
    <3> QED BY <3>2, <3>3 DEF CutFits
  <2> QED BY <2>2, <2>3, <2>4 DEF RemainingAreKept, Topology, Holds, Dimensions
<1>4. CASE Next
  <2>1. CASE \E p \in Processes : GoOn(p)
    BY <1>2, <2>1 DEF GoOn
  <2>2. CASE \E shape \in Seq(Nat) : \E periods \in [DOMAIN shape -> BOOLEAN] :
                Cartesian(shape, periods) \/ CartesianOf(shape, periods)
    BY <1>2, <2>2 DEF Cartesian, CartesianOf, Processed
  <2> QED BY <1>2, <1>3, <1>4, <2>1, <2>2, GridCases
<1> QED BY <1>1, <1>4

\* Grids have a process for each place, whose coordinates lead back to it, and what is
\* cut from a grid keeps the coordinates, extents and periods of the dimensions that
\* remain, however often processes split, arrange and cut before.
THEOREM CutsKeepPlacesHolds == Spec => []CutsKeepPlaces
<1>1. Init => GridsFit /\ RemainingAreKept
  BY InitFits DEF Init, RemainingAreKept
<1>2. GridsFit /\ RemainingAreKept /\ [Next]_vars => GridsFit' /\ RemainingAreKept'
  BY GridsFitStep, RemainingAreKeptStep
<1>3. GridsFit => MembersAreAtHome
  BY GridMembersAreAtHome
<1>4. MembersAreAtHome /\ RemainingAreKept => CutsKeepPlaces
  BY Zenon DEF MembersAreAtHome, RemainingAreKept, CutsKeepPlaces
<1> QED BY <1>1, <1>2, <1>3, <1>4, PTL DEF Spec
=============================================================================
