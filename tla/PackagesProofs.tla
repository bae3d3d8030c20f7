----------------------------- MODULE PackagesProofs -----------------------------
(***************************************************************************)
(* Packages for any values: what is packed behind anything is unpacked as  *)
(* it was, and several values one after another come back in their order.  *)
(***************************************************************************)
EXTENDS Packages, WellFoundedInduction, TLAPS
-----------------------------------------------------------------------------
(* Induction, by sets of numbers.                                          *)

\* A set of natural numbers that is not empty has a least one.
LEMMA LeastNumber ==
    ASSUME NEW T, T \subseteq Nat, T # {}
    PROVE  \E x \in T : \A y \in T : x <= y
<1>1. PICK R : R = OpToRel(<, Nat)
  OBVIOUS
<1>2. IsWellFoundedOn(R, Nat)
  BY <1>1, NatLessThanWellFounded
<1>3. PICK x \in T : \A y \in T : <<y, x>> \notin R
  BY <1>2, WFMin
<1>4. R = {ss \in Nat \X Nat : ss[1] < ss[2]}
  BY <1>1 DEF OpToRel
<1>5. ASSUME NEW y \in T PROVE x <= y
  <2>1. <<y, x>> \notin {ss \in Nat \X Nat : ss[1] < ss[2]}
    BY <1>3, <1>4
  <2> QED BY <2>1
<1> QED BY <1>5

\* A set that has 0, and with a number the next one, has all numbers.
LEMMA UpTo ==
    ASSUME NEW N \in Nat, NEW T, 0 \in T, \A n \in T : n \in 0 .. N - 1 => n + 1 \in T
    PROVE  0 .. N \subseteq T
<1>1. SUFFICES ASSUME (0 .. N) \ T # {} PROVE FALSE
  OBVIOUS
<1>2. PICK x \in (0 .. N) \ T : \A y \in (0 .. N) \ T : x <= y
  <2>1. PICK rest : rest = (0 .. N) \ T
    OBVIOUS
  <2>2. rest \subseteq Nat /\ rest # {}
    BY <1>1, <2>1
  <2>3. \E x \in rest : \A y \in rest : x <= y
    BY <2>2, LeastNumber
  <2> QED BY <2>1, <2>3
<1>3. PICK y \in 0 .. N - 1 : y + 1 = x
  <2>1. x # 0
    BY <1>2
  <2>2. x - 1 \in 0 .. N - 1 /\ (x - 1) + 1 = x
    BY <2>1
  <2> QED BY <2>2
<1>4. y \in T
  BY <1>2, <1>3
<1> QED BY <1>2, <1>3, <1>4
-----------------------------------------------------------------------------
(* Packing and unpacking.                                                  *)

Byte == Nat \X Nat \X Nat
Widths == {IntWidth, UnsignedWidth, SizeWidth, CharWidth}

\* The values are in the buffer, from a position on.
Has(buffer, pos, xs, width) ==
    /\ pos + Len(xs) * width <= Len(buffer)
    /\ \A k \in 1 .. Len(xs) * width : buffer[pos + k] = BytesOf(xs, width)[k]

\* The buffer begins with another one.
Extends(longer, buffer) ==
    Len(buffer) <= Len(longer) /\ \A i \in 1 .. Len(buffer) : longer[i] = buffer[i]

LEMMA WidthsAre == Widths = {1, 4, 8}
BY DEF Widths, IntWidth, UnsignedWidth, SizeWidth, CharWidth

\* Where the k-th byte belongs.
LEMMA BytePlaces ==
    ASSUME NEW width \in Widths, NEW n \in Nat, NEW k \in 1 .. n * width
    PROVE  /\ n * width \in Nat
           /\ ((k - 1) \div width) + 1 \in 1 .. n
           /\ ((k - 1) % width) + 1 \in 1 .. width
<1>1. CASE width = 1
  BY <1>1
<1>2. CASE width = 4
  BY <1>2
<1>3. CASE width = 8
  BY <1>3
<1> QED BY <1>1, <1>2, <1>3, WidthsAre

LEMMA BytesOfBytes ==
    ASSUME NEW width \in Widths, NEW xs \in Seq(Nat)
    PROVE  /\ BytesOf(xs, width) \in Seq(Byte)
           /\ Len(BytesOf(xs, width)) = Len(xs) * width
           /\ Len(xs) * width \in Nat
<1>1. Len(xs) * width \in Nat
  BY WidthsAre
<1>2. ASSUME NEW k \in 1 .. Len(xs) * width
      PROVE  <<xs[((k - 1) \div width) + 1], ((k - 1) % width) + 1, width>> \in Byte
  <2>1. Len(xs) \in Nat
    OBVIOUS
  <2>2. ((k - 1) \div width) + 1 \in 1 .. Len(xs) /\ ((k - 1) % width) + 1 \in 1 .. width
    BY <2>1, BytePlaces
  <2>3. xs[((k - 1) \div width) + 1] \in Nat /\ width \in Nat
    BY <2>2, WidthsAre
  <2> QED BY <2>2, <2>3 DEF Byte
<1>3. BytesOf(xs, width) \in [1 .. Len(xs) * width -> Byte]
  BY <1>2 DEF BytesOf
<1> QED BY <1>1, <1>3

LEMMA PackBytes ==
    ASSUME NEW width \in Widths, NEW xs \in Seq(Nat), NEW buffer \in Seq(Byte)
    PROVE  /\ PackN(buffer, xs, width) \in Seq(Byte)
           /\ Len(PackN(buffer, xs, width)) = Len(buffer) + Len(xs) * width
           /\ Extends(PackN(buffer, xs, width), buffer)
           /\ Has(PackN(buffer, xs, width), Len(buffer), xs, width)
<1>1. PICK bytes : bytes = BytesOf(xs, width)
  OBVIOUS
<1>2. bytes \in Seq(Byte) /\ Len(bytes) = Len(xs) * width /\ Len(xs) * width \in Nat
  BY <1>1, BytesOfBytes
<1>3. PackN(buffer, xs, width) = buffer \o bytes
  BY <1>1 DEF PackN
<1> QED BY <1>1, <1>2, <1>3 DEF Extends, Has

LEMMA ExtendsTransitive ==
    ASSUME NEW a \in Seq(Byte), NEW b \in Seq(Byte), NEW c \in Seq(Byte), Extends(a, b), Extends(b, c)
    PROVE  Extends(a, c)
BY DEF Extends

LEMMA HasExtends ==
    ASSUME NEW a \in Seq(Byte), NEW b \in Seq(Byte), Extends(a, b), NEW pos \in Nat,
           NEW width \in Widths, NEW xs \in Seq(Nat), Has(b, pos, xs, width)
    PROVE  Has(a, pos, xs, width)
<1>1. PICK n \in Nat : n = Len(xs) * width
  BY BytesOfBytes
<1>2. pos + n <= Len(b) /\ \A k \in 1 .. n : b[pos + k] = BytesOf(xs, width)[k]
  BY <1>1 DEF Has
<1>3. \A k \in 1 .. n : a[pos + k] = b[pos + k]
  BY <1>2 DEF Extends
<1>4. pos + n <= Len(a)
  BY <1>2 DEF Extends
<1> QED BY <1>1, <1>2, <1>3, <1>4 DEF Has

LEMMA SubSeqIs ==
    ASSUME NEW s \in Seq(Byte), NEW lo \in Nat, NEW n \in Nat, lo + n <= Len(s)
    PROVE  SubSeq(s, lo + 1, lo + n) = [j \in 1 .. n |-> s[lo + j]]
OBVIOUS

LEMMA UnpackOneHas ==
    ASSUME NEW width \in Widths, NEW xs \in Seq(Nat), NEW buffer \in Seq(Byte), NEW pos \in Nat,
           Has(buffer, pos, xs, width), NEW i \in 1 .. Len(xs)
    PROVE  UnpackOne(buffer, pos + (i - 1) * width, width) = xs[i]
<1>1. PICK at0 \in Nat : at0 = (i - 1) * width
  BY WidthsAre
<1>2. PICK n \in Nat : n = Len(xs) * width
  BY BytesOfBytes
<1>3. at0 + width <= n /\ width \in Nat /\ width >= 1
  BY <1>1, <1>2, WidthsAre
<1>4. ASSUME NEW j \in 1 .. width
      PROVE  BytesOf(xs, width)[at0 + j] = <<xs[i], j, width>>
  <2>1. ((at0 + j - 1) \div width) + 1 = i /\ ((at0 + j - 1) % width) + 1 = j
    <3>1. CASE width = 1
      BY <1>1, <3>1
    <3>2. CASE width = 4
      BY <1>1, <3>2
    <3>3. CASE width = 8
      BY <1>1, <3>3
    <3> QED BY <3>1, <3>2, <3>3, WidthsAre
  <2>2. at0 + j \in 1 .. Len(xs) * width
    BY <1>2, <1>3
  <2> QED BY <2>1, <2>2 DEF BytesOf
<1>5. ASSUME NEW j \in 1 .. width
      PROVE  buffer[pos + at0 + j] = <<xs[i], j, width>>
  <2>1. at0 + j \in 1 .. Len(xs) * width
    BY <1>2, <1>3
  <2>2. buffer[pos + (at0 + j)] = BytesOf(xs, width)[at0 + j]
    BY <2>1 DEF Has
  <2> QED BY <1>4, <2>2
<1>6. pos + at0 + width <= Len(buffer)
  BY <1>2, <1>3 DEF Has
<1>7. SubSeq(buffer, pos + at0 + 1, pos + at0 + width) = [j \in 1 .. width |-> <<xs[i], j, width>>]
  <2>1. PICK lo \in Nat : lo = pos + at0
    OBVIOUS
  <2>2. SubSeq(buffer, lo + 1, lo + width) = [j \in 1 .. width |-> buffer[lo + j]]
    BY <1>3, <1>6, <2>1, SubSeqIs
  <2> QED BY <1>5, <2>1, <2>2
<1>8. buffer[pos + at0 + 1][1] = xs[i]
  BY <1>3, <1>5
<1>9. BytesOf(<<xs[i]>>, width) = [j \in 1 .. width |-> <<xs[i], j, width>>]
  <2>1. Len(<<xs[i]>>) * width = width
    BY <1>3
  <2>2. ASSUME NEW j \in 1 .. width
        PROVE  <<xs[i]>>[((j - 1) \div width) + 1] = xs[i] /\ ((j - 1) % width) + 1 = j
    <3>1. (j - 1) \div width = 0 /\ (j - 1) % width = j - 1
      <4>1. CASE width = 1
        BY <4>1
      <4>2. CASE width = 4
        BY <4>2
      <4>3. CASE width = 8
        BY <4>3
      <4> QED BY <4>1, <4>2, <4>3, WidthsAre
    <3> QED BY <3>1
  <2> QED BY <2>1, <2>2 DEF BytesOf
<1> QED BY <1>1, <1>6, <1>7, <1>8, <1>9 DEF UnpackOne

\* What the buffer has is read.
LEMMA UnpackHas ==
    ASSUME NEW width \in Widths, NEW xs \in Seq(Nat), NEW buffer \in Seq(Byte), NEW pos \in Nat,
           Has(buffer, pos, xs, width)
    PROVE  UnpackN(buffer, pos, Len(xs), width) = Read(xs, pos + Len(xs) * width)
<1>1. [i \in 1 .. Len(xs) |-> UnpackOne(buffer, pos + (i - 1) * width, width)]
      = [i \in 1 .. Len(xs) |-> xs[i]]
  BY UnpackOneHas
<1>2. [i \in 1 .. Len(xs) |-> xs[i]] = xs
  OBVIOUS
<1> QED BY <1>1, <1>2 DEF UnpackN

\* What was packed is read where it was put, whatever was packed behind it.
LEMMA UnpackPacked ==
    ASSUME NEW width \in Widths, NEW xs \in Seq(Nat), NEW before \in Seq(Byte), NEW buffer \in Seq(Byte),
           Extends(buffer, PackN(before, xs, width))
    PROVE  UnpackN(buffer, Len(before), Len(xs), width) = Read(xs, Len(PackN(before, xs, width)))
<1>1. Has(buffer, Len(before), xs, width)
  BY PackBytes, HasExtends
<1> QED BY <1>1, PackBytes, UnpackHas
-----------------------------------------------------------------------------
(* Saving and loading.                                                     *)

Strings == [type : {"string"}, x : Seq(Nat)]
Ints == [type : {"int"}, x : Nat]
Vectors == [type : {"vector"}, x : Seq(Nat)]
Variants == [type : {"variant"}, x : Ints \cup Strings]
Serialized == Ints \cup Strings \cup Vectors \cup Variants

\* The value v is loaded from a buffer, where another one ended that was saved to,
\* whatever follows.
LoadedFrom(before, after, v) ==
    \A buffer \in Seq(Byte) :
        Extends(buffer, after) => Load(buffer, Len(before), v.type) = Read(v, Len(after))

\* Saving a value only adds to the buffer, and the value can be loaded.
SavedAs(before, after, v) ==
    /\ after \in Seq(Byte)
    /\ Len(before) < Len(after) /\ Extends(after, before)
    /\ LoadedFrom(before, after, v)

\* One value behind another: what follows the first begins with its bytes.
LEMMA UnpackSingle ==
    ASSUME NEW width \in Widths, NEW x \in Nat, NEW before \in Seq(Byte), NEW buffer \in Seq(Byte),
           Extends(buffer, PackN(before, <<x>>, width))
    PROVE  /\ UnpackN(buffer, Len(before), 1, width).value[1] = x
           /\ UnpackN(buffer, Len(before), 1, width).pos = Len(PackN(before, <<x>>, width))
<1>1. <<x>> \in Seq(Nat) /\ Len(<<x>>) = 1
  OBVIOUS
<1>2. UnpackN(buffer, Len(before), 1, width) = Read(<<x>>, Len(PackN(before, <<x>>, width)))
  BY <1>1, UnpackPacked
<1> QED BY <1>2 DEF Read

\* An array behind its size.
LEMMA LoadSizedPacked ==
    ASSUME NEW width \in Widths, NEW w \in Widths, NEW xs \in Seq(Nat),
           NEW before \in Seq(Byte), NEW buffer \in Seq(Byte),
           Extends(buffer, PackN(PackN(before, <<Len(xs)>>, w), xs, width))
    PROVE  LoadSized(buffer, UnpackN(buffer, Len(before), 1, w), width)
           = Read(xs, Len(PackN(PackN(before, <<Len(xs)>>, w), xs, width)))
<1>1. PICK sized : sized = PackN(before, <<Len(xs)>>, w)
  OBVIOUS
<1>2. PICK full : full = PackN(sized, xs, width)
  OBVIOUS
<1>3. <<Len(xs)>> \in Seq(Nat) /\ Len(<<Len(xs)>>) = 1
  OBVIOUS
<1>4. sized \in Seq(Byte)
  BY <1>1, <1>3, PackBytes
<1>5. full \in Seq(Byte) /\ Len(full) = Len(sized) + Len(xs) * width /\ Extends(full, sized)
  BY <1>2, <1>4, PackBytes
<1>6. Extends(buffer, full) /\ Extends(buffer, sized)
  BY <1>1, <1>2, <1>4, <1>5, ExtendsTransitive
<1>7. PICK size : size = UnpackN(buffer, Len(before), 1, w)
  OBVIOUS
<1>8. size.value[1] = Len(xs) /\ size.pos = Len(sized)
  BY <1>1, <1>6, <1>7, UnpackSingle
<1>9. Len(xs) <= Len(xs) * width
  BY WidthsAre
<1>10. Len(xs) \in 0 .. Len(buffer)
  BY <1>4, <1>5, <1>6, <1>9, BytesOfBytes DEF Extends
<1>11. UnpackN(buffer, Len(sized), Len(xs), width) = Read(xs, Len(full))
  BY <1>2, <1>4, <1>6, UnpackPacked
<1> QED BY <1>1, <1>2, <1>7, <1>8, <1>10, <1>11 DEF LoadSized

\* A value that is not a variant, behind any buffer.
LEMMA PlainSaved ==
    ASSUME NEW before \in Seq(Byte), NEW v \in Ints \cup Strings \cup Vectors
    PROVE  /\ SavePlain(before, v) \in Seq(Byte)
           /\ Len(before) < Len(SavePlain(before, v))
           /\ Extends(SavePlain(before, v), before)
           /\ \A buffer \in Seq(Byte) :
                  Extends(buffer, SavePlain(before, v)) =>
                      LoadPlain(buffer, Len(before), v.type) = Read(v, Len(SavePlain(before, v)))
<1>1. IntWidth \in Widths /\ UnsignedWidth \in Widths /\ SizeWidth \in Widths /\ CharWidth \in Widths
  BY DEF Widths
<1>2. CASE v \in Ints
  <2>1. v.type = "int" /\ v.x \in Nat /\ v = [type |-> "int", x |-> v.x]
    BY <1>2 DEF Ints
  <2>2. SavePlain(before, v) = PackN(before, <<v.x>>, IntWidth)
    BY <2>1 DEF SavePlain
  <2>3. <<v.x>> \in Seq(Nat) /\ Len(<<v.x>>) = 1
    BY <2>1
  <2>4. /\ SavePlain(before, v) \in Seq(Byte)
        /\ Len(SavePlain(before, v)) = Len(before) + 1 * IntWidth
        /\ Extends(SavePlain(before, v), before)
    BY <1>1, <2>2, <2>3, PackBytes
  <2>5. ASSUME NEW buffer \in Seq(Byte), Extends(buffer, SavePlain(before, v))
        PROVE  LoadPlain(buffer, Len(before), v.type) = Read(v, Len(SavePlain(before, v)))
    <3>1. PICK int : int = UnpackN(buffer, Len(before), 1, IntWidth)
      OBVIOUS
    <3>2. int.value[1] = v.x /\ int.pos = Len(SavePlain(before, v))
      BY <1>1, <2>1, <2>2, <2>5, <3>1, UnpackSingle
    <3>3. LoadPlain(buffer, Len(before), "int")
          = Read([type |-> "int", x |-> int.value[1]], int.pos)
      BY <3>1 DEF LoadPlain, Read
    <3> QED BY <2>1, <3>2, <3>3
  <2> QED BY <2>4, <2>5 DEF IntWidth
<1>3. CASE v \in Strings
  <2>1. v.type = "string" /\ v.x \in Seq(Nat) /\ v = [type |-> "string", x |-> v.x]
    BY <1>3 DEF Strings
  <2>2. PICK sized : sized = PackN(before, <<Len(v.x)>>, SizeWidth)
    OBVIOUS
  <2>3. SavePlain(before, v) = PackN(sized, v.x, CharWidth)
    BY <2>1, <2>2 DEF SavePlain, SaveString
  <2>4. <<Len(v.x)>> \in Seq(Nat) /\ Len(<<Len(v.x)>>) = 1
    BY <2>1
  <2>5. sized \in Seq(Byte) /\ Len(sized) = Len(before) + 1 * SizeWidth /\ Extends(sized, before)
    BY <1>1, <2>2, <2>4, PackBytes
  <2>6. /\ SavePlain(before, v) \in Seq(Byte)
        /\ Len(SavePlain(before, v)) = Len(sized) + Len(v.x) * CharWidth
        /\ Extends(SavePlain(before, v), sized)
    BY <1>1, <2>1, <2>3, <2>5, PackBytes
  <2>7. Extends(SavePlain(before, v), before)
    BY <2>5, <2>6, ExtendsTransitive
  <2>8. ASSUME NEW buffer \in Seq(Byte), Extends(buffer, SavePlain(before, v))
        PROVE  LoadPlain(buffer, Len(before), v.type) = Read(v, Len(SavePlain(before, v)))
    <3>1. LoadString(buffer, Len(before)) = Read(v.x, Len(SavePlain(before, v)))
      BY <1>1, <2>1, <2>2, <2>3, <2>8, LoadSizedPacked DEF LoadString
    <3>2. LoadPlain(buffer, Len(before), "string")
          = Read([type |-> "string", x |-> LoadString(buffer, Len(before)).value],
                 LoadString(buffer, Len(before)).pos)
      BY DEF LoadPlain
    <3> QED BY <2>1, <3>1, <3>2 DEF Read
  <2> QED BY <2>1, <2>5, <2>6, <2>7, <2>8 DEF CharWidth, SizeWidth
<1>4. CASE v \in Vectors
  <2>1. v.type = "vector" /\ v.x \in Seq(Nat) /\ v = [type |-> "vector", x |-> v.x]
    BY <1>4 DEF Vectors
  <2>2. PICK sized : sized = PackN(before, <<Len(v.x)>>, UnsignedWidth)
    OBVIOUS
  <2>3. SavePlain(before, v) = PackN(sized, v.x, IntWidth)
    BY <2>1, <2>2 DEF SavePlain, SaveVector
  <2>4. <<Len(v.x)>> \in Seq(Nat) /\ Len(<<Len(v.x)>>) = 1
    BY <2>1
  <2>5. sized \in Seq(Byte) /\ Len(sized) = Len(before) + 1 * UnsignedWidth /\ Extends(sized, before)
    BY <1>1, <2>2, <2>4, PackBytes
  <2>6. /\ SavePlain(before, v) \in Seq(Byte)
        /\ Len(SavePlain(before, v)) = Len(sized) + Len(v.x) * IntWidth
        /\ Extends(SavePlain(before, v), sized)
    BY <1>1, <2>1, <2>3, <2>5, PackBytes
  <2>7. Extends(SavePlain(before, v), before)
    BY <2>5, <2>6, ExtendsTransitive
  <2>8. ASSUME NEW buffer \in Seq(Byte), Extends(buffer, SavePlain(before, v))
        PROVE  LoadPlain(buffer, Len(before), v.type) = Read(v, Len(SavePlain(before, v)))
    <3>1. LoadVector(buffer, Len(before)) = Read(v.x, Len(SavePlain(before, v)))
      BY <1>1, <2>1, <2>2, <2>3, <2>8, LoadSizedPacked DEF LoadVector
    <3>2. LoadPlain(buffer, Len(before), "vector")
          = Read([type |-> "vector", x |-> LoadVector(buffer, Len(before)).value],
                 LoadVector(buffer, Len(before)).pos)
      BY DEF LoadPlain
    <3> QED BY <2>1, <3>1, <3>2 DEF Read
  <2> QED BY <2>1, <2>5, <2>6, <2>7, <2>8 DEF IntWidth, UnsignedWidth
<1> QED BY <1>2, <1>3, <1>4

\* What a package holds is what was saved in it: every value comes back, and reading
\* ends where the next value begins.
THEOREM SavedIsLoaded ==
    ASSUME NEW before \in Seq(Byte), NEW v \in Serialized
    PROVE  SavedAs(before, Save(before, v), v)
<1>1. CASE v \notin Variants
  <2>1. v \in Ints \cup Strings \cup Vectors /\ v.type # "variant"
    BY <1>1 DEF Serialized, Ints, Strings, Vectors
  <2>2. Save(before, v) = SavePlain(before, v)
        /\ \A buffer, pos : Load(buffer, pos, v.type) = LoadPlain(buffer, pos, v.type)
    BY <2>1 DEF Save, Load
  <2> QED BY <2>1, <2>2, PlainSaved DEF SavedAs, LoadedFrom
<1>2. CASE v \in Variants
  <2>1. v.type = "variant" /\ v.x \in Ints \cup Strings /\ v = [type |-> "variant", x |-> v.x]
    BY <1>2 DEF Variants
  <2>2. PICK i \in {1, 2} : i = Index(v.x) /\ Alternatives[i] = v.x.type
    <3>1. Alternatives[1] = "int" /\ Alternatives[2] = "string" /\ DOMAIN Alternatives = {1, 2}
      BY DEF Alternatives
    <3>2. v.x.type \in {"int", "string"}
      BY <2>1 DEF Ints, Strings
    <3>3. \E i \in DOMAIN Alternatives : Alternatives[i] = v.x.type
      BY <3>1, <3>2
    <3>4. Index(v.x) \in DOMAIN Alternatives /\ Alternatives[Index(v.x)] = v.x.type
      BY <3>3 DEF Index
    <3> QED BY <3>1, <3>4
  <2>3. PICK tagged : tagged = PackN(before, <<i - 1>>, SizeWidth)
    OBVIOUS
  <2>4. SizeWidth \in Widths /\ i - 1 \in Nat /\ <<i - 1>> \in Seq(Nat) /\ Len(<<i - 1>>) = 1
    BY DEF Widths
  <2>5. tagged \in Seq(Byte) /\ Len(tagged) = Len(before) + 1 * SizeWidth /\ Extends(tagged, before)
    BY <2>3, <2>4, PackBytes
  <2>6. PICK full : full = SavePlain(tagged, v.x)
    OBVIOUS
  <2>7. Save(before, v) = full
    BY <2>1, <2>2, <2>3, <2>6 DEF Save, SaveVariant
  <2>8. /\ full \in Seq(Byte) /\ Len(tagged) < Len(full) /\ Extends(full, tagged)
        /\ \A buffer \in Seq(Byte) : Extends(buffer, full) =>
               LoadPlain(buffer, Len(tagged), v.x.type) = Read(v.x, Len(full))
    BY <2>1, <2>5, <2>6, PlainSaved
  <2>9. Extends(full, before)
    BY <2>5, <2>8, ExtendsTransitive
  <2>10. ASSUME NEW buffer \in Seq(Byte), Extends(buffer, full)
         PROVE  Load(buffer, Len(before), v.type) = Read(v, Len(full))
    <3>1. Extends(buffer, tagged)
      BY <2>5, <2>8, <2>10, ExtendsTransitive
    <3>2. PICK index : index = UnpackN(buffer, Len(before), 1, SizeWidth)
      OBVIOUS
    <3>3. index.value[1] = i - 1 /\ index.pos = Len(tagged)
      BY <2>3, <2>4, <3>1, <3>2, UnpackSingle
    <3>4. index.value[1] + 1 = i /\ i \in DOMAIN Alternatives
      BY <3>3 DEF Alternatives
    <3>5. LoadVariant(buffer, Len(before))
          = Read([type |-> "variant", x |-> LoadPlain(buffer, Len(tagged), v.x.type).value],
                 LoadPlain(buffer, Len(tagged), v.x.type).pos)
      BY <2>2, <3>2, <3>3, <3>4 DEF LoadVariant
    <3> QED BY <2>1, <2>8, <2>10, <3>5 DEF Load, Read
  <2> QED BY <2>5, <2>7, <2>8, <2>9, <2>10 DEF SavedAs, LoadedFrom, SizeWidth
<1> QED BY <1>1, <1>2
-----------------------------------------------------------------------------
(* Several values in one package.                                          *)

\* The package after each of the values.
SavedSoFar(saved, vs, N) ==
    saved[0] = <<>> /\ \A n \in 1 .. N : saved[n] = Save(saved[n - 1], vs[n])

LEMMA SaveAllSteps ==
    ASSUME NEW vs \in Seq(Serialized)
    PROVE  \E saved \in [0 .. Len(vs) -> Seq(Byte)] :
              SavedSoFar(saved, vs, Len(vs)) /\ SaveAll(vs) = saved[Len(vs)]
<1> DEFINE T == {N \in 0 .. Len(vs) : \E f \in [0 .. N -> Seq(Byte)] : SavedSoFar(f, vs, N)}
<1>0. Len(vs) \in Nat
  OBVIOUS
<1>1. 0 \in T
  <2>1. PICK f : f = [n \in 0 .. 0 |-> <<>>]
    OBVIOUS
  <2>2. f \in [0 .. 0 -> Seq(Byte)] /\ SavedSoFar(f, vs, 0)
    BY <2>1 DEF SavedSoFar
  <2>3. 0 \in 0 .. Len(vs)
    BY <1>0
  <2> QED BY <2>2, <2>3
<1>2. ASSUME NEW N \in T, N \in 0 .. Len(vs) - 1 PROVE N + 1 \in T
  <2>1. PICK f \in [0 .. N -> Seq(Byte)] : SavedSoFar(f, vs, N)
    OBVIOUS
  <2>2. PICK last : last = Save(f[N], vs[N + 1])
    OBVIOUS
  <2>3. vs[N + 1] \in Serialized /\ f[N] \in Seq(Byte)
    BY <1>2
  <2>4. last \in Seq(Byte)
    BY <2>2, <2>3, SavedIsLoaded DEF SavedAs
  <2>5. PICK g : g = [n \in 0 .. N + 1 |-> IF n = N + 1 THEN last ELSE f[n]]
    OBVIOUS
  <2>6. g \in [0 .. N + 1 -> Seq(Byte)]
    BY <2>4, <2>5
  <2>7. g[0] = <<>>
    BY <1>2, <2>1, <2>5 DEF SavedSoFar
  <2>8. ASSUME NEW n \in 1 .. N + 1 PROVE g[n] = Save(g[n - 1], vs[n])
    <3>1. CASE n = N + 1
      BY <3>1, <2>2, <2>5, <1>2
    <3>2. CASE n # N + 1
      <4>1. n \in 1 .. N /\ n - 1 \in 0 .. N
        BY <3>2, <1>2
      <4>2. g[n] = f[n] /\ g[n - 1] = f[n - 1]
        BY <4>1, <2>5, <1>2
      <4> QED BY <4>1, <4>2, <2>1 DEF SavedSoFar
    <3> QED BY <3>1, <3>2
  <2>9. SavedSoFar(g, vs, N + 1)
    BY <2>7, <2>8 DEF SavedSoFar
  <2>10. N + 1 \in 0 .. Len(vs)
    BY <1>0, <1>2
  <2> QED BY <2>6, <2>9, <2>10
<1>3. 0 .. Len(vs) \subseteq T
  <2> HIDE DEF T
  <2>1. Len(vs) \in Nat
    OBVIOUS
  <2> QED BY <1>1, <1>2, <2>1, UpTo
<1>4. PICK f \in [0 .. Len(vs) -> Seq(Byte)] : SavedSoFar(f, vs, Len(vs))
  BY <1>3
<1>5. PICK saved : saved = CHOOSE h : h = [n \in 0 .. Len(vs) |-> IF n = 0 THEN <<>> ELSE Save(h[n - 1], vs[n])]
  OBVIOUS
<1>6. f = [n \in 0 .. Len(vs) |-> IF n = 0 THEN <<>> ELSE Save(f[n - 1], vs[n])]
  BY <1>4 DEF SavedSoFar
<1>7. saved = [n \in 0 .. Len(vs) |-> IF n = 0 THEN <<>> ELSE Save(saved[n - 1], vs[n])]
  BY <1>5, <1>6
<1>8. SaveAll(vs) = saved[Len(vs)]
  BY Zenon, <1>5 DEF SaveAll
<1>9. SavedSoFar(saved, vs, Len(vs))
  BY <1>7 DEF SavedSoFar
<1> DEFINE S == {n \in 0 .. Len(vs) : saved[n] \in Seq(Byte)}
<1>10. 0 \in S
  <2>1. saved[0] \in Seq(Byte)
    BY <1>9 DEF SavedSoFar
  <2> QED BY <1>0, <2>1
<1>11. ASSUME NEW n \in S, n \in 0 .. Len(vs) - 1 PROVE n + 1 \in S
  <2>1. vs[n + 1] \in Serialized /\ saved[n] \in Seq(Byte)
    BY <1>11
  <2>2. Save(saved[n], vs[n + 1]) \in Seq(Byte)
    BY <2>1, SavedIsLoaded DEF SavedAs
  <2>3. n + 1 \in 1 .. Len(vs) /\ (n + 1) - 1 = n
    BY <1>11
  <2> QED BY <1>9, <2>2, <2>3 DEF SavedSoFar
<1>12. 0 .. Len(vs) \subseteq S
  <2> HIDE DEF S
  <2>1. Len(vs) \in Nat
    OBVIOUS
  <2> QED BY <1>10, <1>11, <2>1, UpTo
<1>13. saved \in [0 .. Len(vs) -> Seq(Byte)]
  BY <1>7, <1>12
<1> QED BY <1>8, <1>9, <1>13

\* The package only grows, and with every value.
LEMMA SavedGrows ==
    ASSUME NEW vs \in Seq(Serialized), NEW saved \in [0 .. Len(vs) -> Seq(Byte)],
           SavedSoFar(saved, vs, Len(vs)), NEW n \in 0 .. Len(vs)
    PROVE  /\ n <= Len(saved[n])
           /\ Extends(saved[Len(vs)], saved[n])
           /\ n > 0 => /\ Len(saved[n - 1]) < Len(saved[n])
                       /\ LoadedFrom(saved[n - 1], saved[n], vs[n])
<1>1. ASSUME NEW m \in 1 .. Len(vs)
      PROVE  SavedAs(saved[m - 1], saved[m], vs[m])
  <2>1. vs[m] \in Serialized /\ saved[m - 1] \in Seq(Byte)
    OBVIOUS
  <2> QED BY <2>1, SavedIsLoaded DEF SavedSoFar
<1> DEFINE S == {m \in 0 .. Len(vs) : m <= Len(saved[m])}
<1>2. 0 \in S
  OBVIOUS
<1>3. ASSUME NEW m \in S, m \in 0 .. Len(vs) - 1 PROVE m + 1 \in S
  <2>1. m + 1 \in 1 .. Len(vs) /\ (m + 1) - 1 = m
    BY <1>3
  <2>2. Len(saved[m]) < Len(saved[m + 1])
    BY <1>1, <2>1 DEF SavedAs
  <2>3. saved[m] \in Seq(Byte) /\ saved[m + 1] \in Seq(Byte)
    BY <2>1
  <2>4. Len(saved[m]) \in Nat /\ Len(saved[m + 1]) \in Nat /\ m <= Len(saved[m])
    BY <2>3
  <2>5. m + 1 <= Len(saved[m + 1])
    BY <2>2, <2>4
  <2> QED BY <2>1, <2>5
<1>4. Len(vs) \in Nat
  OBVIOUS
<1>5. 0 .. Len(vs) \subseteq S
  <2> HIDE DEF S
  <2> QED BY <1>2, <1>3, <1>4, UpTo
<1> DEFINE R == {k \in 0 .. Len(vs) - n : Extends(saved[n + k], saved[n])}
<1>6. 0 \in R
  <2>1. Extends(saved[n], saved[n])
    BY DEF Extends
  <2> QED BY <2>1
<1>7. ASSUME NEW k \in R, k \in 0 .. (Len(vs) - n) - 1 PROVE k + 1 \in R
  <2>1. PICK m \in 1 .. Len(vs) : m = n + k + 1 /\ m - 1 = n + k
    BY <1>7
  <2>2. Extends(saved[m], saved[m - 1])
    BY <1>1 DEF SavedAs
  <2>3. Extends(saved[m], saved[n])
    BY <2>1, <2>2, <1>7, ExtendsTransitive
  <2>4. n + (k + 1) = m /\ k + 1 \in 0 .. Len(vs) - n
    BY <2>1, <1>7
  <2> QED BY <2>3, <2>4
<1>8. PICK K \in Nat : K = Len(vs) - n
  <2>1. PICK L \in Nat : L = Len(vs)
    BY <1>4
  <2>2. L - n \in Nat
    BY <2>1
  <2> QED BY <2>1, <2>2
<1>9. K \in R
  <2> HIDE DEF R
  <2>1. \A k \in R : k \in 0 .. K - 1 => k + 1 \in R
    BY <1>7, <1>8
  <2>2. 0 .. K \subseteq R
    BY <1>6, <1>8, <2>1, UpTo
  <2> QED BY <1>8, <2>2
<1>10. Extends(saved[Len(vs)], saved[n])
  BY <1>8, <1>9
<1> QED BY <1>1, <1>5, <1>10 DEF SavedAs

\* One more value is read where it was saved.
LEMMA LoadNextSaved ==
    ASSUME NEW vs \in Seq(Serialized), NEW saved \in [0 .. Len(vs) -> Seq(Byte)],
           SavedSoFar(saved, vs, Len(vs)), NEW n \in 1 .. Len(vs)
    PROVE  LoadNext(saved[Len(vs)], vs[n].type, Read(SubSeq(vs, 1, n - 1), Len(saved[n - 1])))
           = Read(SubSeq(vs, 1, n), Len(saved[n]))
<1>1. Extends(saved[Len(vs)], saved[n]) /\ LoadedFrom(saved[n - 1], saved[n], vs[n])
  BY SavedGrows
<1>2. Load(saved[Len(vs)], Len(saved[n - 1]), vs[n].type) = Read(vs[n], Len(saved[n]))
  BY <1>1 DEF LoadedFrom
<1>3. Append(SubSeq(vs, 1, n - 1), vs[n]) = SubSeq(vs, 1, n)
  OBVIOUS
<1>4. PICK done : done = Read(SubSeq(vs, 1, n - 1), Len(saved[n - 1]))
  OBVIOUS
<1>5. done.value = SubSeq(vs, 1, n - 1) /\ done.pos = Len(saved[n - 1])
  BY <1>4 DEF Read
<1>6. LoadNext(saved[Len(vs)], vs[n].type, done)
      = Read(Append(done.value, Read(vs[n], Len(saved[n])).value), Read(vs[n], Len(saved[n])).pos)
  BY <1>2, <1>5 DEF LoadNext
<1>7. Read(vs[n], Len(saved[n])).value = vs[n] /\ Read(vs[n], Len(saved[n])).pos = Len(saved[n])
  BY DEF Read
<1> QED BY <1>3, <1>4, <1>5, <1>6, <1>7

\* Reading as many values as were saved gives them, in their order.
LEMMA LoadSomeSaved ==
    ASSUME NEW vs \in Seq(Serialized), NEW kind, \A n \in 1 .. Len(vs) : vs[n].type = kind,
           Len(vs) > 0
    PROVE  LoadN(SaveAll(vs), kind, Len(vs)) = Read(vs, Len(SaveAll(vs)))
<1>1. PICK saved \in [0 .. Len(vs) -> Seq(Byte)] :
              SavedSoFar(saved, vs, Len(vs)) /\ SaveAll(vs) = saved[Len(vs)]
  BY SaveAllSteps
<1>2. PICK buffer : buffer = SaveAll(vs)
  OBVIOUS
<1>3. PICK f : f = [n \in 0 .. Len(vs) |-> Read(SubSeq(vs, 1, n), Len(saved[n]))]
  OBVIOUS
<1>4. f[0] = Read(<<>>, 0)
  <2>1. SubSeq(vs, 1, 0) = <<>> /\ saved[0] = <<>> /\ Len(<<>>) = 0
    BY <1>1 DEF SavedSoFar
  <2>2. 0 \in 0 .. Len(vs)
    OBVIOUS
  <2> QED BY <1>3, <2>1, <2>2
<1>5. ASSUME NEW n \in 1 .. Len(vs) PROVE f[n] = LoadNext(buffer, kind, f[n - 1])
  <2>1. f[n - 1] = Read(SubSeq(vs, 1, n - 1), Len(saved[n - 1]))
        /\ f[n] = Read(SubSeq(vs, 1, n), Len(saved[n]))
    BY <1>3
  <2> QED BY <2>1, <1>1, <1>2, LoadNextSaved
<1>6. f = [n \in 0 .. Len(vs) |-> IF n = 0 THEN Read(<<>>, 0) ELSE LoadNext(buffer, kind, f[n - 1])]
  <2>1. f = [n \in 0 .. Len(vs) |-> f[n]]
    BY <1>3
  <2>2. \A n \in 0 .. Len(vs) : n # 0 => n \in 1 .. Len(vs)
    OBVIOUS
  <2>3. \A n \in 0 .. Len(vs) :
           f[n] = IF n = 0 THEN Read(<<>>, 0) ELSE LoadNext(buffer, kind, f[n - 1])
    BY <1>4, <1>5, <2>2
  <2> QED BY Zenon, <2>1, <2>3
<1>7. PICK loaded : loaded = CHOOSE h :
          h = [n \in 0 .. Len(vs) |-> IF n = 0 THEN Read(<<>>, 0) ELSE LoadNext(buffer, kind, h[n - 1])]
  OBVIOUS
<1>8. loaded = [n \in 0 .. Len(vs) |->
                   IF n = 0 THEN Read(<<>>, 0) ELSE LoadNext(buffer, kind, loaded[n - 1])]
  BY <1>6, <1>7
<1>9. (IF Len(vs) = 0 THEN 1 ELSE Len(vs)) = Len(vs)
  OBVIOUS
<1>10. LoadN(buffer, kind, Len(vs)) = loaded[Len(vs)]
  BY Zenon, <1>7, <1>9 DEF LoadN
<1> DEFINE S == {n \in 0 .. Len(vs) : loaded[n] = f[n]}
<1>11. 0 \in S
  BY <1>4, <1>8
<1>12. ASSUME NEW n \in S, n \in 0 .. Len(vs) - 1 PROVE n + 1 \in S
  <2>1. n + 1 \in 1 .. Len(vs) /\ (n + 1) - 1 = n /\ n + 1 # 0
    BY <1>12
  <2>2. loaded[n + 1] = LoadNext(buffer, kind, loaded[n])
    BY <1>8, <2>1
  <2>3. f[n + 1] = LoadNext(buffer, kind, f[n])
    BY <1>5, <2>1
  <2> QED BY <2>1, <2>2, <2>3
<1>13. 0 .. Len(vs) \subseteq S
  <2> HIDE DEF S
  <2>1. Len(vs) \in Nat
    OBVIOUS
  <2> QED BY <1>11, <1>12, <2>1, UpTo
<1>14. loaded[Len(vs)] = Read(SubSeq(vs, 1, Len(vs)), Len(saved[Len(vs)]))
  BY <1>3, <1>13
<1>15. SubSeq(vs, 1, Len(vs)) = vs
  OBVIOUS
<1> QED BY <1>1, <1>2, <1>10, <1>14, <1>15

\* Reading no values reads one, which is not there.
LEMMA LoadNone ==
    ASSUME NEW kind \in {"int", "string", "vector", "variant"}
    PROVE  SaveAll(<<>>) = <<>> /\ Overruns(<<>>, LoadN(<<>>, kind, 0))
<1>1. SaveAll(<<>>) = <<>>
  <2>0. <<>> \in Seq(Serialized) /\ Len(<<>>) = 0
    OBVIOUS
  <2>1. PICK vs \in Seq(Serialized) : vs = <<>> /\ Len(vs) = 0
    BY Zenon, <2>0
  <2>2. PICK saved \in [0 .. Len(vs) -> Seq(Byte)] :
              SavedSoFar(saved, vs, Len(vs)) /\ SaveAll(vs) = saved[Len(vs)]
    BY SaveAllSteps
  <2> QED BY <2>1, <2>2 DEF SavedSoFar
<1>2. ASSUME NEW width \in Widths
      PROVE  UnpackN(<<>>, 0, 1, width).value[1] = Garbage /\ UnpackN(<<>>, 0, 1, width).pos = width
  BY WidthsAre DEF UnpackN, UnpackOne, Read
<1>3. /\ IntWidth \in Widths /\ UnsignedWidth \in Widths /\ SizeWidth \in Widths
      /\ IntWidth = 4 /\ UnsignedWidth = 4 /\ SizeWidth = 8
  BY DEF Widths, IntWidth, UnsignedWidth, SizeWidth
<1>4. ASSUME NEW size, NEW width, size.value[1] = Garbage PROVE LoadSized(<<>>, size, width).pos = 1
  <2>1. Garbage \notin 0 .. Len(<<>>) /\ Len(<<>>) + 1 = 1
    BY DEF Garbage
  <2> QED BY <1>4, <2>1 DEF LoadSized, Read
<1>5. LoadString(<<>>, 0).pos = 1 /\ LoadVector(<<>>, 0).pos = 1
  BY <1>2, <1>3, <1>4 DEF LoadString, LoadVector
<1>6. kind # "variant" => LoadPlain(<<>>, 0, kind).pos > 0
  BY <1>2, <1>3, <1>5 DEF LoadPlain, Read
<1>7. LoadVariant(<<>>, 0).pos = 1
  <2>1. Garbage + 1 \notin DOMAIN Alternatives /\ Len(<<>>) + 1 = 1
    BY DEF Garbage, Alternatives
  <2>2. UnpackN(<<>>, 0, 1, SizeWidth).value[1] = Garbage
    BY <1>2, <1>3
  <2> QED BY <2>1, <2>2 DEF LoadVariant, Read
<1>8. Load(<<>>, 0, kind).pos > 0
  BY <1>6, <1>7 DEF Load
<1>9. LoadN(<<>>, kind, 0) = LoadNext(<<>>, kind, Read(<<>>, 0))
  <2>1. PICK start : start = Read(<<>>, 0)
    OBVIOUS
  <2>2. PICK next : next = LoadNext(<<>>, kind, start)
    OBVIOUS
  <2>3. PICK f : f = [n \in 0 .. 1 |-> IF n = 0 THEN start ELSE next]
    OBVIOUS
  <2>4. f[0] = start /\ f[1] = next
    BY <2>3
  <2>5. f = [n \in 0 .. 1 |-> IF n = 0 THEN start ELSE LoadNext(<<>>, kind, f[n - 1])]
    <3>1. ASSUME NEW n \in 0 .. 1
          PROVE  f[n] = IF n = 0 THEN start ELSE LoadNext(<<>>, kind, f[n - 1])
      <4>1. n = 0 \/ (n = 1 /\ n - 1 = 0)
        OBVIOUS
      <4> QED BY <2>2, <2>4, <4>1
    <3>2. f = [n \in 0 .. 1 |-> f[n]]
      BY <2>3
    <3> QED BY Zenon, <3>1, <3>2
  <2>6. PICK loaded : loaded = CHOOSE h :
            h = [n \in 0 .. 1 |-> IF n = 0 THEN start ELSE LoadNext(<<>>, kind, h[n - 1])]
    OBVIOUS
  <2>7. loaded = [n \in 0 .. 1 |-> IF n = 0 THEN start ELSE LoadNext(<<>>, kind, loaded[n - 1])]
    BY <2>5, <2>6
  <2>8. LoadN(<<>>, kind, 0) = loaded[1]
    BY Zenon, <2>1, <2>6 DEF LoadN
  <2>9. loaded[0] = start
    BY <2>7
  <2>10. loaded[1] = LoadNext(<<>>, kind, loaded[0])
    <3>1. 1 \in 0 .. 1 /\ 1 # 0 /\ 1 - 1 = 0
      OBVIOUS
    <3> QED BY <2>7, <3>1
  <2> QED BY <2>1, <2>8, <2>9, <2>10
<1>10. LoadNext(<<>>, kind, Read(<<>>, 0)).pos = Load(<<>>, 0, kind).pos
  BY DEF LoadNext, Read
<1> QED BY <1>1, <1>8, <1>9, <1>10 DEF Overruns

\* Reading the values of a package by their number (package_archive.hpp:312) gives them, in
\* their order, and nothing remains; of a package of no values the reading fails, whatever
\* the type.
THEOREM LoadNSaved ==
    ASSUME NEW vs \in Seq(Serialized), NEW kind \in {"int", "string", "vector", "variant"},
           \A n \in 1 .. Len(vs) : vs[n].type = kind
    PROVE  IF vs = <<>> THEN Overruns(SaveAll(vs), LoadN(SaveAll(vs), kind, Len(vs)))
           ELSE LoadN(SaveAll(vs), kind, Len(vs)) = Read(vs, Len(SaveAll(vs)))
<1>1. CASE vs = <<>>
  <2>1. Len(vs) = 0
    BY <1>1
  <2> QED BY <1>1, <2>1, LoadNone
<1>2. CASE vs # <<>>
  <2>1. Len(vs) > 0
    BY <1>2
  <2> QED BY <1>2, <2>1, LoadSomeSaved
<1> QED BY <1>1, <1>2

\* Reading until the package is at its end gives all values that were saved, and no
\* other: none leaves bytes behind, and none is empty.
THEOREM LoadWhileSaved ==
    ASSUME NEW vs \in Seq(Serialized), NEW kind, \A n \in 1 .. Len(vs) : vs[n].type = kind
    PROVE  LoadWhile(SaveAll(vs), kind) = Read(vs, Len(SaveAll(vs)))
<1>1. PICK saved \in [0 .. Len(vs) -> Seq(Byte)] :
              SavedSoFar(saved, vs, Len(vs)) /\ SaveAll(vs) = saved[Len(vs)]
  BY SaveAllSteps
<1>2. PICK buffer \in Seq(Byte) : buffer = SaveAll(vs)
  BY <1>1
<1>3. Len(vs) <= Len(buffer) /\ buffer = saved[Len(vs)]
  BY <1>1, <1>2, SavedGrows
<1>4. PICK f : f = [n \in 0 .. Len(buffer) |-> IF n <= Len(vs) THEN Read(SubSeq(vs, 1, n), Len(saved[n]))
                                               ELSE Read(vs, Len(buffer))]
  OBVIOUS
<1>5. f[0] = Read(<<>>, 0)
  <2>1. SubSeq(vs, 1, 0) = <<>> /\ saved[0] = <<>> /\ Len(<<>>) = 0
    BY <1>1 DEF SavedSoFar
  <2>2. 0 \in 0 .. Len(buffer) /\ 0 <= Len(vs)
    OBVIOUS
  <2> QED BY <1>4, <2>1, <2>2
<1>6. SubSeq(vs, 1, Len(vs)) = vs
  OBVIOUS
<1>7. ASSUME NEW n \in 1 .. Len(buffer) PROVE f[n] = LoadMore(buffer, kind, f[n - 1])
  <2>1. CASE n <= Len(vs)
    <3>1. /\ n \in 1 .. Len(vs) /\ n \in 0 .. Len(vs) /\ n > 0 /\ n - 1 \in 0 .. Len(vs)
          /\ n - 1 \in 0 .. Len(buffer) /\ n - 1 <= Len(vs)
      BY <2>1
    <3>2. f[n - 1] = Read(SubSeq(vs, 1, n - 1), Len(saved[n - 1]))
          /\ f[n] = Read(SubSeq(vs, 1, n), Len(saved[n]))
      BY <1>4, <2>1, <3>1
    <3>3. More(buffer, f[n - 1].pos)
      <4>1. Len(saved[n - 1]) < Len(saved[n]) /\ Extends(buffer, saved[n])
        BY <1>1, <1>3, <3>1, SavedGrows
      <4>2. saved[n] \in Seq(Byte) /\ saved[n - 1] \in Seq(Byte)
        BY <3>1
      <4>3. Len(saved[n - 1]) < Len(buffer)
        BY <4>1, <4>2 DEF Extends
      <4> QED BY <3>2, <4>3 DEF Read, More
    <3>4. LoadNext(buffer, kind, f[n - 1]) = f[n]
      BY <1>1, <1>3, <3>1, <3>2, LoadNextSaved
    <3> QED BY <3>3, <3>4 DEF LoadMore
  <2>2. CASE n > Len(vs)
    <3>1. n - 1 \in 0 .. Len(buffer) /\ n - 1 >= Len(vs)
      BY <2>2
    <3>2. f[n - 1] = Read(vs, Len(buffer))
      <4>1. CASE n - 1 = Len(vs)
        BY <1>3, <1>4, <1>6, <3>1, <4>1
      <4>2. CASE n - 1 > Len(vs)
        BY <1>4, <3>1, <4>2
      <4> QED BY <3>1, <4>1, <4>2
    <3>3. f[n] = Read(vs, Len(buffer))
      BY <1>4, <2>2
    <3>4. ~More(buffer, f[n - 1].pos)
      BY <3>2 DEF Read, More
    <3> QED BY <3>2, <3>3, <3>4 DEF LoadMore
  <2> QED BY <2>1, <2>2
<1>8. f = [n \in 0 .. Len(buffer) |-> IF n = 0 THEN Read(<<>>, 0) ELSE LoadMore(buffer, kind, f[n - 1])]
  <2>1. f = [n \in 0 .. Len(buffer) |-> f[n]]
    BY <1>4
  <2>2. \A n \in 0 .. Len(buffer) : n # 0 => n \in 1 .. Len(buffer)
    OBVIOUS
  <2>3. \A n \in 0 .. Len(buffer) :
           f[n] = IF n = 0 THEN Read(<<>>, 0) ELSE LoadMore(buffer, kind, f[n - 1])
    BY <1>5, <1>7, <2>2
  <2> QED BY Zenon, <2>1, <2>3
<1>9. PICK loaded : loaded = CHOOSE h :
          h = [n \in 0 .. Len(buffer) |-> IF n = 0 THEN Read(<<>>, 0) ELSE LoadMore(buffer, kind, h[n - 1])]
  OBVIOUS
<1>10. loaded = [n \in 0 .. Len(buffer) |->
                    IF n = 0 THEN Read(<<>>, 0) ELSE LoadMore(buffer, kind, loaded[n - 1])]
  BY <1>8, <1>9
<1>11. LoadWhile(buffer, kind) = loaded[Len(buffer)]
  BY Zenon, <1>9 DEF LoadWhile
<1> DEFINE S == {n \in 0 .. Len(buffer) : loaded[n] = f[n]}
<1>12. 0 \in S
  BY <1>5, <1>10
<1>13. ASSUME NEW n \in S, n \in 0 .. Len(buffer) - 1 PROVE n + 1 \in S
  <2>1. n + 1 \in 1 .. Len(buffer) /\ (n + 1) - 1 = n /\ n + 1 # 0
    BY <1>13
  <2>2. loaded[n + 1] = LoadMore(buffer, kind, loaded[n])
    BY <1>10, <2>1
  <2>3. f[n + 1] = LoadMore(buffer, kind, f[n])
    BY <1>7, <2>1
  <2> QED BY <2>1, <2>2, <2>3
<1>14. Len(buffer) \in Nat
  OBVIOUS
<1>15. 0 .. Len(buffer) \subseteq S
  <2> HIDE DEF S
  <2> QED BY <1>12, <1>13, <1>14, UpTo
<1>16. loaded[Len(buffer)] = Read(vs, Len(buffer))
  <2>1. loaded[Len(buffer)] = f[Len(buffer)]
    BY <1>14, <1>15
  <2>2. f[Len(buffer)] = Read(vs, Len(buffer))
    <3>1. Len(buffer) \in 0 .. Len(buffer)
      BY <1>14
    <3>2. CASE Len(buffer) = Len(vs)
      BY <1>3, <1>4, <1>6, <3>1, <3>2
    <3>3. CASE Len(buffer) > Len(vs)
      BY <1>4, <3>1, <3>3
    <3> QED BY <1>3, <1>14, <3>2, <3>3
  <2> QED BY <2>1, <2>2
<1> QED BY <1>2, <1>11, <1>16
-----------------------------------------------------------------------------
(* Sequences, of whatever, and sets of places in them.                     *)

IsSeq(f) == Len(f) \in Nat /\ f = [i \in 1 .. Len(f) |-> f[i]]

LEMMA InSomeSeq ==
    ASSUME NEW f, IsSeq(f)
    PROVE  \E S : f \in Seq(S)
<1>1. PICK n \in Nat : n = Len(f)
  BY DEF IsSeq
<1>2. PICK S : S = {f[i] : i \in 1 .. n}
  OBVIOUS
<1>3. f \in [1 .. n -> S]
  BY <1>1, <1>2 DEF IsSeq
<1>4. f \in Seq(S)
  BY <1>3
<1> QED BY <1>4

LEMMA SeqIs ==
    ASSUME NEW S, NEW f \in Seq(S)
    PROVE  IsSeq(f) /\ DOMAIN f = 1 .. Len(f) /\ (f = <<>> <=> Len(f) = 0)
BY DEF IsSeq

LEMMA Empty == IsSeq(<<>>) /\ Len(<<>>) = 0 /\ DOMAIN <<>> = {}
BY DEF IsSeq

LEMMA SeqShape ==
    ASSUME NEW f, IsSeq(f)
    PROVE  Len(f) \in Nat /\ DOMAIN f = 1 .. Len(f) /\ (f = <<>> <=> Len(f) = 0)
<1>1. PICK S : f \in Seq(S)
  BY InSomeSeq
<1> QED BY <1>1, SeqIs

LEMMA AppendIs ==
    ASSUME NEW f, IsSeq(f), NEW x
    PROVE  /\ IsSeq(Append(f, x)) /\ Len(Append(f, x)) = Len(f) + 1
           /\ DOMAIN Append(f, x) = 1 .. Len(f) + 1
           /\ \A i \in 1 .. Len(f) : Append(f, x)[i] = f[i]
           /\ Append(f, x)[Len(f) + 1] = x
<1>1. PICK S : f \in Seq(S)
  BY InSomeSeq
<1>2. PICK R : R = S \cup {x}
  OBVIOUS
<1>3. f \in Seq(R) /\ x \in R
  BY <1>1, <1>2
<1>4. PICK g : g = Append(f, x)
  OBVIOUS
<1>5. g \in Seq(R) /\ Len(g) = Len(f) + 1 /\ Len(f) \in Nat
  BY <1>3, <1>4
<1>6. /\ \A i \in 1 .. Len(f) : g[i] = f[i]
      /\ g[Len(f) + 1] = x
  BY <1>3, <1>4
<1>7. IsSeq(g) /\ DOMAIN g = 1 .. Len(f) + 1
  BY <1>5, SeqIs
<1> QED BY <1>4, <1>5, <1>6, <1>7

LEMMA TailIs ==
    ASSUME NEW f, IsSeq(f), f # <<>>
    PROVE  /\ Len(f) > 0 /\ Head(f) = f[1]
           /\ IsSeq(Tail(f)) /\ Len(Tail(f)) = Len(f) - 1
           /\ DOMAIN Tail(f) = 1 .. Len(f) - 1
           /\ \A i \in 1 .. Len(f) - 1 : Tail(f)[i] = f[i + 1]
<1>1. PICK S : f \in Seq(S)
  BY InSomeSeq
<1>2. PICK g : g = Tail(f)
  OBVIOUS
<1>3. Len(f) > 0 /\ Len(f) \in Nat /\ Head(f) = f[1]
  BY <1>1
<1>4. g \in Seq(S) /\ Len(g) = Len(f) - 1
  BY <1>1, <1>2
<1>5. \A i \in 1 .. Len(f) - 1 : g[i] = f[i + 1]
  BY <1>1, <1>2
<1>6. IsSeq(g) /\ DOMAIN g = 1 .. Len(f) - 1
  BY <1>4, SeqIs
<1> QED BY <1>2, <1>3, <1>4, <1>5, <1>6
==============================================================================
