------------------------------- MODULE Packages -------------------------------
(***************************************************************************)
(* Packages: how values are packed into a buffer of bytes and unpacked     *)
(* from it (detail/package.hpp, detail/basic_communicator.hpp), and how    *)
(* the archives of package_archive.hpp take them apart.  Pure functions.   *)
(* A byte is named by the object it is part of, its place in the object    *)
(* and the object's width: bytes that are read as an object of another     *)
(* width, or from another place, give no value.                            *)
(***************************************************************************)
EXTENDS Integers, Sequences

\* The widths of int, unsigned, size_t and char.
IntWidth == 4
UnsignedWidth == 4
SizeWidth == 8
CharWidth == 1

\* What is read where there is no object of the right width.
Garbage == -1

\* The state of reading: a position and the value read last, as package::pos is
\* advanced by each unpack.
Read(value, pos) == [value |-> value, pos |-> pos]
-----------------------------------------------------------------------------
(* basic_communicator::pack_n and unpack_n.                                *)

\* Values one after the other, each in as many bytes as its width.
BytesOf(xs, width) ==
    [k \in 1 .. Len(xs) * width |-> <<xs[((k - 1) \div width) + 1], ((k - 1) % width) + 1, width>>]

\* The buffer grows by what the values need, and they are put where it ended.
PackN(buffer, xs, width) == buffer \o BytesOf(xs, width)

UnpackOne(buffer, pos, width) ==
    IF pos + width <= Len(buffer)
       /\ SubSeq(buffer, pos + 1, pos + width) = BytesOf(<<buffer[pos + 1][1]>>, width)
    THEN buffer[pos + 1][1] ELSE Garbage

UnpackN(buffer, pos, count, width) ==
    Read([i \in 1 .. count |-> UnpackOne(buffer, pos + (i - 1) * width, width)],
         pos + count * width)

\* Reading beyond the end of the buffer, MPI_Unpack gives an error, which is thrown.
Overruns(buffer, read) == read.pos > Len(buffer)

\* package::operator bool: there is something left to read.
More(buffer, pos) == pos < Len(buffer)
-----------------------------------------------------------------------------
(* package_oarchive and package_iarchive.  A value is [type, x]: an int, a *)
(* string, a vector of ints or a variant of an int and a string.  The      *)
(* metadata of Boost.Serialization (versions, tracking, classes) take no   *)
(* bytes.                                                                  *)

SaveString(buffer, chars) == PackN(PackN(buffer, <<Len(chars)>>, SizeWidth), chars, CharWidth)

\* The size of a collection is saved as an unsigned int.
SaveVector(buffer, xs) == PackN(PackN(buffer, <<Len(xs)>>, UnsignedWidth), xs, IntWidth)

SavePlain(buffer, v) ==
    CASE v.type = "int" -> PackN(buffer, <<v.x>>, IntWidth)
      [] v.type = "string" -> SaveString(buffer, v.x)
      [] v.type = "vector" -> SaveVector(buffer, v.x)

\* A variant: the index of the alternative, then the alternative.
Alternatives == <<"int", "string">>
Index(v) == CHOOSE i \in DOMAIN Alternatives : Alternatives[i] = v.type
SaveVariant(buffer, v) == SavePlain(PackN(buffer, <<Index(v.x) - 1>>, SizeWidth), v.x)

Save(buffer, v) == IF v.type = "variant" THEN SaveVariant(buffer, v) ELSE SavePlain(buffer, v)

\* package_oarchive::iterator: each assignment saves a value.
SaveAll(vs) ==
    LET saved[n \in 0 .. Len(vs)] == IF n = 0 THEN <<>> ELSE Save(saved[n - 1], vs[n])
    IN  saved[Len(vs)]

\* An object of size elements that follow its size; a size that is none gives none.
LoadSized(buffer, size, width) ==
    IF size.value[1] \in 0 .. Len(buffer)
    THEN UnpackN(buffer, size.pos, size.value[1], width)
    ELSE Read(<<Garbage>>, Len(buffer) + 1)

LoadString(buffer, pos) == LoadSized(buffer, UnpackN(buffer, pos, 1, SizeWidth), CharWidth)

LoadVector(buffer, pos) == LoadSized(buffer, UnpackN(buffer, pos, 1, UnsignedWidth), IntWidth)

LoadPlain(buffer, pos, type) ==
    LET int == UnpackN(buffer, pos, 1, IntWidth)
        read == CASE type = "int" -> Read(int.value[1], int.pos)
                  [] type = "string" -> LoadString(buffer, pos)
                  [] type = "vector" -> LoadVector(buffer, pos)
    IN  Read([type |-> type, x |-> read.value], read.pos)

LoadVariant(buffer, pos) ==
    LET index == UnpackN(buffer, pos, 1, SizeWidth)
        read == IF index.value[1] + 1 \in DOMAIN Alternatives
                THEN LoadPlain(buffer, index.pos, Alternatives[index.value[1] + 1])
                ELSE Read([type |-> "int", x |-> Garbage], Len(buffer) + 1)
    IN  Read([type |-> "variant", x |-> read.value], read.pos)

Load(buffer, pos, type) ==
    IF type = "variant" THEN LoadVariant(buffer, pos) ELSE LoadPlain(buffer, pos, type)

\* One more value, read where the last one ended.
LoadNext(buffer, type, done) ==
    LET read == Load(buffer, done.pos, type)
    IN  Read(Append(done.value, read.value), read.pos)

\* std::copy_n from a package_iarchive::iterator: the iterator reads a value when it
\* is made, whether or not one is copied, and the next ones as it is advanced.
LoadN(buffer, type, count) ==
    LET loaded[n \in 0 .. (IF count = 0 THEN 1 ELSE count)] ==
            IF n = 0 THEN Read(<<>>, 0) ELSE LoadNext(buffer, type, loaded[n - 1])
    IN  loaded[IF count = 0 THEN 1 ELSE count]

\* while(p) {pia >> *dest++;}
LoadMore(buffer, type, done) ==
    IF More(buffer, done.pos) THEN LoadNext(buffer, type, done) ELSE done

LoadWhile(buffer, type) ==
    LET loaded[n \in 0 .. Len(buffer)] ==
            IF n = 0 THEN Read(<<>>, 0) ELSE LoadMore(buffer, type, loaded[n - 1])
    IN  loaded[Len(buffer)]
=============================================================================
