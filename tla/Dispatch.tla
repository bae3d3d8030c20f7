------------------------------- MODULE Dispatch -------------------------------
(***************************************************************************)
(* Which overload a call with a container's iterators reaches, and so in   *)
(* which form its values travel: as a message of basic values, or as a     *)
(* package (communicator.hpp, detail/iterator_traits.hpp,                  *)
(* detail/value_traits.hpp).  An overload is [it, val, to]: the weakest    *)
(* iterator and value category it accepts, and the form or the call it     *)
(* goes on to.                                                             *)
(***************************************************************************)
EXTENDS Naturals

\* The categories, each a base of the next one, by how much they refine.
Iterators == [input |-> 1, forward |-> 2, random_access |-> 3, contiguous |-> 4]
Categories == [unspecified |-> 1, basic |-> 2]

Overload(it, val, to) == [it |-> it, val |-> val, to |-> to]

\* A form that no call reaches: the call does not compile.
NoForm == "none"

\* The overload that is at least as good as all that accept the arguments, in both of
\* them: if there is none, or none is the best, the call does not compile.
Chosen(overloads, it, val) ==
    LET Viable == {o \in overloads :
                      Iterators[o.it] <= Iterators[it] /\ Categories[o.val] <= Categories[val]}
        Best == {o \in Viable : \A p \in Viable :
                    Iterators[p.it] <= Iterators[o.it] /\ Categories[p.val] <= Categories[o.val]}
    IN  IF Best = {} THEN NoForm ELSE (CHOOSE o \in Best : TRUE).to
-----------------------------------------------------------------------------
(* send(first, last), send_n(first, n), isend and isend_n.                 *)

SendNForm(it, val) ==
    Chosen({Overload("contiguous", "basic", "message"),
            Overload("forward", "unspecified", "package")}, it, val)

\* Basic values that are not contiguous are copied into a vector first.
SendForm(it, val) ==
    LET to == Chosen({Overload("random_access", "unspecified", "send_n"),
                      Overload("contiguous", "basic", "send_n"),
                      Overload("input", "basic", "message"),
                      Overload("input", "unspecified", "package")}, it, val)
    IN  IF to = "send_n" THEN SendNForm(it, val) ELSE to

IsendForm(it, val) ==
    LET to == Chosen({Overload("random_access", "unspecified", "isend_n")}, it, val)
    IN  IF to = "isend_n" THEN SendNForm(it, val) ELSE to

IssendNForm(it, val) == Chosen({Overload("contiguous", "basic", "message")}, it, val)
BsendInitNForm(it, val) == Chosen({Overload("contiguous", "basic", "message")}, it, val)

\* bsend_init(first, last) loses the request that it makes: only bsend_init_n is of use.
\* bsend, ssend, rsend and ibsend go to send_category, which has no definition.
BsendInitForm(it, val) == NoForm
ModeForm(it, val) == NoForm

\* send_value, and world[dest] << value: a range of one value.
SendValueForm(it, val) == SendForm("contiguous", val)

\* The base class's send_n, which sends the bytes of a package.
BaseSendNForm(it, val) == Chosen({Overload("contiguous", "basic", "message")}, it, val)
SendPackedForm == BaseSendNForm("contiguous", "basic")

\* package::pack(first, last): its fifth argument rules the overload for input iterators
\* out, the one that test/communicator_pack.cpp would take.
PackForm(it, val) ==
    LET to == Chosen({Overload("random_access", "unspecified", "pack_n")}, it, val)
    IN  IF to = "pack_n" THEN Chosen({Overload("contiguous", "basic", "pack")}, it, val) ELSE to
-----------------------------------------------------------------------------
(* receive(first, last), receive_n(first, n), ireceive and receive(first). *)

ReceiveNForm(it, val) ==
    Chosen({Overload("contiguous", "basic", "message"),
            Overload("forward", "unspecified", "package")}, it, val)

\* Basic values that are not contiguous are received in a buffer first.
ReceiveForm(it, val) ==
    LET to == Chosen({Overload("random_access", "unspecified", "receive_n"),
                      Overload("contiguous", "basic", "receive_n"),
                      Overload("forward", "basic", "message")}, it, val)
    IN  IF to = "receive_n" THEN ReceiveNForm(it, val) ELSE to

IreceiveForm(it, val) ==
    LET to == Chosen({Overload("random_access", "unspecified", "ireceive_n")}, it, val)
    IN  IF to = "ireceive_n" THEN Chosen({Overload("contiguous", "basic", "message")}, it, val)
        ELSE to

\* The last overload calls receive_n without a count and compiles for nothing.
ReceiveToForm(it, val) ==
    Chosen({Overload("contiguous", "basic", "message"),
            Overload("forward", "unspecified", "package"),
            Overload("forward", "basic", NoForm)}, it, val)

\* dynamic_receive(first) asks for a datatype and for an address.
DynamicReceiveForm(it, val) == Chosen({Overload("contiguous", "basic", "message")}, it, val)

\* world[source] >> value.
ReceiveValueForm(it, val) == ReceiveNForm("contiguous", val)
-----------------------------------------------------------------------------
(* send_receive and send_receive_replace, and their _n forms.              *)

\* One range of n values; the address of a deque's values is asked for in vain.
SendReceiveReplaceNForm(it, val) ==
    Chosen({Overload("contiguous", "basic", "message"),
            Overload("random_access", "basic", NoForm),
            Overload("forward", "unspecified", "package"),
            Overload("forward", "basic", "message")}, it, val)

\* send_receive_n of one range replaces its values.
SendReceiveInPlaceForm(it, val) == SendReceiveReplaceNForm(it, val)

\* Two ranges, of n values.
SendReceiveNForm(it, val) == Chosen({Overload("contiguous", "basic", "message")}, it, val)

\* Two ranges.
SendReceiveForm(it, val) ==
    LET to == Chosen({Overload("random_access", "unspecified", "send_receive_n")}, it, val)
    IN  IF to = "send_receive_n" THEN SendReceiveNForm(it, val) ELSE to

\* One range: send_receive_replace(first, last) and send_receive(first, last, dest).
SendReceiveReplaceForm(it, val) ==
    LET to == Chosen({Overload("contiguous", "basic", "replace_n"),
                      Overload("forward", "basic", "message"),
                      Overload("random_access", "unspecified", "replace_n")}, it, val)
    IN  IF to = "replace_n" THEN SendReceiveReplaceNForm(it, val) ELSE to
-----------------------------------------------------------------------------
\* The forms in which values of each category travel by a call, from some container.
Forms(Form(_, _)) ==
    [category \in DOMAIN Categories |-> {Form(it, category) : it \in DOMAIN Iterators}]
=============================================================================
