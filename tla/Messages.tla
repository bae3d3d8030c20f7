------------------------------- MODULE Messages -------------------------------
(***************************************************************************)
(* Point-to-point messages (communicator.hpp): several ranks send, one     *)
(* receives.  A message of basic values is sent from the memory of the     *)
(* program, or from a copy of it; one of other values from a package.  MPI *)
(* may take a message out of the sender's memory when it is posted, or     *)
(* only when the receiver asks for it: until then the memory must neither  *)
(* change nor go away.  The receiver matches a message first, when it does *)
(* not know the size, and receives it into a buffer of that size.  A       *)
(* message of basic values and a package of them consist of the same       *)
(* bytes, and MPI lets either be received as the other.                    *)
(***************************************************************************)
EXTENDS Packages, Dispatch, FiniteSets, SequencesExt

CONSTANTS
    Senders,      \* the ranks that send; another one receives
    Plans,        \* the series of messages that a sender may be given, of numbers
    Types         \* "basic", the types of Packages that are serialized, and "packed": numbers
                  \* that the program packs into a package of its own

ASSUME PlansAssumption ==
    /\ Plans \subseteq Seq(Seq(Nat)) /\ \A series \in Plans : Len(series) > 0
    /\ Types \subseteq {"basic", "int", "string", "vector", "variant", "packed"}

VARIABLES
    type,      \* the type of all values
    plan,      \* the numbers that each message of each sender has the values of
    posted,    \* how many messages each sender posted
    at,        \* where each sender is: "idle", in a blocking "send", at the "end"
    memory,    \* the memory of each message: what it holds, or Freed
    channel,   \* messages that were posted and not yet matched, in order
    receives,  \* immediate receives that are posted, in order
    matched,   \* the message matched by a probe: one or none
    package,   \* the receiver's own package: its bytes, and the position of reading
    unread,    \* the messages that were added to it and not unpacked, in order
    got        \* what was received from each sender, in order

own == <<package, unread>>
vars == <<type, plan, posted, at, memory, channel, receives, matched, own, got>>

Match == Head(matched)

\* Memory that is there holds one thing, memory that was freed none.
Holding(contents) == <<contents>>
Freed == <<>>

Unread(s) == {i \in DOMAIN unread : unread[i].source = s}

TypeOK ==
    /\ type \in Types
    /\ \A s \in Senders :
          /\ plan[s] \in Plans /\ posted[s] \in 0 .. Len(plan[s])
          /\ at[s] \in {"idle", "send", "end"}
          /\ Len(channel[s]) + (IF matched # <<>> /\ Match.source = s THEN 1 ELSE 0)
             + Cardinality(Unread(s)) + Len(got[s]) = posted[s]
          /\ Len(memory[s]) = posted[s]

Init ==
    /\ type \in Types
    /\ plan \in [Senders -> Plans]
    /\ posted = [s \in Senders |-> 0] /\ at = [s \in Senders |-> "idle"]
    /\ memory = [s \in Senders |-> <<>>]
    /\ channel = [s \in Senders |-> <<>>] /\ got = [s \in Senders |-> <<>>]
    /\ receives = <<>> /\ matched = <<>>
    /\ package = [bytes |-> <<>>, pos |-> 0] /\ unread = <<>>
-----------------------------------------------------------------------------
(* MPI: a message is its data, if MPI has taken them, or else a place in   *)
(* the sender's memory.                                                    *)

Category == IF type = "basic" THEN "basic" ELSE "unspecified"
Packed == IF type = "basic" THEN "int" ELSE type

\* The calls by which values of the type travel in some form.
By(forms, form) == type # "packed" /\ form \in forms[Category]

\* The value of the type that a number stands for.
Sample(n) ==
    CASE type \in {"basic", "int", "packed"} -> n
      [] type \in {"string", "vector"} -> [i \in 1 .. n |-> n]
      [] type = "variant" -> IF n = 1 THEN [type |-> "int", x |-> n]
                             ELSE [type |-> "string", x |-> [i \in 1 .. n |-> n]]
Values(ns) == [i \in DOMAIN ns |-> Sample(ns[i])]

\* The bytes of a message of these values: basic ones are ints.
Contents(ns, form) ==
    IF form = "message" \/ type = "packed" THEN PackN(<<>>, ns, IntWidth)
    ELSE SaveAll([i \in DOMAIN ns |-> [type |-> Packed, x |-> Sample(ns[i])]])

\* MPI may take the data at once: whether it does is one of taking.  The memory is kept
\* by the call or the program, or else is gone when the call returns.
Post(s, form, taking, state, kept) ==
    LET m == posted[s] + 1
        contents == Contents(plan[s][m], form)
    IN  /\ at[s] = "idle" /\ m <= Len(plan[s])
        /\ posted' = [posted EXCEPT ![s] = m]
        /\ at' = [at EXCEPT ![s] = state]
        /\ memory' = [memory EXCEPT ![s] = Append(@, IF kept THEN Holding(contents) ELSE Freed)]
        /\ \E taken \in taking :
              channel' = [channel EXCEPT ![s] =
                  Append(@, [source |-> s, index |-> m, size |-> Len(contents),
                             kept |-> kept, taken |-> taken,
                             data |-> IF taken THEN Holding(contents) ELSE Freed])]
        /\ UNCHANGED <<type, plan, receives, matched, got, own>>

Data(message) ==
    IF message.taken THEN message.data ELSE memory[message.source][message.index]

\* Messages that MPI still has to take out of s's memory.
Untaken(s) ==
    {channel[s][i].index : i \in {j \in DOMAIN channel[s] : ~channel[s][j].taken}}
    \cup (IF matched # <<>> /\ Match.source = s /\ ~Match.taken THEN {Match.index} ELSE {})

\* A receive of named or any source takes the first message of the source; one that
\* an immediate receive posted before would take is left to it.
Awaits(s) == {i \in DOMAIN receives : receives[i].source = s}
First(s) == Head(channel[s])
Unqueue(s) == channel' = [channel EXCEPT ![s] = Tail(@)]
-----------------------------------------------------------------------------
(* Sending.                                                                *)

SendForms ==
    [category \in DOMAIN Categories |->
        UNION {Forms(SendForm)[category], Forms(SendValueForm)[category],
               Forms(SendNForm)[category]}]
IsendForms == Forms(IsendForm)
IssendForms == Forms(IssendNForm)
PackForms == Forms(PackForm)
BsendForms == Forms(BsendInitNForm)

\* send_n of basic contiguous values: MPI_Send of the program's memory or of a copy.
SendBasic(s) == By(SendForms, "message") /\ Post(s, "message", BOOLEAN, "send", TRUE)

\* isend_n and issend_n of such values: the program keeps them until it waits.  A
\* synchronous message is taken when it is matched, one of a buffered send, started
\* from bsend_init_n, at once.
IsendBasic(s) ==
    By(IsendForms, "message") /\ Post(s, "message", BOOLEAN, "idle", TRUE)
IssendBasic(s) ==
    By(IssendForms, "message") /\ Post(s, "message", {FALSE}, "idle", TRUE)
BsendBasic(s) ==
    By(BsendForms, "message") /\ Post(s, "message", {TRUE}, "idle", TRUE)

\* send_n of other values, or of a list: a package that lives as long as the call.
SendPackage(s) == By(SendForms, "package") /\ Post(s, "package", BOOLEAN, "send", TRUE)

\* isend_n of other values, or of a list: the package is destroyed as the request is returned.
IsendPackage(s) ==
    By(IsendForms, "package") /\ Post(s, "package", BOOLEAN, "idle", FALSE)

\* package::send: numbers that the program packed, from contiguous containers, are sent
\* as elements of MPI_PACKED.
SendOwnPackage(s) ==
    /\ type = "packed" /\ "pack" \in PackForms["basic"] /\ SendPackedForm = "message"
    /\ Post(s, "package", BOOLEAN, "send", TRUE)

\* send_packed_n: the same, of a buffer that the program packed.
SendPackedN(s) == type = "packed" /\ Post(s, "package", BOOLEAN, "send", TRUE)

\* Mutant: a send returns whether or not the message was taken.
ReturnAtOnce(s) ==
    /\ at[s] = "send"
    /\ at' = [at EXCEPT ![s] = "idle"]
    /\ memory' = [memory EXCEPT ![s][posted[s]] = Freed]
    /\ UNCHANGED <<type, plan, posted, channel, receives, matched, got, own>>

\* MPI_Send returns when the message was taken; the copy in a vector or a package is
\* destroyed, and the program may reuse its own memory.
Return(s) ==
    /\ at[s] = "send" /\ posted[s] \notin Untaken(s)
    /\ at' = [at EXCEPT ![s] = "idle"]
    /\ memory' = [memory EXCEPT ![s][posted[s]] = Freed]
    /\ UNCHANGED <<type, plan, posted, channel, receives, matched, got, own>>

\* The sender waits for its requests, and its memory goes away.
WaitSends(s) ==
    /\ at[s] = "idle" /\ posted[s] = Len(plan[s]) /\ Untaken(s) = {}
    /\ at' = [at EXCEPT ![s] = "end"]
    /\ memory' = [memory EXCEPT ![s] = [m \in DOMAIN @ |-> Freed]]
    /\ UNCHANGED <<type, plan, posted, channel, receives, matched, got, own>>
-----------------------------------------------------------------------------
(* Receiving.                                                              *)

\* The next message that the receiver has not asked s for, as the program knows it.
Asked(s) == Len(got[s]) + Cardinality(Awaits(s))
Numbers(s) == Len(plan[s][Len(got[s]) + Cardinality(Unread(s)) + 1])
Expected(s) == plan[s][Asked(s) + 1]
Remains(s) == Asked(s) < Len(plan[s])

\* A message is received in a buffer of some bytes, to be read in some way.
Bytes(message) == IF Data(message) = Freed THEN <<>> ELSE Data(message)[1]
Receive(message, room, way, count) ==
    got' = [got EXCEPT ![message.source] =
        Append(@, [data |-> Data(message), kept |-> message.kept, way |-> way, count |-> count,
                   fits |-> room = message.size])]
ReceiveForms ==
    [category \in DOMAIN Categories |->
        UNION {Forms(ReceiveForm)[category], Forms(ReceiveValueForm)[category],
               Forms(ReceiveNForm)[category]}]
IreceiveForms == Forms(IreceiveForm)
ReceiveToForms ==
    [category \in DOMAIN Categories |->
        Forms(ReceiveToForm)[category] \cup Forms(DynamicReceiveForm)[category]]

\* How the program reads the values from the bytes, and what it finds.
Reading(g) ==
    CASE g.way = "plain" -> UnpackN(g.data[1], 0, g.count, IntWidth)
      [] g.way = "count" -> LoadN(g.data[1], Packed, g.count)
      [] g.way = "while" -> LoadWhile(g.data[1], Packed)
Found(g) ==
    CASE g.way = "unpacked" -> g.data[1]
      [] g.way = "plain" -> Reading(g).value
      [] g.way \in {"count", "while"} -> [i \in DOMAIN Reading(g).value |-> Reading(g).value[i].x]

\* receive_n of basic values and a known source: the program gives the count.
ReceiveN(s) ==
    /\ By(ReceiveForms, "message") /\ matched = <<>> /\ Awaits(s) = {} /\ channel[s] # <<>>
    /\ Receive(First(s), Len(Expected(s)) * IntWidth, "plain", Len(Expected(s)))
    /\ Unqueue(s)
    /\ UNCHANGED <<type, plan, posted, at, memory, receives, matched, own>>

\* ireceive_n: the same, posted beforehand.
IreceiveN(s) ==
    /\ By(IreceiveForms, "message") /\ matched = <<>> /\ Remains(s)
    /\ receives' = Append(receives, [source |-> s, count |-> Len(Expected(s))])
    /\ UNCHANGED <<type, plan, posted, at, memory, channel, matched, got, own>>

\* An immediate receive is met by a message and waited for.
Arrive(i) ==
    LET s == receives[i].source
    IN  /\ channel[s] # <<>> /\ \A j \in Awaits(s) : i <= j
        /\ Receive(First(s), receives[i].count * IntWidth, "plain", receives[i].count)
        /\ Unqueue(s)
        /\ receives' = RemoveAt(receives, i)
        /\ UNCHANGED <<type, plan, posted, at, memory, matched, own>>

\* Mutant: a message of no bytes is taken for none.
ProbeNonEmpty(s) ==
    /\ matched = <<>> /\ Awaits(s) = {} /\ channel[s] # <<>> /\ First(s).size > 0
    /\ matched' = <<First(s)>>
    /\ Unqueue(s)
    /\ UNCHANGED <<type, plan, posted, at, memory, receives, got, own>>

\* matched_probe, of one source or of any: the message is taken out of the channel,
\* so that no other receive can take it.
MatchedProbe(s) ==
    /\ matched = <<>> /\ Awaits(s) = {} /\ channel[s] # <<>>
    /\ matched' = <<First(s)>>
    /\ Unqueue(s)
    /\ UNCHANGED <<type, plan, posted, at, memory, receives, got, own>>

\* Mutant: a probe gives the size, and a receive from any source follows, as in the
\* lines that dynamic_receive has as a comment.
ProbeAny ==
    /\ matched # <<>> /\ By(ReceiveToForms, "message")
    /\ LET kept == [channel EXCEPT ![Match.source] = matched \o @]
       IN  \E s \in {q \in Senders : kept[q] # <<>>} :
              /\ Receive(Head(kept[s]), Match.size, "plain", Match.size \div IntWidth)
              /\ channel' = [kept EXCEPT ![s] = Tail(@)]
    /\ matched' = <<>>
    /\ UNCHANGED <<type, plan, posted, at, memory, receives, own>>

\* receive(dest), dynamic_receive and message::receive_n of basic values: as many as
\* the matched message has.
ReceiveMatched ==
    /\ matched # <<>> /\ By(ReceiveToForms, "message")
    /\ Receive(Match, Match.size, "plain", Match.size \div IntWidth)
    /\ matched' = <<>>
    /\ UNCHANGED <<type, plan, posted, at, memory, channel, receives, own>>

\* package::receive: the package is resized to the matched message, which is received.
ReceiveResized(way, count) ==
    /\ Receive(Match, Match.size, way, count)
    /\ matched' = <<>>
    /\ UNCHANGED <<type, plan, posted, at, memory, channel, receives, own>>

\* receive_n of other values, or of a list: count values are read from the package.
ReceivePackageN ==
    /\ matched # <<>> /\ By(ReceiveForms, "package")
    /\ ReceiveResized("count", Len(Expected(Match.source)))

\* receive(dest) of other values: values are read until the package is at its end.
ReceiveWhile ==
    /\ matched # <<>> /\ By(ReceiveToForms, "package")
    /\ ReceiveResized("while", 0)

\* The bytes of a message come behind those that the package has, in some room.
AddToPackage(message, room) ==
    /\ package' = [package EXCEPT !.bytes = @ \o Bytes(message)]
    /\ unread' = Append(unread, [source |-> message.source, fits |-> room = message.size])

\* package::receive: the package grows by the size of the matched message.
ReceiveOwnPackage ==
    /\ type = "packed" /\ matched # <<>>
    /\ AddToPackage(Match, Match.size)
    /\ matched' = <<>>
    /\ UNCHANGED <<type, plan, posted, at, memory, channel, receives, got>>

\* receive_packed: a message is matched and received at once; the place behind it is
\* returned, where the next message is received.
ReceivePacked(s) ==
    /\ type = "packed" /\ matched = <<>> /\ channel[s] # <<>>
    /\ AddToPackage(First(s), First(s).size)
    /\ Unqueue(s)
    /\ UNCHANGED <<type, plan, posted, at, memory, receives, matched, got>>

\* receive_packed_n: the program gives the number of bytes.
ReceivePackedN(s) ==
    /\ type = "packed" /\ matched = <<>> /\ channel[s] # <<>>
    /\ AddToPackage(First(s), Numbers(s) * IntWidth)
    /\ Unqueue(s)
    /\ UNCHANGED <<type, plan, posted, at, memory, receives, matched, got>>

\* unpack_n, unpack and operator>>: the values of the oldest message are read where the
\* reading stopped.
UnpackOwn ==
    /\ unread # <<>>
    /\ LET message == Head(unread)
           s == message.source
           read == UnpackN(package.bytes, package.pos, Len(Expected(s)), IntWidth)
       IN  /\ package' = [package EXCEPT !.pos = read.pos]
           /\ got' = [got EXCEPT ![s] =
                  Append(@, [data |-> Holding(read.value), kept |-> TRUE, way |-> "unpacked",
                             count |-> Len(Expected(s)),
                             fits |-> message.fits /\ read.pos <= Len(package.bytes)])]
    /\ unread' = Tail(unread)
    /\ UNCHANGED <<type, plan, posted, at, memory, channel, receives, matched>>
-----------------------------------------------------------------------------
Finished ==
    /\ \A s \in Senders : at[s] = "end" /\ ~Remains(s)
    /\ UNCHANGED vars

Sending(s) ==
    \/ SendBasic(s) \/ IsendBasic(s) \/ IssendBasic(s) \/ BsendBasic(s)
    \/ SendPackage(s) \/ IsendPackage(s) \/ SendOwnPackage(s) \/ SendPackedN(s)
    \/ Return(s) \/ WaitSends(s)

Receiving ==
    \/ \E s \in Senders : ReceiveN(s) \/ IreceiveN(s) \/ MatchedProbe(s)
    \/ \E i \in DOMAIN receives : Arrive(i)
    \/ ReceiveMatched \/ ReceivePackageN \/ ReceiveWhile
    \/ ReceiveOwnPackage \/ UnpackOwn
    \/ \E s \in Senders : ReceivePacked(s) \/ ReceivePackedN(s)

Next == (\E s \in Senders : Sending(s)) \/ Receiving \/ Finished

Spec == Init /\ [][Next]_vars

\* Ranks go on; the receiver asks for every message there is to come.
Fairness == (\A s \in Senders : WF_vars(Sending(s))) /\ WF_vars(Receiving)

FairSpec == Spec /\ Fairness
-----------------------------------------------------------------------------
(* Properties                                                              *)

\* Each receive gives the values of the sender's message of the same number, whatever
\* containers and calls they come from and go to: a serialized value comes back from the
\* bytes it was packed in, and a package of several messages has them one after another.
\* Two cases give no values.  The package of isend_n is gone when the call returns
\* (communicator.hpp:510), and what comes of it is undefined if MPI had not taken it; no
\* other memory goes before its message.  Of a package of no values receive_n reads one
\* all the same, which is an error (communicator.hpp:1290, package_archive.hpp:312).
ReceivedAsSent ==
    \A s \in Senders : \A k \in DOMAIN got[s] :
        LET g == got[s][k]
        IN  IF g.data = Freed THEN ~g.kept
            ELSE IF g.way = "count" /\ plan[s][k] = <<>> THEN Overruns(g.data[1], Reading(g))
            ELSE Found(g) = Values(plan[s][k])

\* The assertion at communicator.hpp:1260, and what Mrecv needs: the message has the
\* bytes of the buffer, whose size was read off the program, a posted receive or a match.
BuffersFit == \A s \in Senders : \A k \in DOMAIN got[s] : got[s][k].fits

\* Every sender comes to its end and everything is received, though MPI need not
\* take any message before it is asked for.
EverythingArrives == <>(\A s \in Senders : at[s] = "end" /\ ~Remains(s))
=============================================================================
