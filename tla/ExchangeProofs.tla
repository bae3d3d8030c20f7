---------------------------- MODULE ExchangeProofs ----------------------------
(***************************************************************************)
(* Exchange for any number of ranks, any series of shifts and any sizes of *)
(* packages: nothing is misread, although no tag tells the calls apart and *)
(* a rank may be any number of calls ahead of another.  The messages of a  *)
(* channel are those of the calls between the receiver's and the sender's, *)
(* in their order, and all that is known of the size of a package agrees.  *)
(***************************************************************************)
EXTENDS Exchange, TLAPS, SequenceTheorems
-----------------------------------------------------------------------------
(* The forms of the calls.                                                 *)

\* Whether overload o accepts the categories.
Accepts(o, it, val) == Iterators[o.it] <= Iterators[it] /\ Categories[o.val] <= Categories[val]

\* The overload that is chosen accepts the arguments, as well as any that does.
LEMMA ChosenIsBest ==
    ASSUME NEW overloads, NEW it, NEW val, Chosen(overloads, it, val) # NoForm
    PROVE  \E o \in overloads :
              /\ Chosen(overloads, it, val) = o.to
              /\ Accepts(o, it, val)
              /\ \A p \in overloads : Accepts(p, it, val) =>
                    Iterators[p.it] <= Iterators[o.it] /\ Categories[p.val] <= Categories[o.val]
<1> DEFINE Viable == {o \in overloads :
                         Iterators[o.it] <= Iterators[it] /\ Categories[o.val] <= Categories[val]}
           Best == {o \in Viable : \A p \in Viable :
                       Iterators[p.it] <= Iterators[o.it] /\ Categories[p.val] <= Categories[o.val]}
<1>1. Chosen(overloads, it, val) = IF Best = {} THEN NoForm ELSE (CHOOSE o \in Best : TRUE).to
  BY DEF Chosen
<1>2. Best # {} /\ Chosen(overloads, it, val) = (CHOOSE o \in Best : TRUE).to
  <2> HIDE DEF Best
  <2> QED BY <1>1
<1>3. PICK o \in Best : Chosen(overloads, it, val) = o.to
  <2> HIDE DEF Best
  <2> QED BY <1>2
<1> QED BY <1>3 DEF Accepts

\* The order of the categories.
LEMMA CategoryOrder ==
    /\ Categories["unspecified"] = 1 /\ Categories["basic"] = 2
    /\ DOMAIN Categories = {"unspecified", "basic"}
    /\ Iterators["forward"] = 2 /\ Iterators["input"] = 1
    /\ Iterators["random_access"] = 3 /\ Iterators["contiguous"] = 4
BY DEF Categories, Iterators

\* A container's values of basic types never travel as a package, and others never
\* as a message, whatever the call and the container.
LEMMA ReplaceNApart ==
    ASSUME NEW it
    PROVE  /\ SendReceiveReplaceNForm(it, "basic") # "package"
           /\ SendReceiveReplaceNForm(it, "unspecified") # "message"
<1> DEFINE overloads == {Overload("contiguous", "basic", "message"),
                         Overload("random_access", "basic", NoForm),
                         Overload("forward", "unspecified", "package"),
                         Overload("forward", "basic", "message")}
<1>1. \A val : SendReceiveReplaceNForm(it, val) = Chosen(overloads, it, val)
  BY DEF SendReceiveReplaceNForm
<1>2. ASSUME Chosen(overloads, it, "basic") = "package" PROVE FALSE
  <2>1. PICK o \in overloads :
              /\ Chosen(overloads, it, "basic") = o.to
              /\ Accepts(o, it, "basic")
              /\ \A p \in overloads : Accepts(p, it, "basic") =>
                    Iterators[p.it] <= Iterators[o.it] /\ Categories[p.val] <= Categories[o.val]
    <3> HIDE DEF overloads
    <3> QED BY <1>2, ChosenIsBest DEF NoForm
  <2>2. o.it = "forward" /\ o.val = "unspecified"
    BY <1>2, <2>1 DEF Overload, NoForm
  <2>3. Accepts(Overload("forward", "basic", "message"), it, "basic")
    BY <2>1, <2>2, CategoryOrder DEF Accepts, Overload
  <2>4. Categories["basic"] <= Categories["unspecified"]
    BY <2>1, <2>2, <2>3 DEF Overload
  <2> QED BY <2>4, CategoryOrder
<1>3. ASSUME Chosen(overloads, it, "unspecified") = "message" PROVE FALSE
  <2>1. PICK o \in overloads : Chosen(overloads, it, "unspecified") = o.to /\ Accepts(o, it, "unspecified")
    <3> HIDE DEF overloads
    <3> QED BY <1>3, ChosenIsBest DEF NoForm
  <2>2. o.val = "basic"
    BY <1>3, <2>1 DEF Overload, NoForm
  <2> QED BY <2>1, <2>2, CategoryOrder DEF Accepts
<1> HIDE DEF overloads
<1> QED BY <1>1, <1>2, <1>3

LEMMA SendReceiveNApart ==
    ASSUME NEW it
    PROVE  /\ SendReceiveNForm(it, "basic") # "package"
           /\ SendReceiveNForm(it, "unspecified") # "message"
<1> DEFINE overloads == {Overload("contiguous", "basic", "message")}
<1>1. \A val : SendReceiveNForm(it, val) = Chosen(overloads, it, val)
  BY DEF SendReceiveNForm
<1>2. \A val : Chosen(overloads, it, val) # NoForm =>
          Chosen(overloads, it, val) = "message" /\ Accepts(Overload("contiguous", "basic", "message"), it, val)
  BY ChosenIsBest DEF Overload
<1>3. ~Accepts(Overload("contiguous", "basic", "message"), it, "unspecified")
  BY CategoryOrder DEF Accepts, Overload
<1> QED BY <1>1, <1>2, <1>3 DEF NoForm

LEMMA SendReceiveApart ==
    ASSUME NEW it
    PROVE  /\ SendReceiveForm(it, "basic") # "package"
           /\ SendReceiveForm(it, "unspecified") # "message"
<1> DEFINE overloads == {Overload("random_access", "unspecified", "send_receive_n")}
<1>1. \A val : Chosen(overloads, it, val) \in {NoForm, "send_receive_n"}
  BY ChosenIsBest DEF Overload
<1>2. \A val : SendReceiveForm(it, val) \in {NoForm, SendReceiveNForm(it, val)}
  <2> HIDE DEF overloads
  <2> QED BY <1>1 DEF SendReceiveForm, overloads
<1> QED BY <1>2, SendReceiveNApart DEF NoForm

LEMMA ReplaceApart ==
    ASSUME NEW it
    PROVE  /\ SendReceiveReplaceForm(it, "basic") # "package"
           /\ SendReceiveReplaceForm(it, "unspecified") # "message"
<1> DEFINE overloads == {Overload("contiguous", "basic", "replace_n"),
                         Overload("forward", "basic", "message"),
                         Overload("random_access", "unspecified", "replace_n")}
<1>1. \A val : Chosen(overloads, it, val) \in {NoForm, "replace_n", "message"}
  BY ChosenIsBest DEF Overload
<1>2. Chosen(overloads, it, "unspecified") # "message"
  <2> SUFFICES ASSUME Chosen(overloads, it, "unspecified") = "message" PROVE FALSE
    OBVIOUS
  <2>1. PICK o \in overloads : Chosen(overloads, it, "unspecified") = o.to /\ Accepts(o, it, "unspecified")
    <3> HIDE DEF overloads
    <3> QED BY ChosenIsBest DEF NoForm
  <2>2. o.val = "basic"
    BY <2>1 DEF Overload
  <2> QED BY <2>1, <2>2, CategoryOrder DEF Accepts
<1>3. \A val : SendReceiveReplaceForm(it, val) =
          IF Chosen(overloads, it, val) = "replace_n" THEN SendReceiveReplaceNForm(it, val)
          ELSE Chosen(overloads, it, val)
  BY DEF SendReceiveReplaceForm
<1> HIDE DEF overloads
<1> QED BY <1>1, <1>2, <1>3, ReplaceNApart DEF NoForm

LEMMA FormsApart ==
    /\ "package" \notin ExchangeForms["basic"]
    /\ "message" \notin ExchangeForms["unspecified"]
<1>1. \A val \in DOMAIN Categories : \A form \in ExchangeForms[val] : \E it \in DOMAIN Iterators :
          form \in {SendReceiveForm(it, val), SendReceiveNForm(it, val), SendReceiveReplaceNForm(it, val),
                    SendReceiveReplaceForm(it, val)}
  BY DEF ExchangeForms, Forms, SendReceiveInPlaceForm
<1>2. {"basic", "unspecified"} = DOMAIN Categories
  BY CategoryOrder
<1> QED BY <1>1, <1>2, ReplaceNApart, SendReceiveNApart, SendReceiveApart, ReplaceApart
-----------------------------------------------------------------------------
(* The invariant.                                                          *)

\* The messages that a rank may send are numbered in the order it sends them: the
\* size of call k has number 2k, the values have 2k+1.
Pos(m) == IF m.kind = "size" THEN 2 * m.call ELSE 2 * m.call + 1

\* The number of the last message that rank q may have sent.
SentPos(q) ==
    IF pc[q] = "between" THEN 2 * call[q] - 1
    ELSE IF pc[q] = "sizes" THEN 2 * call[q]
    ELSE 2 * call[q] + 1

\* The number of the last message that a receive of rank r matched.
TakenPos(r) ==
    IF pc[r] = "between" THEN 2 * call[r] - 1
    ELSE IF pc[r] = "sizes" THEN 2 * call[r] - 1 + Len(inbox[r])
    ELSE IF call[r] \in packed THEN 2 * call[r] + Len(inbox[r])
    ELSE 2 * call[r] - 1 + 2 * Len(inbox[r])

\* The messages of a channel are in the order of their numbers.
InOrder ==
    \A q, r \in Ranks : \A i, j \in 1 .. Len(net[q][r]) :
        i < j => Pos(net[q][r][i]) < Pos(net[q][r][j])

\* They are messages to r that q has sent and r has not matched,
InTransit(m, q, r) ==
    /\ m.from = q /\ Dest(q, m.call) = r
    /\ m.kind = "size" => m.call \in packed
    /\ TakenPos(r) < Pos(m) /\ Pos(m) <= SentPos(q)
OfTheirChannel ==
    \A q, r \in Ranks : \A i \in 1 .. Len(net[q][r]) : InTransit(net[q][r][i], q, r)

\* and all of them are there.
OnItsWay(q, r, p) == \E i \in 1 .. Len(net[q][r]) : Pos(net[q][r][i]) = p
NoneLost ==
    \A q, r \in Ranks : \A k \in Series : Dest(q, k) = r =>
        /\ k \in packed /\ TakenPos(r) < 2 * k /\ 2 * k <= SentPos(q) => OnItsWay(q, r, 2 * k)
        /\ TakenPos(r) < 2 * k + 1 /\ 2 * k + 1 <= SentPos(q) => OnItsWay(q, r, 2 * k + 1)

\* What was matched had been sent.
TakenWasSent ==
    \A r \in Ranks : \A k \in Series :
        /\ k \in packed /\ 2 * k <= TakenPos(r) => 2 * k <= SentPos(Source(r, k))
        /\ 2 * k + 1 <= TakenPos(r) => 2 * k + 1 <= SentPos(Source(r, k))

Channels == InOrder /\ OfTheirChannel /\ NoneLost /\ TakenWasSent

\* A rank exchanges sizes in the calls that have any.
Control ==
    \A r \in Ranks :
        /\ pc[r] = "between" => inbox[r] = <<>> /\ own[r] = 0 /\ told[r] = 0
        /\ pc[r] # "between" => call[r] \in Series
        /\ pc[r] = "sizes" => call[r] \in packed
        /\ pc[r] = "values" /\ call[r] \notin packed => own[r] = 0 /\ told[r] = 0

\* What a receive matched is from its source and of its own call and kind.
Matched ==
    \A r \in Ranks : inbox[r] # <<>> =>
        /\ inbox[r][1].from = Source(r, call[r]) /\ inbox[r][1].call = call[r]
        /\ inbox[r][1].kind = "size" <=> pc[r] = "sizes"

\* Somebody takes z for the size of the package that rank q sends in call k: a message
\* on its way or matched, the rank that was told, or q itself.
Claim(q, k, z) ==
    \/ \E r \in Ranks : \E i \in 1 .. Len(net[q][r]) :
            net[q][r][i].call = k /\ net[q][r][i].size = z
    \/ \E r \in Ranks :
            inbox[r] # <<>> /\ inbox[r][1].from = q /\ inbox[r][1].call = k /\ inbox[r][1].size = z
    \/ \E r \in Ranks : pc[r] = "values" /\ call[r] = k /\ Source(r, k) = q /\ told[r] = z
    \/ pc[q] # "between" /\ call[q] = k /\ own[q] = z
OneSize ==
    \A q \in Ranks : \A k \in Series : \A y, z \in Sizes \cup {0} :
        /\ Claim(q, k, y) /\ Claim(q, k, z) => y = z
        /\ k \notin packed /\ Claim(q, k, z) => z = 0

EInv == TypeOK /\ Channels /\ Control /\ Matched /\ OneSize /\ RightValues

\* The program gives a source: it does not leave it to MPI_ANY_SOURCE.
SourceGiven == ~AnySource
-----------------------------------------------------------------------------
(* Lemmas about ranks, numbers and channels.                               *)

\* The number of a message tells its kind and its call.
LEMMA Numbers ==
    ASSUME NEW m \in Message
    PROVE  /\ m.from \in Ranks /\ m.call \in Series /\ m.size \in Sizes \cup {0}
           /\ m.kind = "size" => Pos(m) = 2 * m.call
           /\ m.kind # "size" => m.kind = "value" /\ Pos(m) = 2 * m.call + 1
           /\ Pos(m) \in Nat
BY SizeAssumption DEF Message, Pos, Series

\* A remainder is one of the ranks, and what differs by n has the same.
LEMMA Remainders ==
    ASSUME NEW a \in Nat, NEW n \in Nat \ {0}
    PROVE  /\ a % n \in 0 .. n-1
           /\ a < n => a % n = a
           /\ a >= n /\ a < 2 * n => a % n = a - n
<1>1. a = n * (a \div n) + (a % n) /\ a % n \in 0 .. n-1 /\ a \div n \in Int
  BY SMT
<1>2. CASE a < n
  BY <1>1, <1>2, SMT
<1>3. CASE a >= n /\ a < 2 * n
  BY <1>1, <1>3, SMT
<1> QED BY <1>1, <1>2, <1>3, SMT

\* The source of a rank in a call is the rank whose destination it is.
LEMMA SourceOfDest ==
    ASSUME TypeOK, NEW r \in Ranks, NEW q \in Ranks, NEW k \in Series
    PROVE  /\ Dest(q, k) \in Ranks /\ Source(r, k) \in Ranks
           /\ Dest(q, k) = r <=> Source(r, k) = q
<1> DEFINE s == shift[k]
<1>1. s \in 0 .. N-1 /\ r \in 0 .. N-1 /\ q \in 0 .. N-1 /\ N \in Nat \ {0}
  BY SizeAssumption DEF TypeOK, Ranks
<1>2. /\ Dest(q, k) = (q + s) % N
      /\ Source(r, k) = (r + N - s) % N
  BY DEF Dest, Source
<1> HIDE DEF s
<1>3. /\ q + s \in Nat /\ q + s < 2 * N
      /\ r + N - s \in Nat /\ r + N - s < 2 * N
  BY <1>1, SMT
<1>4. /\ Dest(q, k) = IF q + s < N THEN q + s ELSE q + s - N
      /\ Source(r, k) = IF r + N - s < N THEN r + N - s ELSE r - s
  <2>0. ASSUME NEW a \in Nat, a < 2 * N
        PROVE  a % N = IF a < N THEN a ELSE a - N
    <3>1. a < N \/ a >= N
      BY <1>1, SMT
    <3> QED  BY <2>0, <3>1, <1>1, Remainders
  <2> DEFINE x == q + s
             y == r + N - s
  <2>1. x \in Nat /\ x < 2 * N /\ y \in Nat /\ y < 2 * N
    BY <1>3
  <2>2. Dest(q, k) = x % N /\ Source(r, k) = y % N
    BY <1>2
  <2>3. /\ q + s < N <=> x < N
        /\ r + N - s < N <=> y < N
        /\ x - N = q + s - N /\ y - N = r - s
    BY <1>1, SMT
  <2> HIDE DEF x, y
  <2>4. /\ x % N = IF x < N THEN x ELSE x - N
        /\ y % N = IF y < N THEN y ELSE y - N
    BY <2>0, <2>1
  <2>5. /\ Dest(q, k) = IF q + s < N THEN x ELSE q + s - N
        /\ Source(r, k) = IF r + N - s < N THEN y ELSE r - s
    BY <2>2, <2>3, <2>4
  <2> QED BY <2>5 DEF x, y
<1> QED BY <1>1, <1>4, SMT DEF Ranks

\* The numbers of a rank are integers, and lie in its call.
LEMMA Counters ==
    ASSUME TypeOK, NEW r \in Ranks
    PROVE  /\ call[r] \in Nat /\ SentPos(r) \in Int /\ TakenPos(r) \in Int
           /\ 2 * call[r] - 1 <= SentPos(r) /\ SentPos(r) <= 2 * call[r] + 1
           /\ 2 * call[r] - 1 <= TakenPos(r)
<1>1. /\ call[r] \in Nat /\ pc[r] \in {"between", "sizes", "values"}
      /\ Len(inbox[r]) \in Nat
  BY SizeAssumption, LenProperties DEF TypeOK
<1>2. SentPos(r) \in Int /\ 2 * call[r] - 1 <= SentPos(r) /\ SentPos(r) <= 2 * call[r] + 1
  BY <1>1 DEF SentPos
<1> QED BY <1>1, <1>2, SMT DEF TakenPos

\* The message that rank q sends.
NewMessage(q, kind, size) == [kind |-> kind, from |-> q, call |-> call[q], size |-> size]

\* The effect of a send: message m at the end of the channel from q to d.
Appends(q, d, m) ==
    /\ m \in Message /\ d \in Ranks
    /\ net' \in [Ranks -> [Ranks -> Seq(Message)]]
    /\ \A a, b \in Ranks : ~(a = q /\ b = d) => net'[a][b] = net[a][b]
    /\ Len(net[q][d]) \in Nat /\ Len(net'[q][d]) = Len(net[q][d]) + 1
    /\ \A i \in 1 .. Len(net[q][d]) : net'[q][d][i] = net[q][d][i]
    /\ net'[q][d][Len(net[q][d]) + 1] = m

\* A send has this effect.
LEMMA SendingAppends ==
    ASSUME TypeOK, NEW q \in Ranks, call[q] \in Series,
           NEW kind \in {"size", "value"}, NEW size \in Sizes \cup {0},
           net' = Sending(q, kind, size),
           NEW m, m = NewMessage(q, kind, size), NEW d, d = Dest(q, call[q])
    PROVE  Appends(q, d, m)
<1>1. m \in Message /\ d \in Ranks
  BY SourceOfDest DEF Message, NewMessage
<1>2. net[q][d] \in Seq(Message) /\ net \in [Ranks -> [Ranks -> Seq(Message)]]
  BY <1>1 DEF TypeOK
<1>3. net' = [net EXCEPT ![q][d] = Append(@, m)]
  BY DEF Sending, NewMessage
<1>4. Append(net[q][d], m) \in Seq(Message)
  BY <1>1, <1>2
<1>5. net'[q][d] = Append(net[q][d], m)
  BY <1>1, <1>2, <1>3
<1>6. \A a, b \in Ranks : ~(a = q /\ b = d) => net'[a][b] = net[a][b]
  BY <1>1, <1>2, <1>3
<1>7. net' \in [Ranks -> [Ranks -> Seq(Message)]]
  BY <1>1, <1>2, <1>3, <1>4
<1> QED BY <1>1, <1>2, <1>5, <1>6, <1>7 DEF Appends

\* The messages of the channels are messages.
LEMMA ChannelMessages ==
    ASSUME TypeOK, NEW a \in Ranks, NEW b \in Ranks
    PROVE  /\ net[a][b] \in Seq(Message) /\ Len(net[a][b]) \in Nat
           /\ \A i \in 1 .. Len(net[a][b]) : net[a][b][i] \in Message
<1>1. net[a][b] \in Seq(Message)
  BY DEF TypeOK
<1> QED BY <1>1, LenProperties, ElementOfSeq

\* A rank that sends the next of its messages keeps the channels as they must be.
LEMMA SendKeepsChannels ==
    ASSUME TypeOK, Channels, UNCHANGED plan, NEW q \in Ranks, call[q] \in Series,
           NEW kind \in {"size", "value"}, NEW size \in Sizes \cup {0},
           net' = Sending(q, kind, size), kind = "size" => call[q] \in packed,
           NEW m, m = NewMessage(q, kind, size), NEW d, d = Dest(q, call[q]),
           SentPos(q)' = Pos(m), SentPos(q) < Pos(m),
           \A k \in Series :
              /\ k \in packed /\ SentPos(q) < 2 * k /\ 2 * k <= Pos(m) => Pos(m) = 2 * k
              /\ SentPos(q) < 2 * k + 1 /\ 2 * k + 1 <= Pos(m) => Pos(m) = 2 * k + 1,
           \A a \in Ranks : a # q => SentPos(a)' = SentPos(a),
           \A a \in Ranks : TakenPos(a)' = TakenPos(a)
    PROVE  Channels'
<1> DEFINE last == Len(net[q][d]) + 1
<1>1. /\ m \in Message /\ d \in Ranks
      /\ \A a, b \in Ranks : ~(a = q /\ b = d) => net'[a][b] = net[a][b]
      /\ last \in Nat \ {0} /\ Len(net'[q][d]) = last
      /\ \A i \in 1 .. last - 1 : net'[q][d][i] = net[q][d][i]
      /\ net'[q][d][last] = m
  <2>1. Appends(q, d, m)
    BY SendingAppends
  <2> QED BY <2>1 DEF Appends
<1>2. /\ \A a \in Ranks : SentPos(a) \in Int /\ TakenPos(a) \in Int
      /\ \A a, b \in Ranks : /\ Len(net[a][b]) \in Nat
                             /\ \A i \in 1 .. Len(net[a][b]) :
                                    net[a][b][i] \in Message /\ Pos(net[a][b][i]) \in Nat
      /\ m.from = q /\ m.call = call[q] /\ m.kind = kind /\ Pos(m) \in Nat
      /\ m.kind = "size" => Pos(m) = 2 * m.call
      /\ m.kind # "size" => Pos(m) = 2 * m.call + 1
  <2>1. \A a \in Ranks : SentPos(a) \in Int /\ TakenPos(a) \in Int
    BY Counters
  <2>2. ASSUME NEW a \in Ranks, NEW b \in Ranks
        PROVE  /\ Len(net[a][b]) \in Nat
               /\ \A i \in 1 .. Len(net[a][b]) :
                      net[a][b][i] \in Message /\ Pos(net[a][b][i]) \in Nat
    BY ChannelMessages, Numbers
  <2>3. m.from = q /\ m.call = call[q] /\ m.kind = kind
    BY DEF NewMessage
  <2> QED BY <2>1, <2>2, <2>3, <1>1, Numbers
<1>3. \A a \in Ranks : SentPos(a) <= SentPos(a)' /\ SentPos(a)' \in Int
  BY <1>2
<1>4. /\ \A a \in Ranks : \A k : Dest(a, k)' = Dest(a, k) /\ Source(a, k)' = Source(a, k)
      /\ packed' = packed /\ Series' = Series /\ \A x : Pos(x)' = Pos(x)
  BY DEF plan, Dest, Source
<1>5. Source(d, call[q]) = q /\ Dest(q, call[q]) = d
  BY <1>1, SourceOfDest
<1> HIDE DEF last
<1>6. TakenPos(d) < Pos(m)
  <2> SUFFICES ASSUME Pos(m) <= TakenPos(d) PROVE FALSE
    BY <1>1, <1>2
  <2>1. Pos(m) <= SentPos(q)
    BY <1>1, <1>2, <1>5 DEF Channels, TakenWasSent
  <2> QED BY <2>1, <1>2
<1>7. InOrder'
  <2> SUFFICES ASSUME NEW a \in Ranks, NEW b \in Ranks,
                      NEW i \in 1 .. Len(net'[a][b]), NEW j \in 1 .. Len(net'[a][b]), i < j
               PROVE  Pos(net'[a][b][i]) < Pos(net'[a][b][j])
    BY <1>4 DEF InOrder
  <2>1. CASE ~(a = q /\ b = d)
    BY <2>1, <1>1 DEF Channels, InOrder
  <2>2. CASE a = q /\ b = d /\ j < last
    <3>1. /\ i \in 1 .. last - 1 /\ j \in 1 .. last - 1
          /\ i \in 1 .. Len(net[q][d]) /\ j \in 1 .. Len(net[q][d])
      BY <2>2, <1>1, <1>2 DEF last
    <3>2. Pos(net[q][d][i]) < Pos(net[q][d][j])
      BY <3>1, <1>1 DEF Channels, InOrder
    <3> QED BY <3>1, <3>2, <2>2, <1>1
  <2>3. CASE a = q /\ b = d /\ j = last
    <3>1. i \in 1 .. last - 1 /\ i \in 1 .. Len(net[q][d])
      BY <2>3, <1>1, <1>2 DEF last
    <3>2. Pos(net[q][d][i]) <= SentPos(q)
      BY <3>1, <1>1 DEF Channels, OfTheirChannel, InTransit
    <3>3. Pos(net[q][d][i]) < Pos(m)
      BY <3>1, <3>2, <1>1, <1>2
    <3> QED BY <3>1, <3>3, <2>3, <1>1
  <2> QED BY <2>1, <2>2, <2>3, <1>1
<1>8. OfTheirChannel'
  <2> DEFINE Passes(x, a, b) ==
                /\ x.from = a /\ Dest(a, x.call) = b
                /\ x.kind = "size" => x.call \in packed
                /\ TakenPos(b) < Pos(x) /\ Pos(x) <= SentPos(a)'
  <2> SUFFICES ASSUME NEW a \in Ranks, NEW b \in Ranks, NEW i \in 1 .. Len(net'[a][b])
               PROVE  Passes(net'[a][b][i], a, b)
    BY <1>4 DEF OfTheirChannel, InTransit
  <2>1. ASSUME NEW x, Pos(x) \in Int, InTransit(x, a, b)
        PROVE  Passes(x, a, b)
    <3>1. Pos(x) <= SentPos(a)'
      BY <2>1, <1>2, <1>3 DEF InTransit
    <3> QED BY <2>1, <3>1 DEF InTransit
  <2>2. Passes(m, q, d)
    BY <1>2, <1>5, <1>6
  <2> HIDE DEF Passes
  <2>3. CASE ~(a = q /\ b = d)
    <3>1. net'[a][b] = net[a][b]
      BY <2>3, <1>1
    <3>2. InTransit(net[a][b][i], a, b) /\ Pos(net[a][b][i]) \in Int
      BY <3>1, <1>2 DEF Channels, OfTheirChannel
    <3> QED BY <3>1, <3>2, <2>1
  <2>4. CASE a = q /\ b = d /\ i < last
    <3>1. i \in 1 .. last - 1 /\ i \in 1 .. Len(net[q][d])
      BY <2>4, <1>1, <1>2 DEF last
    <3>2. InTransit(net[q][d][i], q, d) /\ Pos(net[q][d][i]) \in Int
      BY <3>1, <1>1, <1>2 DEF Channels, OfTheirChannel
    <3> QED BY <3>1, <3>2, <2>1, <2>4, <1>1
  <2>5. CASE a = q /\ b = d /\ i = last
    BY <2>2, <2>5, <1>1
  <2> QED BY <2>3, <2>4, <2>5, <1>1
<1>9. NoneLost'
  <2>1. ASSUME NEW a \in Ranks, NEW b \in Ranks, NEW p, OnItsWay(a, b, p)
        PROVE  OnItsWay(a, b, p)'
    <3>1. PICK i \in 1 .. Len(net[a][b]) : Pos(net[a][b][i]) = p
      BY <2>1 DEF OnItsWay
    <3>2. i \in 1 .. Len(net'[a][b]) /\ net'[a][b][i] = net[a][b][i]
      <4>1. CASE ~(a = q /\ b = d)
        BY <4>1, <1>1
      <4>2. CASE a = q /\ b = d
        <5>1. i \in 1 .. last - 1 /\ i \in 1 .. last
          BY <4>2, <1>1, <1>2 DEF last
        <5> QED BY <5>1, <4>2, <1>1
      <4> QED BY <4>1, <4>2
    <3> QED BY <3>1, <3>2, <1>4 DEF OnItsWay
  <2>2. OnItsWay(q, d, Pos(m))'
    <3>1. last \in 1 .. Len(net'[q][d])
      BY <1>1
    <3> QED BY <3>1, <1>1, <1>4 DEF OnItsWay
  <2>3. ASSUME NEW a \in Ranks, NEW b \in Ranks, NEW k \in Series, Dest(a, k) = b,
               k \in packed, TakenPos(b) < 2 * k, 2 * k <= SentPos(a)'
        PROVE  OnItsWay(a, b, 2 * k)'
    <3>1. CASE 2 * k <= SentPos(a)
      BY <2>1, <2>3, <3>1 DEF Channels, NoneLost
    <3>2. CASE SentPos(a) < 2 * k
      <4>0. k \in Int /\ a = q
        BY <2>3, <3>2, <1>2, <1>3 DEF Series
      <4>1. a = q /\ Pos(m) = 2 * k
        BY <2>3, <3>2, <4>0
      <4>2. m.call = k
        BY <4>1, <1>1, <1>2, Numbers DEF Series
      <4> QED BY <4>1, <4>2, <2>2, <2>3, <1>2, <1>5
    <3> QED BY <3>1, <3>2, <1>2 DEF Series
  <2>4. ASSUME NEW a \in Ranks, NEW b \in Ranks, NEW k \in Series, Dest(a, k) = b,
               TakenPos(b) < 2 * k + 1, 2 * k + 1 <= SentPos(a)'
        PROVE  OnItsWay(a, b, 2 * k + 1)'
    <3>1. CASE 2 * k + 1 <= SentPos(a)
      BY <2>1, <2>4, <3>1 DEF Channels, NoneLost
    <3>2. CASE SentPos(a) < 2 * k + 1
      <4>0. k \in Int /\ a = q
        BY <2>4, <3>2, <1>2, <1>3 DEF Series
      <4>1. a = q /\ Pos(m) = 2 * k + 1
        BY <2>4, <3>2, <4>0
      <4>2. m.call = k
        BY <4>1, <1>1, <1>2, Numbers DEF Series
      <4> QED BY <4>1, <4>2, <2>2, <2>4, <1>2, <1>5
    <3> QED BY <3>1, <3>2, <1>2 DEF Series
  <2> QED BY <2>3, <2>4, <1>4 DEF NoneLost
<1>10. TakenWasSent'
  <2> SUFFICES ASSUME NEW a \in Ranks, NEW k \in Series
               PROVE  /\ k \in packed /\ 2 * k <= TakenPos(a) => 2 * k <= SentPos(Source(a, k))'
                      /\ 2 * k + 1 <= TakenPos(a) => 2 * k + 1 <= SentPos(Source(a, k))'
    BY <1>4 DEF TakenWasSent
  <2>1. Source(a, k) \in Ranks
    BY SourceOfDest
  <2>2. SentPos(Source(a, k)) <= SentPos(Source(a, k))' /\ SentPos(Source(a, k))' \in Int
    <3>1. PICK b \in Ranks : b = Source(a, k)
      BY <2>1
    <3> QED BY <3>1, <1>3, <1>4
  <2> QED BY <2>1, <2>2, <1>2 DEF Channels, TakenWasSent, Series
<1> QED BY <1>7, <1>8, <1>9, <1>10 DEF Channels

\* A step that neither sends nor matches keeps the channels as they are.
LEMMA StillKeepsChannels ==
    ASSUME Channels, net' = net, UNCHANGED plan,
           \A a \in Ranks : SentPos(a)' = SentPos(a) /\ TakenPos(a)' = TakenPos(a),
           \A a \in Ranks : \A k \in Series : Source(a, k) \in Ranks
    PROVE  Channels'
<1>1. /\ \A a \in Ranks : \A k : Dest(a, k)' = Dest(a, k) /\ Source(a, k)' = Source(a, k)
      /\ packed' = packed /\ \A x : Pos(x)' = Pos(x)
  BY DEF plan, Dest, Source
<1>2. InOrder'
  BY <1>1 DEF Channels, InOrder
<1>3. OfTheirChannel'
  BY <1>1 DEF Channels, OfTheirChannel, InTransit
<1>4. \A a, b \in Ranks : \A p : OnItsWay(a, b, p)' = OnItsWay(a, b, p)
  BY <1>1 DEF OnItsWay
<1>5. NoneLost'
  BY <1>1, <1>4 DEF Channels, NoneLost
<1>6. TakenWasSent'
  BY <1>1 DEF Channels, TakenWasSent
<1> QED BY <1>2, <1>3, <1>5, <1>6 DEF Channels

\* The first message of the channel from a rank's source is the one that its receive is for.
LEMMA HeadIsDue ==
    ASSUME TypeOK, Channels, Control, NEW r \in Ranks, pc[r] # "between", inbox[r] = <<>>,
           NEW q, q = Source(r, call[r]), net[q][r] # <<>>, NEW h, h = net[q][r][1]
    PROVE  /\ q \in Ranks /\ call[r] \in Series /\ Dest(q, call[r]) = r
           /\ 1 \in 1 .. Len(net[q][r]) /\ h \in Message /\ h.from = q /\ h.call = call[r]
           /\ h.kind = "size" <=> pc[r] = "sizes"
           /\ Pos(h) = (IF pc[r] = "sizes" THEN 2 * call[r] ELSE 2 * call[r] + 1)
           /\ Pos(h) <= SentPos(q)
<1>1. call[r] \in Series /\ call[r] \in Nat /\ q \in Ranks /\ Dest(q, call[r]) = r
  BY SourceOfDest, Counters DEF Control
<1>2. /\ net[q][r] \in Seq(Message) /\ Len(net[q][r]) \in Nat
      /\ 1 \in 1 .. Len(net[q][r]) /\ h \in Message
  <2>1. net[q][r] \in Seq(Message) /\ Len(net[q][r]) \in Nat
    BY <1>1, ChannelMessages
  <2>2. Len(net[q][r]) # 0
    BY <2>1, EmptySeq
  <2>3. 1 \in 1 .. Len(net[q][r])
    BY <2>1, <2>2
  <2> QED BY <1>1, <2>1, <2>3, ChannelMessages
<1>3. InTransit(h, q, r)
  BY <1>1, <1>2 DEF Channels, OfTheirChannel
<1>4. /\ TakenPos(r) = IF pc[r] = "sizes" \/ call[r] \notin packed
                       THEN 2 * call[r] - 1 ELSE 2 * call[r]
      /\ pc[r] = "sizes" => call[r] \in packed
  <2>1. Len(inbox[r]) = 0
    BY EmptySeq
  <2>2. pc[r] = "sizes" => call[r] \in packed
    BY DEF Control
  <2> QED BY <1>1, <2>1, <2>2 DEF TakenPos
<1>5. SentPos(q) \in Int /\ TakenPos(r) \in Int
  BY <1>1, Counters
<1>6. /\ h.call \in Nat /\ Pos(h) \in Nat /\ h.kind \in {"size", "value"}
      /\ h.kind = "size" => Pos(h) = 2 * h.call /\ h.call \in packed
      /\ h.kind = "value" => Pos(h) = 2 * h.call + 1
  BY <1>2, <1>3, Numbers DEF Series, InTransit, Message
<1>7. TakenPos(r) < Pos(h) /\ Pos(h) <= SentPos(q)
  BY <1>3 DEF InTransit
<1> DEFINE due == IF pc[r] = "sizes" THEN 2 * call[r] ELSE 2 * call[r] + 1
<1>8. due \in Nat /\ due <= Pos(h) /\ TakenPos(r) < due
  <2>1. CASE pc[r] = "sizes" \/ call[r] \in packed
    BY <2>1, <1>1, <1>4, <1>6, <1>7
  <2>2. CASE pc[r] # "sizes" /\ call[r] \notin packed
    <3>1. PICK c \in Nat : c = call[r] /\ due = 2 * c + 1 /\ TakenPos(r) = 2 * c - 1
      BY <2>2, <1>1, <1>4
    <3>2. PICK d \in Nat : d = h.call /\ (Pos(h) = 2 * d + 1 \/ (Pos(h) = 2 * d /\ d \in packed))
      BY <1>6
    <3>3. d # c \/ Pos(h) = 2 * d + 1
      BY <2>2, <3>1, <3>2
    <3>4. PICK x \in Nat : x = Pos(h) /\ 2 * c - 1 < x /\ (x = 2 * d + 1 \/ (x = 2 * d /\ d # c))
      BY <1>6, <1>7, <3>1, <3>2, <3>3
    <3>5. 2 * c + 1 <= x /\ 2 * c + 1 \in Nat /\ 2 * c - 1 < 2 * c + 1
      BY <3>4
    <3> QED BY <3>1, <3>4, <3>5
  <2> QED BY <2>1, <2>2
<1>9. OnItsWay(q, r, due)
  <2>1. due <= SentPos(q)
    BY <1>5, <1>6, <1>7, <1>8
  <2> QED BY <1>1, <1>4, <1>8, <2>1 DEF Channels, NoneLost
<1>10. Pos(h) = due
  <2> HIDE DEF due
  <2>1. PICK i \in 1 .. Len(net[q][r]) : Pos(net[q][r][i]) = due
    BY <1>9 DEF OnItsWay
  <2>2. CASE i = 1
    BY <2>1, <2>2
  <2>3. CASE i # 1
    <3>1. 1 < i
      BY <1>2, <2>3
    <3>2. Pos(h) < due
      BY <3>1, <2>1, <1>1, <1>2 DEF Channels, InOrder
    <3> QED BY <3>2, <1>6, <1>8
  <2> QED BY <2>2, <2>3
<1>11. h.call = call[r] /\ (h.kind = "size" <=> pc[r] = "sizes")
  <2>1. CASE pc[r] = "sizes"
    <3>1. Pos(h) = 2 * call[r]
      BY <1>10, <2>1
    <3>2. h.kind = "size"
      BY <3>1, <1>1, <1>6
    <3> QED BY <2>1, <3>1, <3>2, <1>1, <1>6
  <2>2. CASE pc[r] # "sizes"
    <3>1. Pos(h) = 2 * call[r] + 1
      BY <1>10, <2>2
    <3>2. h.kind = "value"
      BY <3>1, <1>1, <1>6
    <3> QED BY <2>2, <3>1, <3>2, <1>1, <1>6
  <2> QED BY <2>1, <2>2
<1>12. h.from = q
  BY <1>3 DEF InTransit
<1> QED BY <1>1, <1>2, <1>7, <1>10, <1>11, <1>12

\* The effect of a match: message h, the first of the channel from q to r, is matched.
Takes(q, r, h) ==
    /\ q \in Ranks /\ call[r] \in Series /\ Dest(q, call[r]) = r
    /\ 1 \in 1 .. Len(net[q][r]) /\ h \in Message /\ h.from = q /\ h.call = call[r]
    /\ h.kind = "size" <=> pc[r] = "sizes"
    /\ Pos(h) = (IF pc[r] = "sizes" THEN 2 * call[r] ELSE 2 * call[r] + 1)
    /\ Pos(h) <= SentPos(q)
    /\ inbox[r] = <<>> /\ inbox' = [inbox EXCEPT ![r] = <<h>>]
    /\ net' \in [Ranks -> [Ranks -> Seq(Message)]]
    /\ \A a, b \in Ranks : ~(a = q /\ b = r) => net'[a][b] = net[a][b]
    /\ Len(net'[q][r]) = Len(net[q][r]) - 1
    /\ \A i \in 1 .. Len(net[q][r]) - 1 : net'[q][r][i] = net[q][r][i + 1]

\* A match has this effect, with the message that the receive is for.
LEMMA MatchTakes ==
    ASSUME TypeOK, Channels, Control, SourceGiven, NEW r \in Ranks, Match(r),
           NEW q, q = Source(r, call[r]), NEW h, h = net[q][r][1]
    PROVE  Takes(q, r, h)
<1>1. /\ pc[r] # "between" /\ inbox[r] = <<>> /\ net[q][r] # <<>>
      /\ inbox' = [inbox EXCEPT ![r] = <<Head(net[q][r])>>]
      /\ net' = [net EXCEPT ![q][r] = Tail(@)]
  BY DEF Match, Senders, SourceGiven
<1>2. /\ q \in Ranks /\ call[r] \in Series /\ Dest(q, call[r]) = r
      /\ 1 \in 1 .. Len(net[q][r]) /\ h \in Message /\ h.from = q /\ h.call = call[r]
      /\ h.kind = "size" <=> pc[r] = "sizes"
      /\ Pos(h) = (IF pc[r] = "sizes" THEN 2 * call[r] ELSE 2 * call[r] + 1)
      /\ Pos(h) <= SentPos(q)
  BY <1>1, HeadIsDue
<1>3. net \in [Ranks -> [Ranks -> Seq(Message)]] /\ net[q][r] \in Seq(Message)
  BY <1>2 DEF TypeOK
<1>4. /\ Head(net[q][r]) = h /\ Tail(net[q][r]) \in Seq(Message)
      /\ Len(Tail(net[q][r])) = Len(net[q][r]) - 1
      /\ \A i \in 1 .. Len(Tail(net[q][r])) : Tail(net[q][r])[i] = net[q][r][i + 1]
  BY <1>1, <1>3, HeadTailProperties
<1>5. net'[q][r] = Tail(net[q][r])
  BY <1>1, <1>2, <1>3
<1>6. \A a, b \in Ranks : ~(a = q /\ b = r) => net'[a][b] = net[a][b]
  BY <1>1, <1>2, <1>3
<1>7. net' \in [Ranks -> [Ranks -> Seq(Message)]]
  BY <1>1, <1>2, <1>3, <1>4
<1> QED BY <1>1, <1>2, <1>4, <1>5, <1>6, <1>7 DEF Takes

\* A match keeps the channels as they must be.
LEMMA MatchKeepsChannels ==
    ASSUME TypeOK, Channels, Control, SourceGiven, NEW r \in Ranks, Match(r)
    PROVE  Channels'
<1> DEFINE q == Source(r, call[r])
           h == net[q][r][1]
           k == call[r]
<1>1. /\ q \in Ranks /\ k \in Series /\ k \in Nat /\ Dest(q, k) = r
      /\ 1 \in 1 .. Len(net[q][r]) /\ h \in Message /\ h.from = q /\ h.call = k
      /\ h.kind = "size" <=> pc[r] = "sizes"
      /\ Pos(h) = (IF pc[r] = "sizes" THEN 2 * k ELSE 2 * k + 1)
      /\ Pos(h) <= SentPos(q) /\ Pos(h) \in Nat
      /\ inbox[r] = <<>> /\ inbox' = [inbox EXCEPT ![r] = <<h>>]
      /\ \A a, b \in Ranks : ~(a = q /\ b = r) => net'[a][b] = net[a][b]
      /\ Len(net[q][r]) \in Nat /\ Len(net'[q][r]) = Len(net[q][r]) - 1
      /\ \A i \in 1 .. Len(net[q][r]) - 1 : net'[q][r][i] = net[q][r][i + 1]
  <2> HIDE DEF q, h
  <2>0. q = Source(r, call[r]) /\ h = net[q][r][1]
    BY DEF q, h
  <2>1. /\ q \in Ranks /\ k \in Series /\ Dest(q, k) = r
        /\ 1 \in 1 .. Len(net[q][r]) /\ h \in Message /\ h.from = q /\ h.call = k
        /\ h.kind = "size" <=> pc[r] = "sizes"
        /\ Pos(h) = (IF pc[r] = "sizes" THEN 2 * k ELSE 2 * k + 1)
        /\ Pos(h) <= SentPos(q)
        /\ inbox[r] = <<>> /\ inbox' = [inbox EXCEPT ![r] = <<h>>]
        /\ \A a, b \in Ranks : ~(a = q /\ b = r) => net'[a][b] = net[a][b]
        /\ Len(net'[q][r]) = Len(net[q][r]) - 1
        /\ \A i \in 1 .. Len(net[q][r]) - 1 : net'[q][r][i] = net[q][r][i + 1]
    <3>1. Takes(q, r, h)
      BY <2>0, MatchTakes
    <3> QED BY <3>1 DEF Takes
  <2>2. k \in Nat /\ Len(net[q][r]) \in Nat /\ Pos(h) \in Nat
    BY <2>1, ChannelMessages, Counters, Numbers
  <2> QED BY <2>1, <2>2
<1>2. /\ pc[r] # "between" /\ pc' = pc /\ call' = call /\ packed' = packed
      /\ \A a \in Ranks : \A j : Dest(a, j)' = Dest(a, j) /\ Source(a, j)' = Source(a, j)
      /\ \A x : Pos(x)' = Pos(x)
      /\ \A a \in Ranks : SentPos(a)' = SentPos(a)
  BY DEF Match, plan, Dest, Source, SentPos
<1>3. /\ \A a \in Ranks : SentPos(a) \in Int /\ TakenPos(a) \in Int
      /\ \A a, b \in Ranks : /\ Len(net[a][b]) \in Nat
                             /\ \A i \in 1 .. Len(net[a][b]) :
                                    net[a][b][i] \in Message /\ Pos(net[a][b][i]) \in Nat
  <2>1. ASSUME NEW a \in Ranks, NEW b \in Ranks
        PROVE  /\ Len(net[a][b]) \in Nat
               /\ \A i \in 1 .. Len(net[a][b]) :
                      net[a][b][i] \in Message /\ Pos(net[a][b][i]) \in Nat
    BY ChannelMessages, Numbers
  <2> QED BY <2>1, Counters
<1> HIDE DEF q, h
<1>4. /\ TakenPos(r) = IF pc[r] = "sizes" \/ k \notin packed THEN 2 * k - 1 ELSE 2 * k
      /\ TakenPos(r)' = Pos(h)
      /\ \A a \in Ranks : a # r => TakenPos(a)' = TakenPos(a)
      /\ pc[r] = "sizes" => k \in packed
  <2>1. inbox \in [Ranks -> Seq(Message)]
    BY DEF TypeOK
  <2>2. /\ inbox'[r] = <<h>> /\ Len(inbox[r]) = 0 /\ Len(inbox'[r]) = 1
        /\ \A a \in Ranks : a # r => inbox'[a] = inbox[a]
    BY <2>1, <1>1
  <2>3. pc[r] = "sizes" => k \in packed
    BY DEF Control
  <2>4. /\ TakenPos(r) = IF pc[r] = "sizes" \/ k \notin packed THEN 2 * k - 1 ELSE 2 * k
        /\ TakenPos(r)' = IF pc[r] = "sizes" THEN 2 * k ELSE 2 * k + 1
    <3>1. k = call[r] /\ k = call'[r] /\ pc'[r] = pc[r] /\ packed' = packed
      BY <1>2
    <3>2. TakenPos(r) = IF pc[r] = "sizes" \/ k \notin packed THEN 2 * k - 1 ELSE 2 * k
      <4> HIDE DEF k
      <4> QED BY <3>1, <1>1, <1>2, <2>2, <2>3 DEF TakenPos
    <3>3. TakenPos(r)' = IF pc[r] = "sizes" THEN 2 * k ELSE 2 * k + 1
      <4>0. TakenPos(r)' = IF pc'[r] = "between" THEN 2 * call'[r] - 1
                           ELSE IF pc'[r] = "sizes" THEN 2 * call'[r] - 1 + Len(inbox'[r])
                           ELSE IF call'[r] \in packed' THEN 2 * call'[r] + Len(inbox'[r])
                           ELSE 2 * call'[r] - 1 + 2 * Len(inbox'[r])
        BY DEF TakenPos
      <4> HIDE DEF k
      <4>1. CASE pc[r] = "sizes"
        <5>1. TakenPos(r)' = 2 * k - 1 + 1
          BY <4>0, <4>1, <3>1, <1>2, <2>2
        <5> QED BY <4>1, <5>1, <1>1
      <4>2. CASE pc[r] # "sizes"
        <5>1. CASE k \in packed
          <6>1. TakenPos(r)' = 2 * k + 1
            BY <4>0, <4>2, <5>1, <3>1, <1>2, <2>2
          <6> QED BY <4>2, <6>1
        <5>2. CASE k \notin packed
          <6>1. TakenPos(r)' = 2 * k - 1 + 2 * 1
            BY <4>0, <4>2, <5>2, <3>1, <1>2, <2>2
          <6> QED BY <4>2, <6>1, <1>1
        <5> QED BY <5>1, <5>2
      <4> QED BY <4>1, <4>2
    <3> QED BY <3>2, <3>3
  <2>5. \A a \in Ranks : a # r => TakenPos(a)' = TakenPos(a)
    BY <1>2, <2>2 DEF TakenPos
  <2> QED BY <1>1, <2>3, <2>4, <2>5
<1> HIDE DEF k
<1>5. TakenPos(r) < Pos(h) /\ (\A a \in Ranks : TakenPos(a) <= TakenPos(a)')
  <2>1. TakenPos(r) < Pos(h)
    <3>1. CASE pc[r] = "sizes"
      BY <3>1, <1>1, <1>4
    <3>2. CASE pc[r] # "sizes" /\ k \in packed
      BY <3>2, <1>1, <1>4
    <3>3. CASE pc[r] # "sizes" /\ k \notin packed
      BY <3>3, <1>1, <1>4
    <3> QED BY <3>1, <3>2, <3>3
  <2>2. ASSUME NEW a \in Ranks
        PROVE  TakenPos(a) <= TakenPos(a)'
    <3>1. CASE a = r
      <4>1. TakenPos(r) <= TakenPos(r)'
        BY <2>1, <1>1, <1>3, <1>4
      <4> QED BY <4>1, <3>1
    <3>2. CASE a # r
      BY <3>2, <1>3, <1>4
    <3> QED BY <3>1, <3>2
  <2> QED BY <2>1, <2>2
<1>6. \A j \in Series :
          /\ j \in packed /\ TakenPos(r) < 2 * j /\ 2 * j <= Pos(h) => j = k /\ 2 * j = Pos(h)
          /\ TakenPos(r) < 2 * j + 1 /\ 2 * j + 1 <= Pos(h) => j = k /\ 2 * j + 1 = Pos(h)
  <2> SUFFICES ASSUME NEW j \in Series
      PROVE  /\ j \in packed /\ TakenPos(r) < 2 * j /\ 2 * j <= Pos(h) => j = k /\ 2 * j = Pos(h)
             /\ TakenPos(r) < 2 * j + 1 /\ 2 * j + 1 <= Pos(h) => j = k /\ 2 * j + 1 = Pos(h)
    OBVIOUS
  <2>1. j \in Nat
    BY DEF Series
  <2>2. CASE pc[r] = "sizes"
    BY <2>1, <2>2, <1>1, <1>4
  <2>3. CASE pc[r] # "sizes" /\ k \in packed
    BY <2>1, <2>3, <1>1, <1>4
  <2>4. CASE pc[r] # "sizes" /\ k \notin packed
    BY <2>1, <2>4, <1>1, <1>4
  <2> QED BY <2>2, <2>3, <2>4
<1>7. \A a \in Ranks : \A j \in Series : Source(a, j) \in Ranks
  BY SourceOfDest
<1>8. InOrder'
  <2> SUFFICES ASSUME NEW a \in Ranks, NEW b \in Ranks,
                      NEW i \in 1 .. Len(net'[a][b]), NEW j \in 1 .. Len(net'[a][b]), i < j
               PROVE  Pos(net'[a][b][i]) < Pos(net'[a][b][j])
    BY <1>2 DEF InOrder
  <2>1. CASE ~(a = q /\ b = r)
    BY <2>1, <1>1 DEF Channels, InOrder
  <2>2. CASE a = q /\ b = r
    <3>1. /\ i \in 1 .. Len(net[q][r]) - 1 /\ j \in 1 .. Len(net[q][r]) - 1
          /\ i + 1 \in 1 .. Len(net[q][r]) /\ j + 1 \in 1 .. Len(net[q][r])
          /\ i + 1 < j + 1
      BY <2>2, <1>1
    <3>2. Pos(net[q][r][i + 1]) < Pos(net[q][r][j + 1])
      BY <3>1, <1>1 DEF Channels, InOrder
    <3> QED BY <3>1, <3>2, <2>2, <1>1
  <2> QED BY <2>1, <2>2
<1>9. OfTheirChannel'
  <2> DEFINE Passes(x, a, b) ==
                /\ x.from = a /\ Dest(a, x.call) = b
                /\ x.kind = "size" => x.call \in packed
                /\ TakenPos(b)' < Pos(x) /\ Pos(x) <= SentPos(a)
  <2> SUFFICES ASSUME NEW a \in Ranks, NEW b \in Ranks, NEW i \in 1 .. Len(net'[a][b])
               PROVE  Passes(net'[a][b][i], a, b)
    BY <1>2 DEF OfTheirChannel, InTransit
  <2>1. CASE a = q /\ b = r
    <3>1. /\ i \in 1 .. Len(net[q][r]) - 1 /\ i + 1 \in 1 .. Len(net[q][r])
          /\ 1 \in 1 .. Len(net[q][r]) /\ 1 < i + 1
      BY <2>1, <1>1
    <3>2. /\ InTransit(net[q][r][i + 1], q, r)
          /\ Pos(net[q][r][1]) < Pos(net[q][r][i + 1])
      BY <3>1, <1>1 DEF Channels, OfTheirChannel, InOrder
    <3>3. Pos(h) < Pos(net[q][r][i + 1]) /\ net'[a][b][i] = net[q][r][i + 1]
      BY <3>1, <3>2, <2>1, <1>1 DEF h
    <3> QED BY <3>2, <3>3, <2>1, <1>4 DEF InTransit
  <2>2. CASE ~(a = q /\ b = r)
    <3> DEFINE x == net[a][b][i]
    <3>1. net'[a][b][i] = x /\ i \in 1 .. Len(net[a][b])
      BY <2>2, <1>1
    <3>2. InTransit(x, a, b) /\ x \in Message /\ Pos(x) \in Nat
      BY <3>1, <1>3 DEF Channels, OfTheirChannel
    <3> HIDE DEF x
    <3>3. TakenPos(b)' < Pos(x)
      <4>1. CASE b # r
        BY <4>1, <3>2, <1>4 DEF InTransit
      <4>2. CASE b = r
        <5>1. a # q
          BY <4>2, <2>2
        <5>2. /\ x.call \in Series /\ Dest(a, x.call) = r /\ TakenPos(r) < Pos(x)
              /\ x.kind = "size" => x.call \in packed
              /\ x.kind = "size" => Pos(x) = 2 * x.call
              /\ x.kind # "size" => Pos(x) = 2 * x.call + 1
          BY <4>2, <3>2, Numbers DEF InTransit
        <5>3. ASSUME Pos(x) <= Pos(h)
              PROVE  FALSE
          <6>1. x.call = k
            BY <5>2, <5>3, <1>6
          <6>2. Source(r, k) = a
            BY <6>1, <5>2, SourceOfDest
          <6> QED BY <6>2, <5>1 DEF q, k
        <5> QED BY <5>3, <4>2, <1>1, <1>4, <3>2
      <4> QED BY <4>1, <4>2
    <3> QED BY <3>1, <3>2, <3>3 DEF InTransit
  <2> QED BY <2>1, <2>2
<1>10. NoneLost'
  <2>1. ASSUME NEW a \in Ranks, NEW b \in Ranks, NEW p \in Int, OnItsWay(a, b, p),
               TakenPos(b)' < p
        PROVE  OnItsWay(a, b, p)'
    <3>1. PICK i \in 1 .. Len(net[a][b]) : Pos(net[a][b][i]) = p
      BY <2>1 DEF OnItsWay
    <3>2. CASE ~(a = q /\ b = r)
      <4>1. i \in 1 .. Len(net'[a][b]) /\ net'[a][b][i] = net[a][b][i]
        BY <3>2, <1>1
      <4> QED BY <4>1, <3>1, <1>2 DEF OnItsWay
    <3>3. CASE a = q /\ b = r
      <4>1. i # 1
        BY <3>1, <3>3, <2>1, <1>1, <1>4 DEF h
      <4>2. /\ i - 1 \in 1 .. Len(net[q][r]) - 1 /\ i - 1 + 1 = i
            /\ i - 1 \in 1 .. Len(net'[a][b])
        BY <4>1, <3>3, <1>1
      <4>3. net'[a][b][i - 1] = net[a][b][i]
        BY <4>2, <3>3, <1>1
      <4> QED BY <4>2, <4>3, <3>1, <1>2 DEF OnItsWay
    <3> QED BY <3>2, <3>3
  <2>2. ASSUME NEW a \in Ranks, NEW b \in Ranks, NEW p \in Int, TakenPos(b)' < p
        PROVE  TakenPos(b) < p
    <3>1. TakenPos(b)' \in Int
      BY <1>1, <1>3, <1>4
    <3> QED BY <2>2, <3>1, <1>3, <1>5
  <2>3. ASSUME NEW a \in Ranks, NEW b \in Ranks, NEW j \in Series, Dest(a, j) = b
        PROVE  /\ j \in packed /\ TakenPos(b)' < 2 * j /\ 2 * j <= SentPos(a)
                     => OnItsWay(a, b, 2 * j)'
               /\ TakenPos(b)' < 2 * j + 1 /\ 2 * j + 1 <= SentPos(a)
                     => OnItsWay(a, b, 2 * j + 1)'
    <3>1. 2 * j \in Int /\ 2 * j + 1 \in Int
      BY DEF Series
    <3> QED BY <2>1, <2>2, <2>3, <3>1 DEF Channels, NoneLost
  <2> QED BY <2>3, <1>2 DEF NoneLost
<1>11. TakenWasSent'
  <2> SUFFICES ASSUME NEW a \in Ranks, NEW j \in Series
               PROVE  /\ j \in packed /\ 2 * j <= TakenPos(a)' => 2 * j <= SentPos(Source(a, j))
                      /\ 2 * j + 1 <= TakenPos(a)' => 2 * j + 1 <= SentPos(Source(a, j))
    BY <1>2, <1>7 DEF TakenWasSent
  <2>1. j \in Nat
    BY DEF Series
  <2>2. /\ j \in packed /\ 2 * j <= TakenPos(a) => 2 * j <= SentPos(Source(a, j))
        /\ 2 * j + 1 <= TakenPos(a) => 2 * j + 1 <= SentPos(Source(a, j))
    BY DEF Channels, TakenWasSent
  <2>3. CASE a # r
    BY <2>2, <2>3, <1>4
  <2>4. CASE a = r
    <3>1. /\ j \in packed /\ TakenPos(r) < 2 * j /\ 2 * j <= Pos(h) => 2 * j <= SentPos(Source(r, j))
          /\ TakenPos(r) < 2 * j + 1 /\ 2 * j + 1 <= Pos(h) => 2 * j + 1 <= SentPos(Source(r, j))
      BY <1>1, <1>6 DEF q, k
    <3> QED BY <2>1, <2>2, <2>4, <3>1, <1>3, <1>4
  <2> QED BY <2>3, <2>4
<1> QED BY <1>8, <1>9, <1>10, <1>11 DEF Channels
-----------------------------------------------------------------------------
(* Lemmas about the sizes that ranks take for granted.                     *)

\* Whether the messages of the channels are those that were there, and m of rank q.
OnlyNew(q, m) ==
    \A a, b \in Ranks : \A i \in 1 .. Len(net'[a][b]) :
        \/ i \in 1 .. Len(net[a][b]) /\ net'[a][b][i] = net[a][b][i]
        \/ a = q /\ net'[a][b][i] = m

\* After a send the messages of the channels are those that were there, and the new one.
LEMMA OldOrNew ==
    ASSUME TypeOK, NEW q \in Ranks, call[q] \in Series,
           NEW kind \in {"size", "value"}, NEW size \in Sizes \cup {0},
           net' = Sending(q, kind, size),
           NEW m, m = NewMessage(q, kind, size), NEW d, d = Dest(q, call[q])
    PROVE  OnlyNew(q, m)
<1>1. /\ m \in Message /\ d \in Ranks
      /\ \A x, y \in Ranks : ~(x = q /\ y = d) => net'[x][y] = net[x][y]
      /\ Len(net[q][d]) \in Nat /\ Len(net'[q][d]) = Len(net[q][d]) + 1
      /\ \A j \in 1 .. Len(net[q][d]) : net'[q][d][j] = net[q][d][j]
      /\ net'[q][d][Len(net[q][d]) + 1] = m
  <2>1. Appends(q, d, m)
    BY SendingAppends
  <2> QED BY <2>1 DEF Appends
<1> SUFFICES ASSUME NEW a \in Ranks, NEW b \in Ranks, NEW i \in 1 .. Len(net'[a][b])
             PROVE  \/ i \in 1 .. Len(net[a][b]) /\ net'[a][b][i] = net[a][b][i]
                    \/ a = q /\ net'[a][b][i] = m
  BY DEF OnlyNew
<1>2. CASE ~(a = q /\ b = d)
  BY <1>1, <1>2
<1>3. CASE a = q /\ b = d
  <2>1. i \in 1 .. Len(net[q][d]) \/ i = Len(net[q][d]) + 1
    BY <1>1, <1>3
  <2> QED BY <1>1, <1>3, <2>1
<1> QED BY <1>2, <1>3

\* Claims that were there before agree as they did.
LEMMA FewerClaims ==
    ASSUME OneSize, packed' = packed,
           \A q \in Ranks : \A k \in Series : \A z \in Sizes \cup {0} :
              Claim(q, k, z)' => Claim(q, k, z)
    PROVE  OneSize'
BY DEF OneSize

\* Nobody knows the size of a package before the rank that sends it.
LEMMA NoClaimYet ==
    ASSUME TypeOK, Channels, Control, Matched, NEW r \in Ranks, NEW c, c = call[r],
           pc[r] = "between", c \in Series, c \in packed, NEW z, Claim(r, c, z)
    PROVE  FALSE
<1>1. c \in Nat /\ SentPos(r) = 2 * c - 1
  BY Counters DEF SentPos
<1>2. ASSUME NEW b \in Ranks, Source(b, c) = r, call[b] = c, TakenPos(b) >= 2 * c
      PROVE  FALSE
  <2>1. 2 * c <= TakenPos(b)
    BY <1>1, <1>2, Counters
  <2>2. 2 * c <= SentPos(r)
    BY <1>2, <2>1 DEF Channels, TakenWasSent
  <2> QED BY <1>1, <2>2
<1>3. ASSUME NEW b \in Ranks, NEW i \in 1 .. Len(net[r][b]), net[r][b][i].call = c
      PROVE  FALSE
  <2>1. net[r][b][i] \in Message /\ Pos(net[r][b][i]) <= SentPos(r)
    BY ChannelMessages DEF Channels, OfTheirChannel, InTransit
  <2>2. Pos(net[r][b][i]) = 2 * c \/ Pos(net[r][b][i]) = 2 * c + 1
    BY <2>1, <1>3, Numbers
  <2> QED BY <1>1, <2>1, <2>2
<1>4. ASSUME NEW b \in Ranks, call[b] = c, pc[b] = "values" \/ (pc[b] = "sizes" /\ inbox[b] # <<>>)
      PROVE  TakenPos(b) >= 2 * c
  <2>1. Len(inbox[b]) \in Nat /\ (inbox[b] # <<>> => Len(inbox[b]) # 0)
    <3>1. inbox[b] \in Seq(Message)
      BY DEF TypeOK
    <3> QED BY <3>1, LenProperties, EmptySeq
  <2>2. CASE pc[b] = "values"
    BY <1>1, <1>4, <2>1, <2>2 DEF TakenPos
  <2>3. CASE pc[b] = "sizes" /\ inbox[b] # <<>>
    BY <1>1, <1>4, <2>1, <2>3 DEF TakenPos
  <2> QED BY <1>4, <2>2, <2>3
<1>5. ASSUME NEW b \in Ranks, inbox[b] # <<>>, inbox[b][1].from = r, inbox[b][1].call = c
      PROVE  FALSE
  <2>1. Source(b, c) = r /\ call[b] = c /\ pc[b] # "between"
    BY <1>5 DEF Matched, Control
  <2>2. pc[b] \in {"sizes", "values"}
    BY <2>1 DEF TypeOK
  <2> QED BY <2>1, <2>2, <1>2, <1>4, <1>5
<1>6. ASSUME NEW b \in Ranks, pc[b] = "values", call[b] = c, Source(b, c) = r
      PROVE  FALSE
  BY <1>2, <1>4, <1>6
<1> QED BY <1>3, <1>5, <1>6 DEF Claim
-----------------------------------------------------------------------------
(* Every step keeps the invariant.                                         *)

\* An exchange of values of a basic type keeps the invariant.
LEMMA BasicKeeps ==
    ASSUME EInv, NEW r \in Ranks, ExchangeBasic(r)
    PROVE  EInv'
<1> DEFINE c == call[r]
<1>1. /\ pc[r] = "between" /\ c \in Series /\ c \notin packed
      /\ net' = Sending(r, "value", 0) /\ pc' = [pc EXCEPT ![r] = "values"]
      /\ shift' = shift /\ packed' = packed /\ call' = call /\ own' = own /\ told' = told
      /\ inbox' = inbox /\ got' = got
  BY FormsApart DEF ExchangeBasic, Category, plan
<1>2. TypeOK /\ Channels /\ Control /\ Matched /\ OneSize /\ RightValues
  BY DEF EInv
<1>3. PICK m, d : m = NewMessage(r, "value", 0) /\ d = Dest(r, call[r])
  OBVIOUS
<1>4. /\ m \in Message /\ net' \in [Ranks -> [Ranks -> Seq(Message)]]
      /\ m.call = c /\ m.kind = "value" /\ m.size = 0 /\ Pos(m) = 2 * c + 1
  <2>1. m \in Message /\ net' \in [Ranks -> [Ranks -> Seq(Message)]]
    <3>1. Appends(r, d, m)
      BY <1>1, <1>2, <1>3, SendingAppends
    <3> QED BY <3>1 DEF Appends
  <2>2. m.call = c /\ m.kind = "value" /\ m.size = 0
    BY <1>3 DEF NewMessage
  <2> QED BY <2>1, <2>2, Numbers
<1>5. /\ pc'[r] = "values" /\ \A a \in Ranks : a # r => pc'[a] = pc[a]
      /\ c \in Nat /\ inbox[r] = <<>> /\ own[r] = 0 /\ told[r] = 0
  <2>1. pc \in [Ranks -> {"between", "sizes", "values"}]
    BY <1>2 DEF TypeOK
  <2> QED BY <2>1, <1>1, <1>2, Counters DEF Control
<1>5a. OnlyNew(r, m)
  BY <1>1, <1>2, <1>3, OldOrNew
<1>6. TypeOK'
  BY <1>1, <1>2, <1>4 DEF TypeOK, Series
<1>7. Channels'
  <2>1. SentPos(r) = 2 * c - 1
    BY <1>1 DEF SentPos
  <2>2. SentPos(r)' = Pos(m)
    BY <1>1, <1>4, <1>5 DEF SentPos
  <2>3. \A a \in Ranks : a # r => SentPos(a)' = SentPos(a)
    BY <1>1, <1>5 DEF SentPos
  <2>4. \A a \in Ranks : TakenPos(a)' = TakenPos(a)
    <3>1. Len(inbox[r]) = 0
      BY <1>5, EmptySeq
    <3>2. TakenPos(r) = 2 * c - 1
      BY <1>1 DEF TakenPos
    <3>3. TakenPos(r)' = 2 * c - 1 + 2 * 0
      BY <1>1, <1>5, <3>1 DEF TakenPos
    <3>4. \A a \in Ranks : a # r => TakenPos(a)' = TakenPos(a)
      BY <1>1, <1>5 DEF TakenPos
    <3>5. TakenPos(r)' = TakenPos(r)
      BY <3>2, <3>3, <1>5
    <3> QED BY <3>4, <3>5
  <2>5. ASSUME NEW k \in Series
        PROVE  /\ k \in packed /\ SentPos(r) < 2 * k /\ 2 * k <= Pos(m) => Pos(m) = 2 * k
               /\ SentPos(r) < 2 * k + 1 /\ 2 * k + 1 <= Pos(m) => Pos(m) = 2 * k + 1
    <3>1. k \in Nat /\ (k \in packed => k # c)
      BY <1>1 DEF Series
    <3>2. c \in Nat /\ SentPos(r) = 2 * c - 1 /\ Pos(m) = 2 * c + 1
      BY <2>1, <1>4, <1>5
    <3> HIDE DEF c
    <3>3. SentPos(r) < 2 * k /\ 2 * k <= Pos(m) => k = c
      BY <3>1, <3>2
    <3>4. SentPos(r) < 2 * k + 1 /\ 2 * k + 1 <= Pos(m) => k = c
      BY <3>1, <3>2
    <3> QED BY <3>1, <3>2, <3>3, <3>4
  <2>6. SentPos(r) < Pos(m) /\ "value" \in {"size", "value"} /\ 0 \in Sizes \cup {0}
    BY <2>1, <1>4, <1>5
  <2>7. UNCHANGED plan
    BY <1>1 DEF plan
  <2> HIDE DEF c
  <2> QED BY <1>1, <1>2, <1>3, <2>2, <2>3, <2>4, <2>5, <2>6, <2>7, SendKeepsChannels DEF c
<1>8. Control'
  BY <1>1, <1>2, <1>5 DEF Control
<1>9. Matched'
  BY <1>1, <1>2, <1>5 DEF Matched, Source
<1>10. OneSize'
  <2>1. ASSUME NEW q \in Ranks, NEW k \in Series, NEW z, Claim(q, k, z)'
        PROVE  Claim(q, k, z) \/ (k = c /\ z = 0)
    <3>1. ASSUME NEW b \in Ranks, NEW i \in 1 .. Len(net'[q][b]),
                 net'[q][b][i].call = k, net'[q][b][i].size = z
          PROVE  Claim(q, k, z) \/ (k = c /\ z = 0)
      <4>1. \/ i \in 1 .. Len(net[q][b]) /\ net'[q][b][i] = net[q][b][i]
            \/ net'[q][b][i] = m
        BY <1>5a DEF OnlyNew
      <4> QED BY <3>1, <4>1, <1>4 DEF Claim
    <3>2. ASSUME NEW b \in Ranks, inbox[b] # <<>>, inbox[b][1].from = q, inbox[b][1].call = k,
                 inbox[b][1].size = z
          PROVE  Claim(q, k, z)
      BY <3>2 DEF Claim
    <3>3. ASSUME NEW b \in Ranks, pc'[b] = "values", call[b] = k, Source(b, k) = q, told[b] = z
          PROVE  Claim(q, k, z) \/ (k = c /\ z = 0)
      BY <3>3, <1>5 DEF Claim
    <3>4. ASSUME pc'[q] # "between", call[q] = k, own[q] = z
          PROVE  Claim(q, k, z) \/ (k = c /\ z = 0)
      BY <3>4, <1>5 DEF Claim
    <3>5. \A b : Source(b, k)' = Source(b, k)
      BY <1>1 DEF Source
    <3> QED BY <2>1, <3>1, <3>2, <3>3, <3>4, <3>5, <1>1 DEF Claim
  <2>2. \A q \in Ranks : \A z \in Sizes \cup {0} : Claim(q, c, z) => z = 0
    BY <1>1, <1>2 DEF OneSize
  <2> QED BY <2>1, <2>2, <1>1, <1>2 DEF OneSize
<1>11. RightValues'
  BY <1>1, <1>2 DEF RightValues, Source
<1> QED BY <1>6, <1>7, <1>8, <1>9, <1>10, <1>11 DEF EInv

\* An exchange of sizes keeps the invariant.
LEMMA SizesKeeps ==
    ASSUME EInv, NEW r \in Ranks, ExchangeSizes(r)
    PROVE  EInv'
<1> DEFINE c == call[r]
<1>1. PICK size \in Sizes : own' = [own EXCEPT ![r] = size] /\ net' = Sending(r, "size", size)
  BY DEF ExchangeSizes
<1>2. /\ pc[r] = "between" /\ c \in Series /\ c \in packed
      /\ pc' = [pc EXCEPT ![r] = "sizes"]
      /\ shift' = shift /\ packed' = packed /\ call' = call /\ told' = told
      /\ inbox' = inbox /\ got' = got
  BY FormsApart DEF ExchangeSizes, Category, plan
<1>3. TypeOK /\ Channels /\ Control /\ Matched /\ OneSize /\ RightValues
  BY DEF EInv
<1>4. PICK m, d : m = NewMessage(r, "size", size) /\ d = Dest(r, call[r])
  OBVIOUS
<1>5. /\ m \in Message /\ net' \in [Ranks -> [Ranks -> Seq(Message)]]
      /\ m.call = c /\ m.kind = "size" /\ m.size = size /\ Pos(m) = 2 * c
  <2>1. m \in Message /\ net' \in [Ranks -> [Ranks -> Seq(Message)]]
    <3>1. Appends(r, d, m)
      BY <1>1, <1>2, <1>3, <1>4, SendingAppends
    <3> QED BY <3>1 DEF Appends
  <2>2. m.call = c /\ m.kind = "size" /\ m.size = size
    BY <1>4 DEF NewMessage
  <2> QED BY <2>1, <2>2, Numbers
<1>6. /\ pc'[r] = "sizes" /\ \A a \in Ranks : a # r => pc'[a] = pc[a]
      /\ own'[r] = size /\ \A a \in Ranks : a # r => own'[a] = own[a]
      /\ c \in Nat /\ inbox[r] = <<>> /\ told[r] = 0
  <2>1. /\ pc \in [Ranks -> {"between", "sizes", "values"}]
        /\ own \in [Ranks -> Sizes \cup {0}]
    BY <1>3 DEF TypeOK
  <2> QED BY <2>1, <1>1, <1>2, <1>3, Counters DEF Control
<1>7. OnlyNew(r, m)
  BY <1>1, <1>2, <1>3, <1>4, OldOrNew
<1>8. TypeOK'
  BY <1>1, <1>2, <1>3, <1>5 DEF TypeOK, Series
<1>9. Channels'
  <2>1. SentPos(r) = 2 * c - 1
    BY <1>2 DEF SentPos
  <2>2. SentPos(r)' = Pos(m)
    BY <1>2, <1>5, <1>6 DEF SentPos
  <2>3. \A a \in Ranks : a # r => SentPos(a)' = SentPos(a)
    BY <1>2, <1>6 DEF SentPos
  <2>4. \A a \in Ranks : TakenPos(a)' = TakenPos(a)
    <3>1. Len(inbox[r]) = 0
      BY <1>6, EmptySeq
    <3>2. TakenPos(r) = 2 * c - 1
      BY <1>2 DEF TakenPos
    <3>3. TakenPos(r)' = 2 * c - 1 + 0
      BY <1>2, <1>6, <3>1 DEF TakenPos
    <3>4. \A a \in Ranks : a # r => TakenPos(a)' = TakenPos(a)
      BY <1>2, <1>6 DEF TakenPos
    <3>5. TakenPos(r)' = TakenPos(r)
      BY <3>2, <3>3, <1>6
    <3> QED BY <3>4, <3>5
  <2>5. ASSUME NEW k \in Series
        PROVE  /\ k \in packed /\ SentPos(r) < 2 * k /\ 2 * k <= Pos(m) => Pos(m) = 2 * k
               /\ SentPos(r) < 2 * k + 1 /\ 2 * k + 1 <= Pos(m) => Pos(m) = 2 * k + 1
    <3>1. k \in Nat /\ c \in Nat /\ SentPos(r) = 2 * c - 1 /\ Pos(m) = 2 * c
      BY <2>1, <1>5, <1>6 DEF Series
    <3> HIDE DEF c
    <3>2. SentPos(r) < 2 * k /\ 2 * k <= Pos(m) => Pos(m) = 2 * k
      BY <3>1
    <3>3. ~(SentPos(r) < 2 * k + 1 /\ 2 * k + 1 <= Pos(m))
      BY <3>1
    <3> QED BY <3>2, <3>3
  <2>6. SentPos(r) < Pos(m) /\ "size" \in {"size", "value"} /\ size \in Sizes \cup {0}
    BY <2>1, <1>5, <1>6
  <2>7. UNCHANGED plan
    BY <1>2 DEF plan
  <2> HIDE DEF c
  <2> QED BY <1>1, <1>2, <1>3, <1>4, <2>2, <2>3, <2>4, <2>5, <2>6, <2>7, SendKeepsChannels DEF c
<1>10. Control'
  BY <1>2, <1>3, <1>6 DEF Control
<1>11. Matched'
  BY <1>2, <1>3, <1>6 DEF Matched, Source
<1>12. OneSize'
  <2>1. ASSUME NEW q \in Ranks, NEW k \in Series, NEW z, Claim(q, k, z)'
        PROVE  Claim(q, k, z) \/ (q = r /\ k = c /\ z = size)
    <3>1. ASSUME NEW b \in Ranks, NEW i \in 1 .. Len(net'[q][b]),
                 net'[q][b][i].call = k, net'[q][b][i].size = z
          PROVE  Claim(q, k, z) \/ (q = r /\ k = c /\ z = size)
      <4>1. \/ i \in 1 .. Len(net[q][b]) /\ net'[q][b][i] = net[q][b][i]
            \/ q = r /\ net'[q][b][i] = m
        BY <1>7 DEF OnlyNew
      <4> QED BY <3>1, <4>1, <1>5 DEF Claim
    <3>2. ASSUME NEW b \in Ranks, inbox[b] # <<>>, inbox[b][1].from = q, inbox[b][1].call = k,
                 inbox[b][1].size = z
          PROVE  Claim(q, k, z)
      BY <3>2 DEF Claim
    <3>3. ASSUME NEW b \in Ranks, pc'[b] = "values", call[b] = k, Source(b, k) = q, told[b] = z
          PROVE  Claim(q, k, z)
      BY <3>3, <1>6 DEF Claim
    <3>4. ASSUME pc'[q] # "between", call[q] = k, own'[q] = z
          PROVE  Claim(q, k, z) \/ (q = r /\ k = c /\ z = size)
      BY <3>4, <1>6 DEF Claim
    <3>5. \A b : Source(b, k)' = Source(b, k)
      BY <1>2 DEF Source
    <3> QED BY <2>1, <3>1, <3>2, <3>3, <3>4, <3>5, <1>2 DEF Claim
  <2>2. \A z : ~Claim(r, c, z)
    BY <1>2, <1>3, NoClaimYet
  <2> QED BY <2>1, <2>2, <1>2, <1>3 DEF OneSize
<1>13. RightValues'
  BY <1>2, <1>3 DEF RightValues, Source
<1> QED BY <1>8, <1>9, <1>10, <1>11, <1>12, <1>13 DEF EInv

\* An exchange of packages keeps the invariant.
LEMMA PackagesKeeps ==
    ASSUME EInv, NEW r \in Ranks, ExchangePackages(r)
    PROVE  EInv'
<1> DEFINE c == call[r]
           size == own[r]
           head == inbox[r][1]
<1>1. TypeOK /\ Channels /\ Control /\ Matched /\ OneSize /\ RightValues
  BY DEF EInv
<1>2. /\ inbox \in [Ranks -> Seq(Message)] /\ inbox[r] # <<>> /\ Len(inbox[r]) = 1
      /\ head \in Message /\ Head(inbox[r]) = head
  <2>1. inbox \in [Ranks -> Seq(Message)] /\ inbox[r] # <<>> /\ Len(inbox[r]) <= 1
    BY <1>1 DEF ExchangePackages, Received, TypeOK
  <2>2. inbox[r] \in Seq(Message) /\ Len(inbox[r]) \in Nat /\ Len(inbox[r]) # 0
    BY <2>1, LenProperties, EmptySeq
  <2>3. Len(inbox[r]) = 1
    <3>1. \A n \in Nat : n # 0 /\ n <= 1 => n = 1
      OBVIOUS
    <3> QED BY <2>1, <2>2, <3>1
  <2>4. head \in Message
    BY <2>2, <2>3, ElementOfSeq
  <2> QED BY <2>1, <2>3, <2>4
<1>3. /\ pc[r] = "sizes" /\ c \in Series /\ c \in packed
      /\ told' = [told EXCEPT ![r] = head.size] /\ inbox' = [inbox EXCEPT ![r] = <<>>]
      /\ net' = Sending(r, "value", size) /\ pc' = [pc EXCEPT ![r] = "values"]
      /\ shift' = shift /\ packed' = packed /\ call' = call /\ own' = own /\ got' = got
  BY <1>1, <1>2 DEF ExchangePackages, Control, plan
<1>4. PICK m, d : m = NewMessage(r, "value", size) /\ d = Dest(r, call[r])
  OBVIOUS
<1>5. size \in Sizes \cup {0} /\ head.size \in Sizes \cup {0}
  BY <1>1, <1>2, Numbers DEF TypeOK
<1> HIDE DEF size, head
<1>6. /\ m \in Message /\ net' \in [Ranks -> [Ranks -> Seq(Message)]]
      /\ m.call = c /\ m.kind = "value" /\ m.size = size /\ Pos(m) = 2 * c + 1
  <2>1. m \in Message /\ net' \in [Ranks -> [Ranks -> Seq(Message)]]
    <3>1. Appends(r, d, m)
      BY <1>1, <1>3, <1>4, <1>5, SendingAppends
    <3> QED BY <3>1 DEF Appends
  <2>2. m.call = c /\ m.kind = "value" /\ m.size = size
    BY <1>4 DEF NewMessage
  <2> QED BY <2>1, <2>2, Numbers
<1>7. /\ pc'[r] = "values" /\ \A a \in Ranks : a # r => pc'[a] = pc[a]
      /\ told'[r] = head.size /\ \A a \in Ranks : a # r => told'[a] = told[a]
      /\ inbox'[r] = <<>> /\ \A a \in Ranks : a # r => inbox'[a] = inbox[a]
      /\ c \in Nat
  <2>1. /\ pc \in [Ranks -> {"between", "sizes", "values"}]
        /\ told \in [Ranks -> Sizes \cup {0}]
    BY <1>1 DEF TypeOK
  <2> QED BY <2>1, <1>1, <1>2, <1>3, Counters
<1>8. OnlyNew(r, m)
  BY <1>1, <1>3, <1>4, <1>5, OldOrNew
<1>9. TypeOK'
  <2>1. inbox' \in [Ranks -> Seq(Message)] /\ \A a \in Ranks : Len(inbox'[a]) <= 1
    <3>1. <<>> \in Seq(Message) /\ Len(<<>>) = 0
      BY EmptySeq
    <3> QED BY <3>1, <1>1, <1>2, <1>3, <1>7 DEF TypeOK
  <2>2. told' \in [Ranks -> Sizes \cup {0}] /\ pc' \in [Ranks -> {"between", "sizes", "values"}]
    BY <1>1, <1>3, <1>5 DEF TypeOK
  <2> QED BY <2>1, <2>2, <1>1, <1>3, <1>6 DEF TypeOK, Series
<1>10. Channels'
  <2>1. SentPos(r) = 2 * c
    BY <1>3 DEF SentPos
  <2>2. SentPos(r)' = Pos(m)
    BY <1>3, <1>6, <1>7 DEF SentPos
  <2>3. \A a \in Ranks : a # r => SentPos(a)' = SentPos(a)
    BY <1>3, <1>7 DEF SentPos
  <2>4. \A a \in Ranks : TakenPos(a)' = TakenPos(a)
    <3>1. Len(inbox'[r]) = 0
      BY <1>7, EmptySeq
    <3>2. TakenPos(r) = 2 * c - 1 + 1
      BY <1>2, <1>3 DEF TakenPos
    <3>3. TakenPos(r)' = 2 * c + 0
      BY <1>3, <1>7, <3>1 DEF TakenPos
    <3>4. \A a \in Ranks : a # r => TakenPos(a)' = TakenPos(a)
      BY <1>3, <1>7 DEF TakenPos
    <3>5. TakenPos(r)' = TakenPos(r)
      BY <3>2, <3>3, <1>7
    <3> QED BY <3>4, <3>5
  <2>5. ASSUME NEW k \in Series
        PROVE  /\ k \in packed /\ SentPos(r) < 2 * k /\ 2 * k <= Pos(m) => Pos(m) = 2 * k
               /\ SentPos(r) < 2 * k + 1 /\ 2 * k + 1 <= Pos(m) => Pos(m) = 2 * k + 1
    <3>1. k \in Nat /\ c \in Nat /\ SentPos(r) = 2 * c /\ Pos(m) = 2 * c + 1
      BY <2>1, <1>6, <1>7 DEF Series
    <3> HIDE DEF c
    <3>2. ~(SentPos(r) < 2 * k /\ 2 * k <= Pos(m))
      BY <3>1
    <3>3. SentPos(r) < 2 * k + 1 /\ 2 * k + 1 <= Pos(m) => Pos(m) = 2 * k + 1
      BY <3>1
    <3> QED BY <3>2, <3>3
  <2>6. SentPos(r) < Pos(m) /\ "value" \in {"size", "value"}
    BY <2>1, <1>6, <1>7
  <2>7. UNCHANGED plan
    BY <1>3 DEF plan
  <2> HIDE DEF c
  <2> QED BY <1>1, <1>3, <1>4, <1>5, <2>2, <2>3, <2>4, <2>5, <2>6, <2>7, SendKeepsChannels DEF c
<1>11. Control'
  BY <1>1, <1>3, <1>7 DEF Control
<1>12. Matched'
  BY <1>1, <1>3, <1>7 DEF Matched, Source
<1>13. OneSize'
  <2>1. ASSUME NEW q \in Ranks, NEW k \in Series, NEW z, Claim(q, k, z)'
        PROVE  Claim(q, k, z)
    <3>0. Claim(r, c, size) /\ Claim(Source(r, c), c, head.size)
      <4>1. head.from = Source(r, c) /\ head.call = c
        BY <1>1, <1>2 DEF Matched, head
      <4> QED BY <4>1, <1>2, <1>3 DEF Claim, size, head
    <3>1. ASSUME NEW b \in Ranks, NEW i \in 1 .. Len(net'[q][b]),
                 net'[q][b][i].call = k, net'[q][b][i].size = z
          PROVE  Claim(q, k, z)
      <4>1. \/ i \in 1 .. Len(net[q][b]) /\ net'[q][b][i] = net[q][b][i]
            \/ q = r /\ net'[q][b][i] = m
        BY <1>8 DEF OnlyNew
      <4>2. CASE i \in 1 .. Len(net[q][b]) /\ net'[q][b][i] = net[q][b][i]
        BY <3>1, <4>2 DEF Claim
      <4>3. CASE q = r /\ net'[q][b][i] = m
        <5>1. q = r /\ k = c /\ z = size
          BY <3>1, <4>3, <1>6
        <5> QED BY <3>0, <5>1
      <4> QED BY <4>1, <4>2, <4>3
    <3>2. ASSUME NEW b \in Ranks, inbox'[b] # <<>>, inbox'[b][1].from = q, inbox'[b][1].call = k,
                 inbox'[b][1].size = z
          PROVE  Claim(q, k, z)
      <4>1. inbox'[b] = inbox[b]
        BY <3>2, <1>7
      <4> QED BY <3>2, <4>1 DEF Claim
    <3>3. ASSUME NEW b \in Ranks, pc'[b] = "values", call[b] = k, Source(b, k) = q, told'[b] = z
          PROVE  Claim(q, k, z)
      <4>1. CASE b = r
        <5>1. k = c /\ q = Source(r, c) /\ z = head.size
          BY <3>3, <4>1, <1>7
        <5> QED BY <3>0, <5>1
      <4>2. CASE b # r
        BY <3>3, <4>2, <1>7 DEF Claim
      <4> QED BY <4>1, <4>2
    <3>4. ASSUME pc'[q] # "between", call[q] = k, own[q] = z
          PROVE  Claim(q, k, z)
      BY <3>4, <1>3, <1>7 DEF Claim
    <3>5. \A b : Source(b, k)' = Source(b, k)
      BY <1>3 DEF Source
    <3> QED BY <2>1, <3>1, <3>2, <3>3, <3>4, <3>5, <1>3 DEF Claim
  <2> QED BY <2>1, <1>1, <1>3, FewerClaims
<1>14. RightValues'
  BY <1>1, <1>3 DEF RightValues, Source
<1> QED BY <1>9, <1>10, <1>11, <1>12, <1>13, <1>14 DEF EInv

\* The return of a call keeps the invariant.
LEMMA ReturnKeeps ==
    ASSUME EInv, NEW r \in Ranks, Return(r)
    PROVE  EInv'
<1> DEFINE c == call[r]
           head == inbox[r][1]
<1>1. TypeOK /\ Channels /\ Control /\ Matched /\ OneSize /\ RightValues
  BY DEF EInv
<1>2. /\ inbox \in [Ranks -> Seq(Message)] /\ inbox[r] # <<>> /\ Len(inbox[r]) = 1
      /\ head \in Message /\ Head(inbox[r]) = head
  <2>1. inbox \in [Ranks -> Seq(Message)] /\ inbox[r] # <<>> /\ Len(inbox[r]) <= 1
    BY <1>1 DEF Return, Received, TypeOK
  <2>2. inbox[r] \in Seq(Message) /\ Len(inbox[r]) \in Nat /\ Len(inbox[r]) # 0
    BY <2>1, LenProperties, EmptySeq
  <2>3. Len(inbox[r]) = 1
    <3>1. \A n \in Nat : n # 0 /\ n <= 1 => n = 1
      OBVIOUS
    <3> QED BY <2>1, <2>2, <3>1
  <2>4. head \in Message
    BY <2>2, <2>3, ElementOfSeq
  <2> QED BY <2>1, <2>3, <2>4
<1>3. /\ pc[r] = "values" /\ c \in Series /\ inbox' = [inbox EXCEPT ![r] = <<>>]
      /\ got' = [got EXCEPT ![r] = Append(@, <<head.from, head.call>>)]
      /\ call' = [call EXCEPT ![r] = @ + 1] /\ pc' = [pc EXCEPT ![r] = "between"]
      /\ own' = [own EXCEPT ![r] = 0] /\ told' = [told EXCEPT ![r] = 0]
      /\ net' = net /\ shift' = shift /\ packed' = packed
  BY <1>1, <1>2 DEF Return, Control, plan
<1>4. head.from = Source(r, c) /\ head.call = c /\ head.from \in Ranks
  BY <1>1, <1>2, Numbers DEF Matched
<1>5. /\ pc'[r] = "between" /\ own'[r] = 0 /\ told'[r] = 0 /\ inbox'[r] = <<>>
      /\ call'[r] = c + 1 /\ got'[r] = Append(got[r], <<head.from, c>>)
      /\ \A a \in Ranks : a # r =>
            /\ pc'[a] = pc[a] /\ own'[a] = own[a] /\ told'[a] = told[a]
            /\ inbox'[a] = inbox[a] /\ call'[a] = call[a] /\ got'[a] = got[a]
      /\ c \in Nat
  <2>1. /\ pc \in [Ranks -> {"between", "sizes", "values"}] /\ call \in [Ranks -> 1 .. Calls + 1]
        /\ told \in [Ranks -> Sizes \cup {0}] /\ own \in [Ranks -> Sizes \cup {0}]
        /\ got \in [Ranks -> Seq(Ranks \X Series)]
    BY <1>1 DEF TypeOK
  <2> HIDE DEF head
  <2> QED BY <2>1, <1>1, <1>2, <1>3, <1>4, Counters
<1>6. /\ got[r] \in Seq(Ranks \X Series) /\ Len(got[r]) = c - 1
      /\ got'[r] \in Seq(Ranks \X Series) /\ Len(got'[r]) = c
      /\ \A k \in 1 .. c - 1 : got'[r][k] = got[r][k]
      /\ got'[r][c] = <<Source(r, c), c>>
  <2>1. got[r] \in Seq(Ranks \X Series) /\ Len(got[r]) = c - 1
    BY <1>1 DEF TypeOK
  <2>2. <<head.from, c>> \in Ranks \X Series
    BY <1>3, <1>4
  <2> HIDE DEF head
  <2>3. /\ got'[r] \in Seq(Ranks \X Series) /\ Len(got'[r]) = Len(got[r]) + 1
        /\ \A k \in 1 .. Len(got[r]) : got'[r][k] = got[r][k]
        /\ got'[r][Len(got[r]) + 1] = <<head.from, c>>
    BY <2>1, <2>2, <1>5, AppendProperties
  <2>4. Len(got[r]) + 1 = c
    BY <2>1, <1>5
  <2> QED BY <2>1, <2>3, <2>4, <1>4
<1> HIDE DEF head
<1>7. TypeOK'
  <2>1. inbox' \in [Ranks -> Seq(Message)] /\ \A a \in Ranks : Len(inbox'[a]) <= 1
    <3>1. <<>> \in Seq(Message) /\ Len(<<>>) = 0
      BY EmptySeq
    <3> QED BY <3>1, <1>1, <1>2, <1>3, <1>5 DEF TypeOK
  <2>2. /\ told' \in [Ranks -> Sizes \cup {0}] /\ own' \in [Ranks -> Sizes \cup {0}]
        /\ pc' \in [Ranks -> {"between", "sizes", "values"}]
    BY <1>1, <1>3 DEF TypeOK
  <2>3. call' \in [Ranks -> 1 .. Calls + 1]
    <3>1. c + 1 \in 1 .. Calls + 1
      BY <1>3, SizeAssumption DEF Series
    <3> QED BY <3>1, <1>1, <1>3 DEF TypeOK
  <2>4. got' \in [Ranks -> Seq(Ranks \X Series)]
    <3>1. got' = [got EXCEPT ![r] = got'[r]] /\ got \in [Ranks -> Seq(Ranks \X Series)]
      BY <1>1, <1>3 DEF TypeOK
    <3> QED BY <3>1, <1>6
  <2>5. ASSUME NEW a \in Ranks
        PROVE  Len(got'[a]) = call'[a] - 1
    <3>1. CASE a = r
      <4>1. c = c + 1 - 1
        BY <1>5
      <4> QED BY <3>1, <4>1, <1>5, <1>6
    <3>2. CASE a # r
      BY <3>2, <1>1, <1>5 DEF TypeOK
    <3> QED BY <3>1, <3>2
  <2> QED BY <2>1, <2>2, <2>3, <2>4, <2>5, <1>1, <1>3 DEF TypeOK, Series
<1>8. Channels'
  <2>1. ASSUME NEW a \in Ranks
        PROVE  SentPos(a)' = SentPos(a) /\ TakenPos(a)' = TakenPos(a)
    <3>1. CASE a # r
      BY <3>1, <1>3, <1>5 DEF SentPos, TakenPos
    <3>2. CASE a = r
      <4>1. SentPos(r) = 2 * c + 1 /\ TakenPos(r) = (IF c \in packed THEN 2 * c + 1 ELSE 2 * c - 1 + 2 * 1)
        BY <1>2, <1>3 DEF SentPos, TakenPos
      <4>2. SentPos(r)' = 2 * (c + 1) - 1 /\ TakenPos(r)' = 2 * (c + 1) - 1
        BY <1>5 DEF SentPos, TakenPos
      <4>3. SentPos(r)' = SentPos(r) /\ TakenPos(r)' = TakenPos(r)
        BY <4>1, <4>2, <1>5
      <4> QED BY <3>2, <4>3
    <3> QED BY <3>1, <3>2
  <2>2. \A a \in Ranks : \A k \in Series : Source(a, k) \in Ranks
    BY <1>1, SourceOfDest
  <2>3. UNCHANGED plan
    BY <1>3 DEF plan
  <2> QED BY <2>1, <2>2, <2>3, <1>1, <1>3, StillKeepsChannels
<1>9. Control'
  BY <1>1, <1>3, <1>5 DEF Control
<1>10. Matched'
  BY <1>1, <1>3, <1>5 DEF Matched, Source
<1>11. OneSize'
  <2>1. ASSUME NEW q \in Ranks, NEW k \in Series, NEW z, Claim(q, k, z)'
        PROVE  Claim(q, k, z)
    <3>1. ASSUME NEW b \in Ranks, inbox'[b] # <<>>, inbox'[b][1].from = q, inbox'[b][1].call = k,
                 inbox'[b][1].size = z
          PROVE  Claim(q, k, z)
      <4>1. inbox'[b] = inbox[b]
        BY <3>1, <1>5
      <4> QED BY <3>1, <4>1 DEF Claim
    <3>2. ASSUME NEW b \in Ranks, pc'[b] = "values", call'[b] = k, Source(b, k) = q, told'[b] = z
          PROVE  Claim(q, k, z)
      BY <3>2, <1>5 DEF Claim
    <3>3. ASSUME pc'[q] # "between", call'[q] = k, own'[q] = z
          PROVE  Claim(q, k, z)
      BY <3>3, <1>5 DEF Claim
    <3>4. \A b : Source(b, k)' = Source(b, k)
      BY <1>3 DEF Source
    <3> QED BY <2>1, <3>1, <3>2, <3>3, <3>4, <1>3 DEF Claim
  <2> QED BY <2>1, <1>1, <1>3, FewerClaims
<1>12. RightValues'
  <2>1. ASSUME NEW a \in Ranks, NEW k \in 1 .. Len(got'[a])
        PROVE  got'[a][k] = <<Source(a, k), k>>
    <3>1. CASE a # r
      BY <2>1, <3>1, <1>1, <1>5 DEF RightValues
    <3>2. CASE a = r /\ k = c
      BY <3>2, <1>6
    <3>3. CASE a = r /\ k # c
      <4>1. k \in 1 .. c - 1 /\ k \in 1 .. Len(got[r])
        BY <3>3, <1>5, <1>6
      <4> QED BY <3>3, <4>1, <1>1, <1>6 DEF RightValues
    <3> QED BY <3>1, <3>2, <3>3
  <2>2. \A a, k : Source(a, k)' = Source(a, k)
    BY <1>3 DEF Source
  <2> QED BY <2>1, <2>2 DEF RightValues
<1> QED BY <1>7, <1>8, <1>9, <1>10, <1>11, <1>12 DEF EInv

\* The match of a receive keeps the invariant.
LEMMA MatchKeeps ==
    ASSUME EInv, SourceGiven, NEW r \in Ranks, Match(r)
    PROVE  EInv'
<1>1. TypeOK /\ Channels /\ Control /\ Matched /\ OneSize /\ RightValues
  BY DEF EInv
<1>2. PICK q, h : q = Source(r, call[r]) /\ h = net[q][r][1]
  OBVIOUS
<1>3. /\ q \in Ranks /\ call[r] \in Series
      /\ 1 \in 1 .. Len(net[q][r]) /\ h \in Message /\ h.from = q /\ h.call = call[r]
      /\ h.kind = "size" <=> pc[r] = "sizes"
      /\ inbox[r] = <<>> /\ inbox' = [inbox EXCEPT ![r] = <<h>>]
      /\ net' \in [Ranks -> [Ranks -> Seq(Message)]]
      /\ \A a, b \in Ranks : ~(a = q /\ b = r) => net'[a][b] = net[a][b]
      /\ Len(net'[q][r]) = Len(net[q][r]) - 1
      /\ \A i \in 1 .. Len(net[q][r]) - 1 : net'[q][r][i] = net[q][r][i + 1]
  <2>1. Takes(q, r, h)
    BY <1>1, <1>2, MatchTakes
  <2> QED BY <2>1 DEF Takes
<1>4. /\ pc[r] # "between" /\ shift' = shift /\ packed' = packed /\ call' = call /\ pc' = pc
      /\ own' = own /\ told' = told /\ got' = got
  BY DEF Match, plan
<1>5. /\ inbox'[r] = <<h>> /\ \A a \in Ranks : a # r => inbox'[a] = inbox[a]
      /\ <<h>> \in Seq(Message) /\ Len(<<h>>) = 1 /\ <<h>>[1] = h
      /\ inbox \in [Ranks -> Seq(Message)]
  <2>1. inbox \in [Ranks -> Seq(Message)]
    BY <1>1 DEF TypeOK
  <2> QED BY <2>1, <1>3
<1>6. TypeOK'
  <2>1. inbox' \in [Ranks -> Seq(Message)] /\ \A a \in Ranks : Len(inbox'[a]) <= 1
    <3>1. inbox' \in [Ranks -> Seq(Message)]
      BY <1>3, <1>5
    <3>2. \A a \in Ranks : Len(inbox[a]) <= 1
      BY <1>1 DEF TypeOK
    <3>3. ASSUME NEW a \in Ranks
          PROVE  Len(inbox'[a]) <= 1
      <4>1. CASE a = r
        BY <4>1, <1>5
      <4>2. CASE a # r
        BY <4>2, <3>2, <1>5
      <4> QED BY <4>1, <4>2
    <3> QED BY <3>1, <3>3
  <2> QED BY <2>1, <1>1, <1>3, <1>4 DEF TypeOK, Series
<1>7. Channels'
  BY <1>1, MatchKeepsChannels
<1>8. Control'
  <2>1. ASSUME NEW a \in Ranks, pc[a] = "between"
        PROVE  inbox'[a] = <<>>
    BY <2>1, <1>1, <1>4, <1>5 DEF Control
  <2> QED BY <2>1, <1>1, <1>4 DEF Control
<1>9. Matched'
  <2>1. ASSUME NEW a \in Ranks, inbox'[a] # <<>>
        PROVE  /\ inbox'[a][1].from = Source(a, call[a]) /\ inbox'[a][1].call = call[a]
               /\ inbox'[a][1].kind = "size" <=> pc[a] = "sizes"
    <3>1. CASE a = r
      BY <3>1, <1>2, <1>3, <1>5
    <3>2. CASE a # r
      BY <2>1, <3>2, <1>1, <1>5 DEF Matched
    <3> QED BY <3>1, <3>2
  <2>2. \A a, k : Source(a, k)' = Source(a, k)
    BY <1>4 DEF Source
  <2> QED BY <2>1, <2>2, <1>4 DEF Matched
<1>10. OneSize'
  <2>1. ASSUME NEW s \in Ranks, NEW k \in Series, NEW z, Claim(s, k, z)'
        PROVE  Claim(s, k, z)
    <3>1. ASSUME NEW b \in Ranks, NEW i \in 1 .. Len(net'[s][b]),
                 net'[s][b][i].call = k, net'[s][b][i].size = z
          PROVE  Claim(s, k, z)
      <4>1. CASE ~(s = q /\ b = r)
        <5>1. net'[s][b] = net[s][b]
          BY <4>1, <1>3
        <5> QED BY <3>1, <5>1 DEF Claim
      <4>2. CASE s = q /\ b = r
        <5>1. Len(net[q][r]) \in Nat
          BY <1>1, <1>3, ChannelMessages
        <5>2. i \in 1 .. Len(net[q][r]) - 1 /\ i + 1 \in 1 .. Len(net[q][r])
          BY <5>1, <4>2, <1>3
        <5>3. net'[s][b][i] = net[q][r][i + 1]
          BY <5>2, <4>2, <1>3
        <5> QED BY <3>1, <4>2, <5>2, <5>3 DEF Claim
      <4> QED BY <4>1, <4>2
    <3>2. ASSUME NEW b \in Ranks, inbox'[b] # <<>>, inbox'[b][1].from = s, inbox'[b][1].call = k,
                 inbox'[b][1].size = z
          PROVE  Claim(s, k, z)
      <4>1. CASE b = r
        <5>1. s = q /\ net[s][r][1].call = k /\ net[s][r][1].size = z
          BY <3>2, <4>1, <1>2, <1>3, <1>5
        <5> QED BY <5>1, <1>3 DEF Claim
      <4>2. CASE b # r
        BY <3>2, <4>2, <1>5 DEF Claim
      <4> QED BY <4>1, <4>2
    <3>3. \A b : Source(b, k)' = Source(b, k)
      BY <1>4 DEF Source
    <3> QED BY <2>1, <3>1, <3>2, <3>3, <1>4 DEF Claim
  <2> QED BY <2>1, <1>1, <1>4, FewerClaims
<1>11. RightValues'
  BY <1>1, <1>4 DEF RightValues, Source
<1> QED BY <1>6, <1>7, <1>8, <1>9, <1>10, <1>11 DEF EInv
-----------------------------------------------------------------------------
(* The theorems.                                                           *)

\* The invariant holds at first: nothing was sent and no rank is in a call.
LEMMA InvariantInit == Init => EInv
<1> SUFFICES ASSUME Init PROVE EInv
  OBVIOUS
<1>1. /\ \A a \in Ranks : call[a] = 1 /\ pc[a] = "between" /\ inbox[a] = <<>> /\ got[a] = <<>>
                         /\ own[a] = 0 /\ told[a] = 0
      /\ \A a, b \in Ranks : net[a][b] = <<>>
      /\ shift \in [Series -> Ranks] /\ packed \subseteq Series
  BY DEF Init
<1>2. Len(<<>>) = 0 /\ \A S : <<>> \in Seq(S)
  BY EmptySeq
<1>3. TypeOK
  <2>1. 1 \in 1 .. Calls + 1
    BY SizeAssumption
  <2>2. call \in [Ranks -> 1 .. Calls + 1] /\ pc \in [Ranks -> {"between", "sizes", "values"}]
    BY <2>1 DEF Init
  <2>3. own \in [Ranks -> Sizes \cup {0}] /\ told \in [Ranks -> Sizes \cup {0}]
    BY DEF Init
  <2>4. /\ net \in [Ranks -> [Ranks -> Seq(Message)]] /\ inbox \in [Ranks -> Seq(Message)]
        /\ got \in [Ranks -> Seq(Ranks \X Series)]
    BY <1>2 DEF Init
  <2>5. \A a \in Ranks : Len(inbox[a]) <= 1 /\ Len(got[a]) = call[a] - 1
    BY <1>1, <1>2
  <2> QED BY <1>1, <2>2, <2>3, <2>4, <2>5 DEF TypeOK
<1>4. Channels
  <2>1. \A a, b \in Ranks : Len(net[a][b]) = 0
    BY <1>1, <1>2
  <2>2. InOrder /\ OfTheirChannel
    BY <2>1 DEF InOrder, OfTheirChannel
  <2>3. \A a \in Ranks : SentPos(a) = 2 * 1 - 1 /\ TakenPos(a) = 2 * 1 - 1
    BY <1>1 DEF SentPos, TakenPos
  <2>4. \A k \in Series : k \in Nat /\ 1 <= k
    BY DEF Series
  <2>5. NoneLost
    <3> SUFFICES ASSUME NEW q \in Ranks, NEW r \in Ranks, NEW k \in Series
                 PROVE  ~(2 * k <= SentPos(q)) /\ ~(2 * k + 1 <= SentPos(q))
      BY DEF NoneLost
    <3> QED BY <2>3, <2>4
  <2>6. TakenWasSent
    <3> SUFFICES ASSUME NEW r \in Ranks, NEW k \in Series
                 PROVE  ~(2 * k <= TakenPos(r)) /\ ~(2 * k + 1 <= TakenPos(r))
      BY DEF TakenWasSent
    <3> QED BY <2>3, <2>4
  <2> QED BY <2>2, <2>5, <2>6 DEF Channels
<1>5. Control /\ Matched
  BY <1>1 DEF Control, Matched
<1>6. OneSize
  <2>1. ASSUME NEW q \in Ranks, NEW k \in Series, NEW z
        PROVE  ~Claim(q, k, z)
    <3>1. \A b \in Ranks : Len(net[q][b]) = 0
      BY <1>1, <1>2
    <3> QED BY <3>1, <1>1 DEF Claim
  <2> QED BY <2>1 DEF OneSize
<1>7. RightValues
  BY <1>1, <1>2 DEF RightValues
<1> QED BY <1>3, <1>4, <1>5, <1>6, <1>7 DEF EInv

\* Every step keeps it.
LEMMA InvariantStep == SourceGiven /\ EInv /\ [Next]_vars => EInv'
<1> SUFFICES ASSUME SourceGiven, EInv, [Next]_vars PROVE EInv'
  OBVIOUS
<1>1. ASSUME NEW r \in Ranks, Step(r)
      PROVE  EInv'
  <2>1. CASE ExchangeBasic(r)
    BY <2>1, BasicKeeps
  <2>2. CASE ExchangeSizes(r)
    BY <2>2, SizesKeeps
  <2>3. CASE ExchangePackages(r)
    BY <2>3, PackagesKeeps
  <2>4. CASE Return(r)
    BY <2>4, ReturnKeeps
  <2>5. CASE Match(r)
    BY <2>5, MatchKeeps
  <2> QED BY <1>1, <2>1, <2>2, <2>3, <2>4, <2>5 DEF Step
<1>2. CASE UNCHANGED vars
  <2>1. /\ shift' = shift /\ packed' = packed /\ call' = call /\ pc' = pc /\ own' = own
        /\ told' = told /\ net' = net /\ inbox' = inbox /\ got' = got
        /\ \A a, k : Source(a, k)' = Source(a, k)
    BY <1>2 DEF vars, Source
  <2>2. TypeOK'
    BY <2>1 DEF EInv, TypeOK, Series
  <2>3. Channels'
    <3>1. \A a \in Ranks : SentPos(a)' = SentPos(a) /\ TakenPos(a)' = TakenPos(a)
      BY <2>1 DEF SentPos, TakenPos
    <3>2. \A a \in Ranks : \A k \in Series : Source(a, k) \in Ranks
      BY SourceOfDest DEF EInv
    <3>3. Channels /\ UNCHANGED plan
      BY <2>1 DEF EInv, plan
    <3> QED BY <2>1, <3>1, <3>2, <3>3, StillKeepsChannels
  <2>4. Control' /\ Matched' /\ RightValues'
    BY <2>1 DEF EInv, Control, Matched, RightValues
  <2>5. OneSize'
    <3>1. OneSize /\ \A q, k, z : Claim(q, k, z)' => Claim(q, k, z)
      BY <2>1 DEF EInv, Claim
    <3> QED BY <2>1, <3>1, FewerClaims
  <2> QED BY <2>2, <2>3, <2>4, <2>5 DEF EInv
<1> QED BY <1>1, <1>2 DEF Next, Finished

\* The messages of a channel are those of the calls between the receiver's and the
\* sender's, in their order, and all who know the size of a package agree.
THEOREM ExchangeInvariant == SourceGiven /\ Spec => []EInv
<1> SUFFICES ASSUME SourceGiven PROVE Spec => []EInv
  OBVIOUS
<1>1. EInv /\ [Next]_vars => EInv'
  BY InvariantStep
<1> QED BY <1>1, InvariantInit, PTL DEF Spec

\* Type correctness, of a program that gives its sources.
THEOREM ExchangeTypes == SourceGiven /\ Spec => []TypeOK
<1>1. EInv => TypeOK
  BY DEF EInv
<1> QED BY <1>1, ExchangeInvariant, PTL

\* The assertion of send_receive, and what it takes for granted: sizes are received where
\* sizes are expected, packages have the size announced, and no message outlives its call.
THEOREM ExchangeNothingMisread == SourceGiven /\ Spec => []NothingMisread
<1>1. EInv => NothingMisread
  <2> SUFFICES ASSUME EInv PROVE NothingMisread
    OBVIOUS
  <2>1. TypeOK /\ Channels /\ Control /\ Matched /\ OneSize
    BY DEF EInv
  <2>2. ASSUME NEW r \in Ranks, inbox[r] # <<>>
        PROVE  Fits(r)
    <3> DEFINE h == inbox[r][1]
               q == Source(r, call[r])
    <3>1. /\ inbox[r] \in Seq(Message) /\ Head(inbox[r]) = h /\ h \in Message
          /\ Len(inbox[r]) \in Nat \ {0}
      <4>1. inbox[r] \in Seq(Message)
        BY <2>1 DEF TypeOK
      <4>2. Len(inbox[r]) \in Nat \ {0}
        BY <4>1, <2>2, LenProperties, EmptySeq
      <4> QED BY <4>1, <4>2, <2>2, ElementOfSeq
    <3>2. /\ h.from = q /\ h.call = call[r] /\ (h.kind = "size" <=> pc[r] = "sizes")
          /\ pc[r] # "between" /\ call[r] \in Series
      BY <2>1, <2>2 DEF Matched, Control
    <3>3. CASE pc[r] = "sizes"
      BY <3>1, <3>2, <3>3 DEF Fits
    <3>4. CASE pc[r] # "sizes"
      <4>1. pc[r] = "values" /\ h.kind = "value"
        BY <2>1, <3>1, <3>2, <3>4, Numbers DEF TypeOK
      <4>2. Claim(q, call[r], h.size)
        BY <2>2, <3>2 DEF Claim
      <4>3. Claim(q, call[r], told[r])
        BY <4>1 DEF Claim
      <4>4. q \in Ranks /\ told[r] \in Sizes \cup {0} /\ h.size \in Sizes \cup {0}
        BY <2>1, <3>1, <3>2, SourceOfDest, Numbers DEF TypeOK
      <4> HIDE DEF h, q
      <4>5. h.size = told[r]
        BY <2>1, <3>2, <4>2, <4>3, <4>4 DEF OneSize
      <4> QED BY <3>1, <3>4, <4>1, <4>5 DEF Fits
    <3> QED BY <3>3, <3>4
  <2>3. ASSUME NEW r \in Ranks, NEW q \in Ranks, NEW i \in 1 .. Len(net[r][q])
        PROVE  net[r][q][i].call >= call[q]
    <3>1. net[r][q][i] \in Message /\ TakenPos(q) < Pos(net[r][q][i])
      BY <2>1, ChannelMessages DEF Channels, OfTheirChannel, InTransit
    <3>2. call[q] \in Nat /\ TakenPos(q) \in Int /\ 2 * call[q] - 1 <= TakenPos(q)
      BY <2>1, Counters
    <3> DEFINE m == net[r][q][i]
    <3>3. m \in Message /\ TakenPos(q) < Pos(m)
      BY <3>1
    <3> HIDE DEF m
    <3>4. m.call \in Nat /\ (Pos(m) = 2 * m.call \/ Pos(m) = 2 * m.call + 1)
      BY <3>3, Numbers DEF Series
    <3>5. m.call >= call[q]
      BY <3>2, <3>3, <3>4
    <3> QED BY <3>5 DEF m
  <2> QED BY <2>2, <2>3 DEF NothingMisread
<1> QED BY <1>1, ExchangeInvariant, PTL

\* Each call returns the values that its source gave to the same call.
THEOREM ExchangeRightValues == SourceGiven /\ Spec => []RightValues
<1>1. EInv => RightValues
  BY DEF EInv
<1> QED BY <1>1, ExchangeInvariant, PTL
=============================================================================
