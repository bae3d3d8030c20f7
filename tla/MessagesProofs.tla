---------------------------- MODULE MessagesProofs ----------------------------
(***************************************************************************)
(* Messages for any values, any number of senders and any series of        *)
(* messages: each receive has the values of the sender's message of the    *)
(* same number.                                                            *)
(***************************************************************************)
EXTENDS Messages, PackagesProofs, FiniteSetTheorems
-----------------------------------------------------------------------------
(* Places in sequences.                                                    *)

LEMMA RemoveAtIs ==
    ASSUME NEW f, IsSeq(f), NEW i \in 1 .. Len(f)
    PROVE  /\ IsSeq(RemoveAt(f, i)) /\ Len(RemoveAt(f, i)) = Len(f) - 1
           /\ DOMAIN RemoveAt(f, i) = 1 .. Len(f) - 1
           /\ \A j \in 1 .. Len(f) - 1 : RemoveAt(f, i)[j] = IF j < i THEN f[j] ELSE f[j + 1]
<1>1. PICK S : f \in Seq(S)
  BY InSomeSeq
<1>2. PICK a : a = SubSeq(f, 1, i - 1)
  OBVIOUS
<1>3. PICK b : b = SubSeq(f, i + 1, Len(f))
  OBVIOUS
<1>4. a \in Seq(S) /\ Len(a) = i - 1 /\ \A j \in 1 .. i - 1 : a[j] = f[j]
  BY <1>1, <1>2
<1>5. b \in Seq(S) /\ Len(b) = Len(f) - i /\ \A j \in 1 .. Len(f) - i : b[j] = f[i + j]
  BY <1>1, <1>3
<1>6. RemoveAt(f, i) = a \o b
  BY <1>2, <1>3 DEF RemoveAt
<1>7. a \o b \in Seq(S) /\ Len(a \o b) = Len(f) - 1
  BY <1>1, <1>4, <1>5
<1>8. ASSUME NEW j \in 1 .. Len(f) - 1
      PROVE  (a \o b)[j] = IF j < i THEN f[j] ELSE f[j + 1]
  <2>1. CASE j < i
    <3>1. j \in 1 .. i - 1 /\ j \in 1 .. Len(a)
      BY <1>4, <2>1
    <3>2. (a \o b)[j] = a[j]
      BY <1>4, <1>5, <3>1
    <3> QED BY <1>4, <2>1, <3>1, <3>2
  <2>2. CASE j >= i
    <3>1. (a \o b)[j] = b[j - (i - 1)]
      BY <1>1, <1>4, <1>5, <2>2
    <3>2. j - (i - 1) \in 1 .. Len(f) - i /\ i + (j - (i - 1)) = j + 1
      BY <1>1, <2>2
    <3> QED BY <1>5, <2>2, <3>1, <3>2
  <2>3. j < i \/ j >= i
    OBVIOUS
  <2> QED BY <2>1, <2>2, <2>3
<1> QED BY <1>6, <1>7, <1>8, SeqIs

\* Removing a place moves those behind it by one.
Closed(T, i) == {j \in Nat : (j < i /\ j \in T) \/ (j >= i /\ j + 1 \in T)}

LEMMA ClosedUp ==
    ASSUME NEW T, T \subseteq Nat, IsFiniteSet(T), NEW i \in Nat
    PROVE  /\ IsFiniteSet(Closed(T, i))
           /\ Cardinality(Closed(T, i)) = IF i \in T THEN Cardinality(T) - 1 ELSE Cardinality(T)
<1>1. PICK R : R = T \ {i}
  OBVIOUS
<1>2. IsFiniteSet(R) /\ Cardinality(R) = IF i \in T THEN Cardinality(T) - 1 ELSE Cardinality(T)
  BY <1>1, FS_RemoveElement
<1>3. PICK U : U = Closed(T, i)
  OBVIOUS
<1>4. PICK f : f = [j \in R |-> IF j < i THEN j ELSE j - 1]
  OBVIOUS
<1>5. f \in [R -> U]
  <2>1. ASSUME NEW j \in R PROVE (IF j < i THEN j ELSE j - 1) \in U
    BY <1>1, <1>3 DEF Closed
  <2> QED BY <1>4, <2>1
<1>6. \A a \in R, b \in R : f[a] = f[b] => a = b
  BY <1>1, <1>4
<1>7. \A u \in U : \E a \in R : f[a] = u
  <2>1. ASSUME NEW u \in U PROVE \E a \in R : f[a] = u
    <3>1. CASE u < i /\ u \in T
      <4>1. u \in R /\ f[u] = u
        BY <1>1, <1>4, <3>1
      <4> QED BY <4>1
    <3>2. CASE u >= i /\ u + 1 \in T
      <4>1. u \in Nat
        BY <1>3 DEF Closed
      <4>2. u + 1 \in R /\ ~(u + 1 < i) /\ (u + 1) - 1 = u
        BY <1>1, <3>2, <4>1
      <4>3. f[u + 1] = u
        BY <1>4, <4>2
      <4> QED BY <4>2, <4>3
    <3> QED BY <1>3, <3>1, <3>2 DEF Closed
  <2> QED BY <2>1
<1>8. f \in Bijection(R, U)
  BY <1>5, <1>6, <1>7 DEF Bijection, Injection, Surjection, IsInjective
<1>9. ExistsBijection(R, U)
  BY <1>8 DEF ExistsBijection
<1> QED BY <1>2, <1>3, <1>9, FS_Bijection

LEMMA PlacesFinite ==
    ASSUME NEW n \in Nat, NEW T, T \subseteq 1 .. n
    PROVE  IsFiniteSet(T) /\ Cardinality(T) \in Nat /\ T \subseteq Nat
<1>1. IsFiniteSet(1 .. n)
  BY FS_Interval
<1>2. IsFiniteSet(T)
  BY <1>1, FS_Subset
<1> QED BY <1>2, FS_CardinalityType
(* The forms of the calls.                                                 *)

\* The overload that is chosen accepts the category of the values.
LEMMA ChosenAccepts ==
    ASSUME NEW overloads, NEW it, NEW val, Chosen(overloads, it, val) # NoForm
    PROVE  \E o \in overloads :
              Chosen(overloads, it, val) = o.to /\ Categories[o.val] <= Categories[val]
<1> DEFINE Viable == {o \in overloads :
                         Iterators[o.it] <= Iterators[it] /\ Categories[o.val] <= Categories[val]}
           Best == {o \in Viable : \A p \in Viable :
                       Iterators[p.it] <= Iterators[o.it] /\ Categories[p.val] <= Categories[o.val]}
<1>1. Chosen(overloads, it, val) = IF Best = {} THEN NoForm ELSE (CHOOSE o \in Best : TRUE).to
  BY DEF Chosen
<1>2. Best # {} /\ Chosen(overloads, it, val) = (CHOOSE o \in Best : TRUE).to
  <2> HIDE DEF Best
  <2> QED BY <1>1
<1>3. PICK o \in Best : Chosen(overloads, it, val) = o.to
  <2> HIDE DEF Best
  <2> QED BY <1>2
<1> QED BY <1>3

\* The categories of values.
LEMMA CategoryOrder ==
    /\ Categories["unspecified"] = 1 /\ Categories["basic"] = 2
    /\ DOMAIN Categories = {"unspecified", "basic"}
BY DEF Categories

\* An overload for basic values is not chosen for others.
LEMMA NeverForOthers ==
    ASSUME NEW overloads, NEW to, to # NoForm,
           \A o \in overloads : o.to = to => o.val = "basic", NEW it
    PROVE  Chosen(overloads, it, "unspecified") # to
<1>1. SUFFICES ASSUME Chosen(overloads, it, "unspecified") = to PROVE FALSE
  OBVIOUS
<1>2. PICK o \in overloads : o.to = to /\ Categories[o.val] <= Categories["unspecified"]
  BY <1>1, ChosenAccepts
<1> QED BY <1>2, CategoryOrder

\* Nothing but basic values goes as a message by the calls with a count.
LEMMA CountedForms ==
    ASSUME NEW it
    PROVE  SendNForm(it, "unspecified") # "message" /\ ReceiveNForm(it, "unspecified") # "message"
<1> DEFINE overloads == {Overload("contiguous", "basic", "message"),
                         Overload("forward", "unspecified", "package")}
<1>1. \A o \in overloads : o.to = "message" => o.val = "basic"
  BY DEF Overload
<1>2. /\ SendNForm(it, "unspecified") = Chosen(overloads, it, "unspecified")
      /\ ReceiveNForm(it, "unspecified") = Chosen(overloads, it, "unspecified")
  BY DEF SendNForm, ReceiveNForm
<1> HIDE DEF overloads
<1> QED BY <1>1, <1>2, NeverForOthers DEF NoForm

\* Nor by send and receive of a range.
LEMMA RangeForms ==
    ASSUME NEW it
    PROVE  /\ SendForm(it, "unspecified") # "message" /\ ReceiveForm(it, "unspecified") # "message"
           /\ ReceiveToForm(it, "unspecified") # "message"
<1> DEFINE toSend == {Overload("random_access", "unspecified", "send_n"),
                      Overload("contiguous", "basic", "send_n"),
                      Overload("input", "basic", "message"),
                      Overload("input", "unspecified", "package")}
           toReceive == {Overload("random_access", "unspecified", "receive_n"),
                         Overload("contiguous", "basic", "receive_n"),
                         Overload("forward", "basic", "message")}
           toReceiveAll == {Overload("contiguous", "basic", "message"),
                            Overload("forward", "unspecified", "package"),
                            Overload("forward", "basic", NoForm)}
<1>1. /\ \A o \in toSend : o.to = "message" => o.val = "basic"
      /\ \A o \in toReceive : o.to = "message" => o.val = "basic"
      /\ \A o \in toReceiveAll : o.to = "message" => o.val = "basic"
  BY DEF Overload
<1>2. SendForm(it, "unspecified")
      = IF Chosen(toSend, it, "unspecified") = "send_n" THEN SendNForm(it, "unspecified")
        ELSE Chosen(toSend, it, "unspecified")
  BY DEF SendForm
<1>3. ReceiveForm(it, "unspecified")
      = IF Chosen(toReceive, it, "unspecified") = "receive_n" THEN ReceiveNForm(it, "unspecified")
        ELSE Chosen(toReceive, it, "unspecified")
  BY DEF ReceiveForm
<1>4. ReceiveToForm(it, "unspecified") = Chosen(toReceiveAll, it, "unspecified")
  BY DEF ReceiveToForm
<1> HIDE DEF toSend, toReceive, toReceiveAll
<1>5. /\ Chosen(toSend, it, "unspecified") # "message"
      /\ Chosen(toReceive, it, "unspecified") # "message"
      /\ Chosen(toReceiveAll, it, "unspecified") # "message"
  BY <1>1, NeverForOthers DEF NoForm
<1> QED BY <1>2, <1>3, <1>4, <1>5, CountedForms

\* Nor by the other calls.
LEMMA OtherForms ==
    ASSUME NEW it
    PROVE  /\ IssendNForm(it, "unspecified") # "message" /\ BsendInitNForm(it, "unspecified") # "message"
           /\ DynamicReceiveForm(it, "unspecified") # "message"
           /\ IreceiveForm(it, "unspecified") # "message" /\ IsendForm(it, "unspecified") # "message"
<1> DEFINE overloads == {Overload("contiguous", "basic", "message")}
           toReceive == {Overload("random_access", "unspecified", "ireceive_n")}
           toSend == {Overload("random_access", "unspecified", "isend_n")}
<1>1. /\ \A o \in overloads : o.to = "message" => o.val = "basic"
      /\ \A o \in toReceive : o.to = "message" => o.val = "basic"
      /\ \A o \in toSend : o.to = "message" => o.val = "basic"
  BY DEF Overload
<1>2. /\ IssendNForm(it, "unspecified") = Chosen(overloads, it, "unspecified")
      /\ BsendInitNForm(it, "unspecified") = Chosen(overloads, it, "unspecified")
      /\ DynamicReceiveForm(it, "unspecified") = Chosen(overloads, it, "unspecified")
  BY DEF IssendNForm, BsendInitNForm, DynamicReceiveForm
<1>3. IreceiveForm(it, "unspecified")
      = IF Chosen(toReceive, it, "unspecified") = "ireceive_n" THEN Chosen(overloads, it, "unspecified")
        ELSE Chosen(toReceive, it, "unspecified")
  BY DEF IreceiveForm
<1>4. IsendForm(it, "unspecified")
      = IF Chosen(toSend, it, "unspecified") = "isend_n" THEN SendNForm(it, "unspecified")
        ELSE Chosen(toSend, it, "unspecified")
  BY DEF IsendForm
<1> HIDE DEF overloads, toReceive, toSend
<1>5. /\ Chosen(overloads, it, "unspecified") # "message"
      /\ Chosen(toReceive, it, "unspecified") # "message"
      /\ Chosen(toSend, it, "unspecified") # "message"
  BY <1>1, NeverForOthers DEF NoForm
<1> QED BY <1>2, <1>3, <1>4, <1>5, CountedForms

\* Values that are not basic never go as a message.
LEMMA FormsApart ==
    /\ "message" \notin SendForms["unspecified"] /\ "message" \notin IsendForms["unspecified"]
    /\ "message" \notin IssendForms["unspecified"] /\ "message" \notin BsendForms["unspecified"]
    /\ "message" \notin ReceiveForms["unspecified"] /\ "message" \notin IreceiveForms["unspecified"]
    /\ "message" \notin ReceiveToForms["unspecified"]
<1>1. /\ \A form \in SendForms["unspecified"] : \E it :
            form = SendForm(it, "unspecified") \/ form = SendNForm(it, "unspecified")
      /\ \A form \in ReceiveForms["unspecified"] : \E it :
            form = ReceiveForm(it, "unspecified") \/ form = ReceiveNForm(it, "unspecified")
      /\ \A form \in ReceiveToForms["unspecified"] : \E it :
            form = ReceiveToForm(it, "unspecified") \/ form = DynamicReceiveForm(it, "unspecified")
  BY CategoryOrder DEF SendForms, ReceiveForms, ReceiveToForms, Forms, SendValueForm, ReceiveValueForm
<1>2. /\ \A form \in IsendForms["unspecified"] : \E it : form = IsendForm(it, "unspecified")
      /\ \A form \in IssendForms["unspecified"] : \E it : form = IssendNForm(it, "unspecified")
      /\ \A form \in BsendForms["unspecified"] : \E it : form = BsendInitNForm(it, "unspecified")
      /\ \A form \in IreceiveForms["unspecified"] : \E it : form = IreceiveForm(it, "unspecified")
  BY CategoryOrder DEF IsendForms, IssendForms, BsendForms, IreceiveForms, Forms
<1> QED BY <1>1, <1>2, CountedForms, RangeForms, OtherForms

\* So do the calls of the model.
LEMMA FormsFit ==
    /\ By(SendForms, "message") \/ By(IsendForms, "message") \/ By(IssendForms, "message")
       \/ By(BsendForms, "message") \/ By(ReceiveForms, "message") \/ By(IreceiveForms, "message")
       \/ By(ReceiveToForms, "message") => type = "basic"
    /\ By(SendForms, "package") \/ By(IsendForms, "package") \/ By(ReceiveForms, "package")
       \/ By(ReceiveToForms, "package") => type # "packed"
<1>1. type # "basic" => Category = "unspecified"
  BY DEF Category
<1>2. \A forms, form : By(forms, form) => type # "packed" /\ form \in forms[Category]
  BY DEF By
<1> QED BY <1>1, <1>2, FormsApart
-----------------------------------------------------------------------------
(* The bytes of a message.                                                 *)

LEMMA FunctionIsSeq ==
    ASSUME NEW n \in Nat, NEW S, NEW f \in [1 .. n -> S]
    PROVE  f \in Seq(S) /\ Len(f) = n
OBVIOUS

LEMMA ByFour ==
    ASSUME NEW n \in Nat, NEW i \in 0 .. 3
    PROVE  (4 * n + i) \div 4 = n /\ (4 * n + i) % 4 = i
OBVIOUS

\* The bytes of one int.
LEMMA OneInt ==
    ASSUME NEW x \in Nat
    PROVE  BytesOf(<<x>>, IntWidth) = [j \in 1 .. 4 |-> <<x, j, 4>>]
<1>1. BytesOf(<<x>>, IntWidth) = [k \in 1 .. 4 |-> <<<<x>>[((k - 1) \div 4) + 1], ((k - 1) % 4) + 1, 4>>]
  <2>1. Len(<<x>>) * 4 = 4
    OBVIOUS
  <2> QED BY <2>1 DEF BytesOf, IntWidth
<1>2. \A k \in 1 .. 4 : ((k - 1) \div 4) + 1 = 1 /\ ((k - 1) % 4) + 1 = k
  OBVIOUS
<1>3. <<x>>[1] = x
  OBVIOUS
<1> QED BY <1>1, <1>2, <1>3

\* The bytes of the first n ints.
BytesOfFirst(ns, n) == [k \in 1 .. n * 4 |-> <<ns[((k - 1) \div 4) + 1], ((k - 1) % 4) + 1, 4>>]

\* One more int comes behind them.
LEMMA OneMoreInt ==
    ASSUME NEW ns \in Seq(Nat), NEW n \in Nat, n + 1 <= Len(ns), BytesOfFirst(ns, n) \in Seq(Byte)
    PROVE  PackN(BytesOfFirst(ns, n), <<ns[n + 1]>>, IntWidth) = BytesOfFirst(ns, n + 1)
<1>1. PICK x \in Nat : x = ns[n + 1]
  OBVIOUS
<1>2. PICK m \in Nat : m = n * 4 /\ (n + 1) * 4 = m + 4
  OBVIOUS
<1>3. PICK first \in Seq(Byte) : first = BytesOfFirst(ns, n)
  OBVIOUS
<1>4. Len(first) = m /\ \A k \in 1 .. m : first[k] = <<ns[((k - 1) \div 4) + 1], ((k - 1) % 4) + 1, 4>>
  BY <1>2, <1>3 DEF BytesOfFirst
<1>5. PICK last \in Seq(Byte) : last = BytesOf(<<x>>, IntWidth)
  <2>1. <<x>> \in Seq(Nat) /\ IntWidth \in Widths
    BY DEF Widths
  <2> QED BY <2>1, BytesOfBytes
<1>6. Len(last) = 4 /\ \A j \in 1 .. 4 : last[j] = <<x, j, 4>>
  <2>1. last = [j \in 1 .. 4 |-> <<x, j, 4>>]
    BY Zenon, <1>5, OneInt
  <2> QED BY <2>1
<1>7. PICK both : both = first \o last
  OBVIOUS
<1>8. /\ both \in Seq(Byte) /\ Len(both) = m + 4
      /\ \A k \in 1 .. m + 4 : both[k] = IF k <= m THEN first[k] ELSE last[k - m]
  <2>1. both \in Seq(Byte) /\ Len(both) = Len(first) + Len(last)
    BY <1>7
  <2>2. \A k \in 1 .. Len(first) + Len(last) :
            both[k] = IF k <= Len(first) THEN first[k] ELSE last[k - Len(first)]
    BY <1>7
  <2> QED BY <1>4, <1>6, <2>1, <2>2
<1>9. ASSUME NEW k \in 1 .. m + 4 PROVE both[k] = <<ns[((k - 1) \div 4) + 1], ((k - 1) % 4) + 1, 4>>
  <2>1. CASE k <= m
    BY <1>4, <1>8, <2>1
  <2>2. CASE ~(k <= m)
    <3>0. k - m \in 1 .. 4 /\ k \in Int
      BY <2>2
    <3>1. PICK j : j \in 1 .. 4 /\ j = k - m /\ ((k - 1) \div 4) + 1 = n + 1 /\ ((k - 1) % 4) + 1 = j
      <4>1. PICK j : j = k - m
        OBVIOUS
      <4>2. j \in 1 .. 4 /\ k - 1 = 4 * n + (j - 1)
        BY <1>2, <3>0, <4>1
      <4>3. (k - 1) \div 4 = n /\ (k - 1) % 4 = j - 1
        <5>1. PICK i \in 0 .. 3 : i = j - 1 /\ k - 1 = 4 * n + i
          BY <4>2
        <5>2. (4 * n + i) \div 4 = n /\ (4 * n + i) % 4 = i
          BY ByFour
        <5> QED BY <5>1, <5>2
      <4>4. ((k - 1) \div 4) + 1 = n + 1 /\ ((k - 1) % 4) + 1 = j
        BY <4>2, <4>3
      <4> QED BY Zenon, <4>1, <4>2, <4>4
    <3>2. both[k] = <<x, j, 4>>
      BY <1>6, <1>8, <2>2, <3>1
    <3> QED BY <1>1, <3>1, <3>2
  <2> QED BY <2>1, <2>2
<1>10. both = [k \in 1 .. m + 4 |-> <<ns[((k - 1) \div 4) + 1], ((k - 1) % 4) + 1, 4>>]
  <2>1. both = [k \in 1 .. m + 4 |-> both[k]]
    BY <1>8
  <2> QED BY <1>9, <2>1
<1> QED BY <1>1, <1>2, <1>3, <1>5, <1>7, <1>10 DEF PackN, BytesOfFirst

\* Ints that are saved one by one are packed one behind another, with nothing in between.
LEMMA IntsAlike ==
    ASSUME NEW ns \in Seq(Nat), NEW vs \in Seq(Serialized), Len(vs) = Len(ns),
           \A i \in 1 .. Len(ns) : vs[i] = [type |-> "int", x |-> ns[i]]
    PROVE  SaveAll(vs) = BytesOf(ns, IntWidth)
<1>1. PICK N \in Nat : N = Len(ns)
  OBVIOUS
<1>2. PICK saved \in [0 .. N -> Seq(Byte)] : SavedSoFar(saved, vs, N) /\ SaveAll(vs) = saved[N]
  BY <1>1, SaveAllSteps
<1> DEFINE T == {n \in 0 .. N : saved[n] = BytesOfFirst(ns, n)}
<1>3. 0 \in T
  <2>1. BytesOfFirst(ns, 0) = <<>>
    BY DEF BytesOfFirst
  <2>2. saved[0] = <<>> /\ 0 \in 0 .. N
    BY <1>2 DEF SavedSoFar
  <2> QED BY <2>1, <2>2
<1>4. ASSUME NEW n \in T, n \in 0 .. N - 1 PROVE n + 1 \in T
  <2>1. n \in Nat /\ n + 1 \in 1 .. N /\ (n + 1) - 1 = n /\ n \in 0 .. N /\ saved[n] = BytesOfFirst(ns, n)
    BY <1>1, <1>4
  <2>2. saved[n + 1] = Save(saved[n], vs[n + 1])
    BY <1>2, <2>1 DEF SavedSoFar
  <2>3. PICK v : v = vs[n + 1] /\ v.type = "int" /\ v.x = ns[n + 1]
    <3>1. vs[n + 1] = [type |-> "int", x |-> ns[n + 1]]
      BY <1>1, <2>1
    <3>2. vs[n + 1].type = "int" /\ vs[n + 1].x = ns[n + 1]
      BY <3>1
    <3> QED BY Zenon, <3>2
  <2>4. Save(saved[n], v) = PackN(saved[n], <<v.x>>, IntWidth)
    BY <2>3 DEF Save, SavePlain
  <2>5. n + 1 <= Len(ns) /\ BytesOfFirst(ns, n) \in Seq(Byte)
    BY <1>1, <2>1
  <2>6. PackN(BytesOfFirst(ns, n), <<ns[n + 1]>>, IntWidth) = BytesOfFirst(ns, n + 1)
    BY <2>1, <2>5, OneMoreInt
  <2>7. saved[n + 1] = BytesOfFirst(ns, n + 1)
    BY <2>1, <2>2, <2>3, <2>4, <2>6
  <2>8. n + 1 \in 0 .. N
    BY <1>1, <2>1
  <2> QED BY <2>7, <2>8
<1>5. 0 .. N \subseteq T
  <2> HIDE DEF T
  <2> QED BY <1>3, <1>4, UpTo
<1>6. BytesOfFirst(ns, N) = BytesOf(ns, IntWidth)
  BY <1>1 DEF BytesOfFirst, BytesOf, IntWidth
<1>7. N \in T
  BY <1>5
<1> QED BY <1>2, <1>6, <1>7

\* The values of a series that is not serialized are its numbers.
LEMMA NumbersAreValues ==
    ASSUME NEW ns \in Seq(Nat), type \in {"basic", "int", "packed"}
    PROVE  Values(ns) = ns
<1>1. \A i \in DOMAIN ns : Sample(ns[i]) = ns[i]
  BY DEF Sample
<1>2. Values(ns) = [i \in DOMAIN ns |-> ns[i]]
  BY <1>1 DEF Values
<1> QED BY <1>2

\* A message in a package is a series of values, of the type that the calls ask for.
LEMMA SavedValues ==
    ASSUME type \in Types, type # "packed", NEW ns \in Seq(Nat), NEW vs,
           vs = [i \in DOMAIN ns |-> [type |-> Packed, x |-> Sample(ns[i])]]
    PROVE  /\ vs \in Seq(Serialized) /\ Len(vs) = Len(ns)
           /\ \A i \in 1 .. Len(vs) : vs[i].type = Packed
           /\ [i \in DOMAIN vs |-> vs[i].x] = Values(ns)
           /\ Contents(ns, "package") = SaveAll(vs)
<1>1. type \in {"basic", "int", "string", "vector", "variant"}
  BY PlansAssumption
<1>2. ASSUME NEW n \in Nat PROVE [i \in 1 .. n |-> n] \in Seq(Nat)
  OBVIOUS
<1>3. ASSUME NEW n \in Nat PROVE [type |-> Packed, x |-> Sample(n)] \in Serialized
  <2>1. CASE type \in {"basic", "int"}
    BY <2>1 DEF Packed, Sample, Serialized, Ints
  <2>2. CASE type = "string"
    BY <1>2, <2>2 DEF Packed, Sample, Serialized, Strings
  <2>3. CASE type = "vector"
    BY <1>2, <2>3 DEF Packed, Sample, Serialized, Vectors
  <2>4. CASE type = "variant"
    <3>1. Packed = "variant"
      BY <2>4 DEF Packed
    <3>2. Sample(n) \in Ints \cup Strings
      <4>1. CASE n = 1
        BY <2>4, <4>1 DEF Sample, Ints
      <4>2. CASE n # 1
        BY <1>2, <2>4, <4>2 DEF Sample, Strings
      <4> QED BY <4>1, <4>2
    <3> QED BY <3>1, <3>2 DEF Serialized, Variants
  <2> QED BY <1>1, <2>1, <2>2, <2>3, <2>4
<1>4. PICK n \in Nat : n = Len(ns) /\ DOMAIN ns = 1 .. n
  OBVIOUS
<1>5. \A i \in 1 .. n : ns[i] \in Nat
  BY <1>4
<1>6. vs \in [1 .. n -> Serialized]
  BY <1>3, <1>4, <1>5
<1>7. vs \in Seq(Serialized) /\ Len(vs) = n
  BY <1>4, <1>6, FunctionIsSeq
<1>8. \A i \in 1 .. n : vs[i].type = Packed /\ vs[i].x = Sample(ns[i])
  BY <1>4
<1>9. [i \in DOMAIN vs |-> vs[i].x] = Values(ns)
  BY <1>4, <1>8 DEF Values
<1>10. Contents(ns, "package") = SaveAll(vs)
  BY DEF Contents
<1> QED BY <1>4, <1>7, <1>8, <1>9, <1>10

\* A message of basic values or of the program's own package has their bytes, whatever
\* call it was sent by.
LEMMA ContentsAlike ==
    ASSUME type \in Types, type \in {"basic", "packed"}, NEW ns \in Seq(Nat), NEW form
    PROVE  /\ Contents(ns, form) = BytesOf(ns, IntWidth)
           /\ Contents(ns, form) \in Seq(Byte)
           /\ Len(Contents(ns, form)) = Len(ns) * IntWidth
<1>1. BytesOf(ns, IntWidth) \in Seq(Byte) /\ Len(BytesOf(ns, IntWidth)) = Len(ns) * IntWidth
  BY BytesOfBytes DEF Widths
<1>2. CASE form = "message" \/ type = "packed"
  <2>1. Contents(ns, form) = <<>> \o BytesOf(ns, IntWidth)
    BY <1>2 DEF Contents, PackN
  <2> QED BY <1>1, <2>1
<1>3. CASE ~(form = "message" \/ type = "packed")
  <2>1. type = "basic" /\ Packed = "int" /\ \A n \in Nat : Sample(n) = n
    BY <1>3 DEF Packed, Sample
  <2>2. PICK vs : vs = [i \in DOMAIN ns |-> [type |-> Packed, x |-> Sample(ns[i])]]
    OBVIOUS
  <2>3. vs \in Seq(Serialized) /\ Len(vs) = Len(ns)
    BY <2>1, <2>2, SavedValues
  <2>4. \A i \in 1 .. Len(ns) : vs[i] = [type |-> "int", x |-> ns[i]]
    BY <2>1, <2>2
  <2>5. Contents(ns, form) = SaveAll(vs)
    BY <1>3, <2>2 DEF Contents
  <2>6. SaveAll(vs) = BytesOf(ns, IntWidth)
    BY <2>3, <2>4, IntsAlike
  <2> QED BY <1>1, <2>5, <2>6
<1> QED BY <1>2, <1>3

-----------------------------------------------------------------------------
(* The invariant.                                                          *)

\* How many messages of s were received, or are in the receiver's own package; whether
\* one was matched by a probe.
Count(s) == Len(got[s]) + Cardinality(Unread(s))
Held(s) == IF matched # <<>> /\ Match.source = s THEN 1 ELSE 0

\* What message number n of s is to bring.
Promised(s, n) == Holding(Contents(plan[s][n], "package"))

\* A message under way is the n-th of its sender: its data were taken, or they are still
\* in the sender's memory, if this was kept.
UnderWay(s, message, n) ==
    /\ message.source = s /\ message.index = n /\ n \in 1 .. posted[s]
    /\ message.kept \in BOOLEAN /\ message.taken \in BOOLEAN
    /\ type = "packed" => message.kept = TRUE
    /\ message.size = Len(Contents(plan[s][n], "package"))
    /\ message.taken => message.data = Promised(s, n)
    /\ ~message.taken /\ message.kept => memory[s][n] = Promised(s, n)
    /\ ~message.taken /\ ~message.kept => memory[s][n] = Freed

\* The variables are what they are declared to be.
Shape ==
    /\ type \in Types
    /\ plan \in [Senders -> Plans]
    /\ posted \in [Senders -> Nat]
    /\ at \in [Senders -> {"idle", "send", "end"}]
    /\ DOMAIN memory = Senders /\ DOMAIN channel = Senders /\ DOMAIN got = Senders
    /\ \A s \in Senders :
          /\ posted[s] <= Len(plan[s])
          /\ IsSeq(memory[s]) /\ Len(memory[s]) = posted[s]
          /\ IsSeq(channel[s]) /\ IsSeq(got[s])
    /\ IsSeq(receives) /\ IsSeq(unread)
    /\ \A i \in DOMAIN receives : receives[i].source \in Senders
    /\ \A i \in DOMAIN unread : unread[i].source \in Senders
    /\ matched = <<>> \/ \E message : matched = <<message>> /\ message.source \in Senders

\* The messages that were not received are numbered behind those that were.
Channels ==
    \A s \in Senders :
        /\ Count(s) + Held(s) + Len(channel[s]) = posted[s]
        /\ \A i \in 1 .. Len(channel[s]) : UnderWay(s, channel[s][i], Count(s) + Held(s) + i)

\* A message that was matched is the next one of its source, and nothing else waits for it.
Matching ==
    matched # <<>> =>
        /\ UnderWay(Match.source, Match, Count(Match.source) + 1)
        /\ Awaits(Match.source) = {}

\* An immediate receive is for the message that its place among those of its source tells.
AwaitsTo(s, i) == {j \in Awaits(s) : j <= i}
Awaited ==
    /\ receives # <<>> => type = "basic"
    /\ \A s \in Senders : Asked(s) <= Len(plan[s])
    /\ \A i \in DOMAIN receives :
          receives[i].count = Len(plan[receives[i].source]
              [Len(got[receives[i].source]) + Cardinality(AwaitsTo(receives[i].source, i))])

\* The number of the i-th message in the receiver's own package, among those of its source.
UnreadTo(s, i) == {j \in Unread(s) : j <= i}
NumberOf(i) == Len(got[unread[i].source]) + Cardinality(UnreadTo(unread[i].source, i))
Entry(i) == plan[unread[i].source][NumberOf(i)]

\* The package holds the messages one behind another, from where the reading stopped.
Arranged(off) ==
    /\ off[1] = package.pos /\ off[Len(unread) + 1] = Len(package.bytes)
    /\ \A i \in 1 .. Len(unread) :
          /\ Has(package.bytes, off[i], Entry(i), IntWidth)
          /\ off[i + 1] = off[i] + Len(Entry(i)) * IntWidth
OwnPackage ==
    /\ package.bytes \in Seq(Byte) /\ package = [bytes |-> package.bytes, pos |-> package.pos]
    /\ unread # <<>> => type = "packed"
    /\ \A i \in DOMAIN unread : unread[i].fits = TRUE
    /\ \E off \in [1 .. Len(unread) + 1 -> Nat] : Arranged(off)

\* What was received has the data of the message of the same number, or none if they
\* were not kept for it, and is read in a way that they allow.
Gain(s, k, g) ==
    /\ g.fits = TRUE /\ g.kept \in BOOLEAN
    /\ \/ g.data = Freed /\ g.kept = FALSE
       \/ g.data = Promised(s, k) /\ g.way = "plain" /\ type = "basic" /\ g.count = Len(plan[s][k])
       \/ g.data = Promised(s, k) /\ g.way = "count" /\ type # "packed" /\ g.count = Len(plan[s][k])
       \/ g.data = Promised(s, k) /\ g.way = "while" /\ type # "packed"
       \/ g.data = Holding(Values(plan[s][k])) /\ g.way = "unpacked"
Gained ==
    \A s \in Senders :
        Len(got[s]) <= Len(plan[s]) /\ \A k \in 1 .. Len(got[s]) : Gain(s, k, got[s][k])

MInv == Shape /\ Channels /\ Matching /\ Awaited /\ OwnPackage /\ Gained
-----------------------------------------------------------------------------
(* What the parts of the invariant need.                                   *)

\* What is promised does not change.
LEMMA PromisesStay ==
    ASSUME UNCHANGED <<type, plan>>
    PROVE  /\ \A ns : Values(ns)' = Values(ns)
           /\ \A ns, form : Contents(ns, form)' = Contents(ns, form)
           /\ \A s, n : Promised(s, n)' = Promised(s, n)
           /\ \A s, n : Len(Contents(plan[s][n], "package"))' = Len(Contents(plan[s][n], "package"))
<1>1. ASSUME NEW n PROVE Sample(n)' = Sample(n)
  BY DEF Sample
<1>2. ASSUME NEW ns PROVE Values(ns)' = Values(ns)
  BY <1>1 DEF Values
<1>3. ASSUME NEW ns, NEW form PROVE Contents(ns, form)' = Contents(ns, form)
  <2>1. [i \in DOMAIN ns |-> [type |-> Packed, x |-> Sample(ns[i])]]'
        = [i \in DOMAIN ns |-> [type |-> Packed, x |-> Sample(ns[i])]]
    BY <1>1 DEF Packed
  <2> QED BY <1>2, <2>1 DEF Contents
<1>4. ASSUME NEW s, NEW n
      PROVE  /\ Promised(s, n)' = Promised(s, n)
             /\ Len(Contents(plan[s][n], "package"))' = Len(Contents(plan[s][n], "package"))
  <2>1. PICK ns : ns = plan[s][n]
    OBVIOUS
  <2>2. plan'[s][n] = ns
    BY <2>1
  <2>3. Contents(ns, "package")' = Contents(ns, "package")
    BY <1>3
  <2>4. Contents(plan[s][n], "package")' = Contents(plan[s][n], "package")
    BY <2>1, <2>2, <2>3 DEF Contents
  <2> QED BY <2>4 DEF Promised, Holding
<1> QED BY <1>2, <1>3, <1>4

LEMMA PlansAre ==
    ASSUME Shape, NEW s \in Senders
    PROVE  /\ plan[s] \in Seq(Seq(Nat)) /\ Len(plan[s]) \in Nat
           /\ posted[s] \in Nat /\ posted[s] <= Len(plan[s])
           /\ \A n \in 1 .. Len(plan[s]) : plan[s][n] \in Seq(Nat)
BY PlansAssumption DEF Shape

LEMMA CountsAre ==
    ASSUME Shape, NEW s \in Senders
    PROVE  /\ Unread(s) \subseteq 1 .. Len(unread) /\ IsFiniteSet(Unread(s)) /\ Cardinality(Unread(s)) \in Nat
           /\ Awaits(s) \subseteq 1 .. Len(receives) /\ IsFiniteSet(Awaits(s)) /\ Cardinality(Awaits(s)) \in Nat
           /\ Len(got[s]) \in Nat /\ Len(channel[s]) \in Nat
           /\ Count(s) \in Nat /\ Held(s) \in {0, 1} /\ Asked(s) \in Nat
           /\ unread = <<>> => Unread(s) = {} /\ Count(s) = Len(got[s])
           /\ receives = <<>> => Awaits(s) = {}
           /\ Awaits(s) = {} => Asked(s) = Len(got[s])
<1>1. /\ Len(unread) \in Nat /\ DOMAIN unread = 1 .. Len(unread) /\ Len(receives) \in Nat
      /\ DOMAIN receives = 1 .. Len(receives) /\ Len(got[s]) \in Nat /\ Len(channel[s]) \in Nat
      /\ (unread = <<>> => Len(unread) = 0) /\ (receives = <<>> => Len(receives) = 0)
  BY SeqShape DEF Shape
<1>2. Unread(s) \subseteq 1 .. Len(unread) /\ Awaits(s) \subseteq 1 .. Len(receives)
  BY <1>1 DEF Unread, Awaits
<1>3. /\ IsFiniteSet(Unread(s)) /\ Cardinality(Unread(s)) \in Nat
      /\ IsFiniteSet(Awaits(s)) /\ Cardinality(Awaits(s)) \in Nat
  BY <1>1, <1>2, PlacesFinite
<1>4. /\ Unread(s) = {} => Cardinality(Unread(s)) = 0
      /\ Awaits(s) = {} => Cardinality(Awaits(s)) = 0
  BY <1>3, FS_EmptySet
<1>5. unread = <<>> => Unread(s) = {}
  BY <1>1, <1>2
<1>6. receives = <<>> => Awaits(s) = {}
  BY <1>1, <1>2
<1>7. Count(s) \in Nat /\ (unread = <<>> => Count(s) = Len(got[s]))
  BY <1>1, <1>3, <1>4, <1>5 DEF Count
<1>8. Asked(s) \in Nat /\ (Awaits(s) = {} => Asked(s) = Len(got[s]))
  <2>1. PICK c \in Nat : c = Cardinality(Awaits(s))
    BY <1>3
  <2>2. Asked(s) = Len(got[s]) + c
    BY <2>1 DEF Asked
  <2>3. Awaits(s) = {} => c = 0
    BY Zenon, <1>4, <2>1
  <2>4. c = 0 => Asked(s) = Len(got[s])
    BY <1>1, <2>2
  <2>5. Awaits(s) = {} => Asked(s) = Len(got[s])
    BY Zenon, <2>3, <2>4
  <2> QED BY <1>1, <2>2, <2>5
<1>9. Held(s) \in {0, 1}
  BY DEF Held
<1> QED BY <1>1, <1>2, <1>3, <1>5, <1>6, <1>7, <1>8, <1>9

\* A message goes on being under way, if its data stay.
LEMMA UnderWayStays ==
    ASSUME NEW s, NEW m, NEW n, UnderWay(s, m, n), UNCHANGED <<type, plan>>,
           posted[s] \in Nat, posted'[s] \in Nat, posted[s] <= posted'[s],
           m.taken = FALSE => memory'[s][n] = memory[s][n]
    PROVE  UnderWay(s, m, n)'
<1>1. /\ Promised(s, n)' = Promised(s, n)
      /\ Len(Contents(plan[s][n], "package"))' = Len(Contents(plan[s][n], "package"))
  BY PromisesStay
<1>2. /\ m.source = s /\ m.index = n /\ n \in 1 .. posted'[s]
      /\ m.kept \in BOOLEAN /\ m.taken \in BOOLEAN
      /\ type' = "packed" => m.kept = TRUE
      /\ m.size = Len(Contents(plan[s][n], "package"))'
  BY <1>1 DEF UnderWay
<1>3. m.taken => m.data = Promised(s, n)'
  BY <1>1 DEF UnderWay
<1>4. /\ ~m.taken /\ m.kept => memory'[s][n] = Promised(s, n)'
      /\ ~m.taken /\ ~m.kept => memory'[s][n] = Freed
  BY <1>1 DEF UnderWay
<1> QED BY <1>2, <1>3, <1>4 DEF UnderWay

\* The data of a message under way are what was promised, or were not kept for it.
LEMMA DataPromised ==
    ASSUME NEW s, NEW m, NEW n, UnderWay(s, m, n)
    PROVE  /\ Data(m) = Promised(s, n) \/ (Data(m) = Freed /\ m.kept = FALSE)
           /\ m.kept = TRUE => Bytes(m) = Contents(plan[s][n], "package")
<1>1. Data(m) = Promised(s, n) \/ (Data(m) = Freed /\ m.kept = FALSE)
  <2>1. CASE m.taken
    BY <2>1 DEF Data, UnderWay
  <2>2. CASE ~m.taken /\ m.kept
    BY <2>2 DEF Data, UnderWay
  <2>3. CASE ~m.taken /\ ~m.kept
    BY <2>3 DEF Data, UnderWay
  <2> QED BY <2>1, <2>2, <2>3
<1>2. PICK contents : contents = Contents(plan[s][n], "package")
  OBVIOUS
<1>3. Promised(s, n) = <<contents>> /\ <<contents>> # <<>> /\ <<contents>>[1] = contents
  BY <1>2 DEF Promised, Holding
<1>4. ASSUME m.kept = TRUE PROVE Bytes(m) = contents
  BY <1>1, <1>3, <1>4 DEF Bytes, Freed
<1> QED BY <1>1, <1>2, <1>4

\* Receiving from a source adds to what was received from this source only.
LEMMA GotGrows ==
    ASSUME Shape, NEW s \in Senders, NEW g, got' = [got EXCEPT ![s] = Append(@, g)], NEW q \in Senders
    PROVE  /\ Len(got'[q]) = IF q = s THEN Len(got[q]) + 1 ELSE Len(got[q])
           /\ \A k \in 1 .. Len(got[q]) : got'[q][k] = got[q][k]
           /\ got'[s][Len(got[s]) + 1] = g
           /\ IsSeq(got'[q]) /\ DOMAIN got' = Senders
<1>1. DOMAIN got = Senders /\ IsSeq(got[s]) /\ IsSeq(got[q])
  BY DEF Shape
<1>2. got'[s] = Append(got[s], g) /\ (q # s => got'[q] = got[q]) /\ DOMAIN got' = Senders
  BY <1>1
<1>3. /\ IsSeq(got'[s]) /\ Len(got'[s]) = Len(got[s]) + 1
      /\ \A k \in 1 .. Len(got[s]) : got'[s][k] = got[s][k]
      /\ got'[s][Len(got[s]) + 1] = g
  BY <1>1, <1>2, AppendIs
<1> QED BY <1>1, <1>2, <1>3

LEMMA CountGrows ==
    ASSUME Shape, NEW s \in Senders, NEW g, got' = [got EXCEPT ![s] = Append(@, g)], UNCHANGED unread,
           NEW q \in Senders
    PROVE  Count(q)' = IF q = s THEN Count(q) + 1 ELSE Count(q)
<1>1. Unread(q)' = Unread(q)
  BY DEF Unread
<1>2. Len(got'[q]) = IF q = s THEN Len(got[q]) + 1 ELSE Len(got[q])
  BY GotGrows
<1>3. Cardinality(Unread(q)) \in Nat /\ Len(got[q]) \in Nat
  BY CountsAre
<1>4. Count(q)' = Len(got'[q]) + Cardinality(Unread(q))
  BY <1>1 DEF Count
<1>5. Count(q) = Len(got[q]) + Cardinality(Unread(q))
  BY DEF Count
<1> QED BY <1>2, <1>3, <1>4, <1>5

LEMMA CountStays ==
    ASSUME NEW q, got'[q] = got[q], UNCHANGED unread
    PROVE  Count(q)' = Count(q)
BY DEF Count, Unread

LEMMA HeldStays ==
    ASSUME NEW q, UNCHANGED matched
    PROVE  Held(q)' = Held(q)
BY DEF Held, Match

\* Messages stay in order when the first one of a channel is counted or held.
LEMMA ChannelsAdvance ==
    ASSUME Shape, Channels, UNCHANGED <<type, plan, posted, memory>>,
           \A q \in Senders :
               \/ channel'[q] = channel[q] /\ Count(q)' + Held(q)' = Count(q) + Held(q)
               \/ /\ channel[q] # <<>> /\ channel'[q] = Tail(channel[q])
                  /\ Count(q)' + Held(q)' = Count(q) + Held(q) + 1
    PROVE  Channels'
<1>1. ASSUME NEW q \in Senders
      PROVE  /\ Count(q)' + Held(q)' + Len(channel'[q]) = posted[q]
             /\ \A i \in 1 .. Len(channel'[q]) : UnderWay(q, channel[q][i], Count(q) + Held(q) + i)'
  <2>1. PICK base \in Nat : base = Count(q) + Held(q)
    BY CountsAre
  <2>2. PICK c : c = channel[q]
    OBVIOUS
  <2>3. IsSeq(c) /\ Len(c) \in Nat /\ base + Len(c) = posted[q] /\ posted[q] \in Nat
    BY <2>1, <2>2, CountsAre, PlansAre DEF Shape, Channels
  <2>4. ASSUME NEW i \in 1 .. Len(c) PROVE UnderWay(q, c[i], base + i)'
    <3>1. UnderWay(q, c[i], base + i)
      BY <2>1, <2>2 DEF Channels
    <3> QED BY <2>3, <3>1, UnderWayStays
  <2>5. CASE channel'[q] = c /\ Count(q)' + Held(q)' = base
    <3>1. ASSUME NEW i \in 1 .. Len(channel'[q])
          PROVE  UnderWay(q, channel[q][i], Count(q) + Held(q) + i)'
      BY <2>4, <2>5
    <3> QED BY <2>3, <2>5, <3>1
  <2>6. CASE c # <<>> /\ channel'[q] = Tail(c) /\ Count(q)' + Held(q)' = base + 1
    <3>1. Len(c) > 0 /\ Len(Tail(c)) = Len(c) - 1 /\ \A i \in 1 .. Len(c) - 1 : Tail(c)[i] = c[i + 1]
      BY <2>3, <2>6, TailIs
    <3>2. ASSUME NEW i \in 1 .. Len(channel'[q])
          PROVE  UnderWay(q, channel[q][i], Count(q) + Held(q) + i)'
      <4>1. i \in 1 .. Len(c) - 1 /\ i + 1 \in 1 .. Len(c) /\ base + (i + 1) = base + 1 + i
        BY <2>3, <2>6, <3>1
      <4>2. UnderWay(q, c[i + 1], base + (i + 1))'
        BY <2>4, <4>1
      <4>3. channel'[q][i] = c[i + 1] /\ Count(q)' + Held(q)' + i = base + (i + 1)
        BY <2>6, <3>1, <4>1
      <4> QED BY <4>2, <4>3
    <3> QED BY <2>3, <2>6, <3>1, <3>2
  <2> QED BY <2>1, <2>2, <2>5, <2>6
<1> QED BY <1>1 DEF Channels

\* The first message of a channel, when none of it is held.
LEMMA FirstIsNext ==
    ASSUME Shape, Channels, NEW s \in Senders, channel[s] # <<>>, Held(s) = 0
    PROVE  UnderWay(s, First(s), Count(s) + 1) /\ Count(s) + 1 <= posted[s]
<1>1. PICK c : c = channel[s]
  OBVIOUS
<1>2. IsSeq(c) /\ c # <<>>
  BY <1>1 DEF Shape
<1>3. Len(c) > 0 /\ Head(c) = c[1] /\ Len(c) \in Nat
  BY <1>2, TailIs, SeqShape
<1>4. Count(s) \in Nat /\ posted[s] \in Nat
  BY CountsAre, PlansAre
<1>5. UnderWay(s, c[1], Count(s) + Held(s) + 1) /\ Count(s) + Held(s) + Len(c) = posted[s]
  BY <1>1, <1>3 DEF Channels
<1> QED BY <1>1, <1>3, <1>4, <1>5 DEF First

\* The receiver's own package stays as it is, if nothing is received that it has messages of.
LEMMA OwnPackageStays ==
    ASSUME OwnPackage, UNCHANGED <<type, plan, package, unread>>, unread = <<>> \/ UNCHANGED got,
           IsSeq(unread)
    PROVE  OwnPackage'
<1>1. PICK off \in [1 .. Len(unread) + 1 -> Nat] : Arranged(off)
  BY DEF OwnPackage
<1>2. ASSUME NEW i \in 1 .. Len(unread) PROVE Entry(i)' = Entry(i)
  <2>1. unread # <<>>
    BY SeqShape
  <2> QED BY <2>1 DEF Entry, NumberOf, UnreadTo, Unread
<1>3. Arranged(off)'
  BY <1>1, <1>2 DEF Arranged
<1> QED BY <1>1, <1>3 DEF OwnPackage

\* What was received stays what it was, and is as promised.
LEMMA GainedStays ==
    ASSUME Shape, Gained, UNCHANGED <<type, plan, got>>
    PROVE  Gained'
<1>1. /\ \A ns : Values(ns)' = Values(ns)
      /\ \A s, n : Promised(s, n)' = Promised(s, n)
  BY PromisesStay
<1>2. \A s, k, g : Gain(s, k, g)' = Gain(s, k, g)
  BY <1>1 DEF Gain
<1> QED BY <1>2 DEF Gained

\* One more message was received.
LEMMA GainedGrows ==
    ASSUME Shape, Gained, UNCHANGED <<type, plan>>, NEW s \in Senders, NEW g,
           got' = [got EXCEPT ![s] = Append(@, g)],
           Gain(s, Len(got[s]) + 1, g), Len(got[s]) + 1 <= Len(plan[s])
    PROVE  Gained'
<1>1. /\ \A ns : Values(ns)' = Values(ns)
      /\ \A q, n : Promised(q, n)' = Promised(q, n)
  BY PromisesStay
<1>2. ASSUME NEW q, NEW k, NEW x, Gain(q, k, x) PROVE Gain(q, k, x)'
  BY <1>1, <1>2 DEF Gain
<1>3. ASSUME NEW q \in Senders
      PROVE  Len(got'[q]) <= Len(plan[q]) /\ \A k \in 1 .. Len(got'[q]) : Gain(q, k, got[q][k])'
  <2>1. /\ Len(got'[q]) = IF q = s THEN Len(got[q]) + 1 ELSE Len(got[q])
        /\ \A k \in 1 .. Len(got[q]) : got'[q][k] = got[q][k]
        /\ got'[s][Len(got[s]) + 1] = g /\ Len(got[q]) \in Nat
    BY GotGrows, CountsAre
  <2>2. ASSUME NEW k \in 1 .. Len(got'[q]) PROVE Gain(q, k, got'[q][k])
    <3>1. CASE k \in 1 .. Len(got[q])
      BY <2>1, <3>1 DEF Gained
    <3>2. CASE k = Len(got[q]) + 1
      BY <2>1, <3>2
    <3> QED BY <2>1, <3>1, <3>2
  <2>3. ASSUME NEW k \in 1 .. Len(got'[q]) PROVE Gain(q, k, got[q][k])'
    <3>1. PICK x : x = got'[q][k]
      OBVIOUS
    <3>2. Gain(q, k, x)'
      BY <1>2, <2>2, <3>1
    <3> QED BY <3>1, <3>2
  <2> QED BY <2>1, <2>3 DEF Gained
<1> QED BY <1>3 DEF Gained

\* The receives that wait stay for the same messages.
LEMMA AwaitedStays ==
    ASSUME Shape, Awaited, UNCHANGED <<type, plan, receives, got>>
    PROVE  Awaited'
<1>1. \A s : Asked(s)' = Asked(s)
  BY DEF Asked, Awaits
<1>2. \A s, i : AwaitsTo(s, i)' = AwaitsTo(s, i)
  BY DEF AwaitsTo, Awaits
<1> QED BY <1>1, <1>2 DEF Awaited

\* A matched message stays matched.
LEMMA MatchingStays ==
    ASSUME Shape, Matching, UNCHANGED <<type, plan, matched>>,
           posted' \in [Senders -> Nat], \A q \in Senders : posted[q] <= posted'[q],
           \A q \in Senders : matched # <<>> /\ Match.source = q =>
               /\ Count(q)' = Count(q) /\ (Awaits(q) = {} => Awaits(q)' = {})
               /\ Match.taken = FALSE => memory'[q][Match.index] = memory[q][Match.index]
    PROVE  Matching'
<1>1. SUFFICES ASSUME matched # <<>>
               PROVE  UnderWay(Match.source, Match, Count(Match.source) + 1)' /\ Awaits(Match.source)' = {}
  BY DEF Matching
<1>2. PICK m : matched = <<m>> /\ m.source \in Senders /\ Match = m
  BY <1>1 DEF Shape, Match
<1>3. PICK q \in Senders : q = m.source
  BY <1>2
<1>4. PICK n : n = Count(q) + 1
  OBVIOUS
<1>5. UnderWay(q, m, n) /\ Awaits(q) = {}
  BY <1>1, <1>2, <1>3, <1>4 DEF Matching
<1>6. Match' = m
  BY <1>2 DEF Match
<1>7. Count(q)' + 1 = n
  BY <1>1, <1>2, <1>3, <1>4
<1>8. UnderWay(q, m, n)'
  <2>1. posted[q] \in Nat /\ posted'[q] \in Nat /\ posted[q] <= posted'[q]
    BY PlansAre
  <2>2. m.taken = FALSE => memory'[q][n] = memory[q][n]
    <3>1. m.index = n
      BY <1>5 DEF UnderWay
    <3> QED BY <1>1, <1>2, <1>3, <3>1
  <2> QED BY <1>5, <2>1, <2>2, UnderWayStays
<1>9. Awaits(q)' = {}
  BY <1>1, <1>2, <1>3, <1>5
<1> QED BY <1>3, <1>6, <1>7, <1>8, <1>9
-----------------------------------------------------------------------------
(* The steps of the senders.                                               *)

LEMMA InitHolds ==
    ASSUME Init
    PROVE  MInv
<1>1. /\ type \in Types /\ plan \in [Senders -> Plans] /\ posted = [s \in Senders |-> 0]
      /\ at = [s \in Senders |-> "idle"] /\ memory = [s \in Senders |-> <<>>]
      /\ channel = [s \in Senders |-> <<>>] /\ got = [s \in Senders |-> <<>>]
      /\ receives = <<>> /\ matched = <<>> /\ package = [bytes |-> <<>>, pos |-> 0] /\ unread = <<>>
  BY DEF Init
<1>2. IsSeq(<<>>) /\ Len(<<>>) = 0 /\ DOMAIN <<>> = {}
  BY Empty
<1>3. \A s \in Senders : Len(plan[s]) \in Nat
  BY <1>1, PlansAssumption
<1>4. Shape
  BY <1>1, <1>2, <1>3 DEF Shape
<1>5. \A s \in Senders : Count(s) = 0 /\ Held(s) = 0 /\ Asked(s) = 0
  BY <1>1, <1>2, <1>4, CountsAre DEF Held
<1>6. Channels
  BY <1>1, <1>2, <1>5 DEF Channels
<1>7. Matching
  BY <1>1 DEF Matching
<1>8. Awaited
  BY <1>1, <1>2, <1>3, <1>5 DEF Awaited
<1>9. OwnPackage
  <2>1. PICK off : off = [i \in 1 .. 1 |-> 0]
    OBVIOUS
  <2>2. off \in [1 .. Len(unread) + 1 -> Nat] /\ Arranged(off)
    BY <1>1, <1>2, <2>1 DEF Arranged
  <2>3. package.bytes \in Seq(Byte) /\ package = [bytes |-> package.bytes, pos |-> package.pos]
    BY <1>1
  <2> QED BY <1>1, <1>2, <2>2, <2>3 DEF OwnPackage
<1>10. Gained
  BY <1>1, <1>2, <1>3 DEF Gained
<1> QED BY <1>4, <1>6, <1>7, <1>8, <1>9, <1>10 DEF MInv

\* A message is posted: behind those of the channel, with its data taken or in memory.
LEMMA PostKeeps ==
    ASSUME MInv, NEW s \in Senders, NEW form \in {"message", "package"},
           NEW taking \in SUBSET BOOLEAN, NEW state \in {"idle", "send", "end"}, NEW kept \in BOOLEAN,
           form = "message" => type = "basic", type = "packed" => kept = TRUE,
           Post(s, form, taking, state, kept)
    PROVE  MInv'
<1> USE DEF MInv
<1>1. PICK m : m = posted[s] + 1
  OBVIOUS
<1>2. m \in Nat /\ m <= Len(plan[s]) /\ posted[s] \in Nat /\ posted[s] < m
  BY <1>1, PlansAre DEF Post
<1>3. /\ posted' = [posted EXCEPT ![s] = m] /\ at' = [at EXCEPT ![s] = state]
      /\ UNCHANGED <<type, plan, receives, matched, got, own>>
  BY <1>1 DEF Post
<1>4. PICK contents : contents = Contents(plan[s][m], "package") /\ contents = Contents(plan[s][m], form)
  <2>1. CASE form = "package"
    BY <2>1
  <2>2. CASE form = "message"
    <3>1. type = "basic" /\ type \in Types
      BY <2>2 DEF Shape
    <3>2. plan[s][m] \in Seq(Nat)
      BY <1>2, PlansAre
    <3> QED BY <3>1, <3>2, ContentsAlike
  <2> QED BY <2>1, <2>2
<1>18. PICK kernel : kernel = IF kept THEN Promised(s, m) ELSE Freed
  OBVIOUS
<1>19. kernel = IF kept THEN Holding(contents) ELSE Freed
  BY <1>4, <1>18 DEF Promised
<1>5. memory' = [memory EXCEPT ![s] = Append(@, kernel)]
  BY <1>1, <1>4, <1>19 DEF Post
<1>20. PICK taken \in taking :
           channel' = [channel EXCEPT ![s] = Append(@,
               [source |-> s, index |-> m, size |-> Len(contents), kept |-> kept, taken |-> taken,
                data |-> IF taken THEN Holding(contents) ELSE Freed])]
  BY <1>1, <1>4 DEF Post
<1>6. PICK message :
          /\ message = [source |-> s, index |-> m, size |-> Len(contents), kept |-> kept, taken |-> taken,
                        data |-> IF taken THEN Holding(contents) ELSE Freed]
          /\ channel' = [channel EXCEPT ![s] = Append(@, message)]
  BY <1>20
<1>7. /\ memory'[s] = Append(memory[s], kernel) /\ channel'[s] = Append(channel[s], message)
      /\ DOMAIN memory' = Senders /\ DOMAIN channel' = Senders
      /\ \A q \in Senders : q # s => memory'[q] = memory[q] /\ channel'[q] = channel[q]
  BY <1>5, <1>6 DEF Shape
<1>8. IsSeq(memory[s]) /\ IsSeq(channel[s]) /\ Len(memory[s]) = posted[s] /\ Len(channel[s]) \in Nat
  BY CountsAre DEF Shape
<1>9. /\ IsSeq(memory'[s]) /\ Len(memory'[s]) = m
      /\ \A n \in 1 .. posted[s] : memory'[s][n] = memory[s][n]
      /\ memory'[s][m] = kernel
  BY <1>1, <1>7, <1>8, AppendIs
<1>10. /\ IsSeq(channel'[s]) /\ Len(channel'[s]) = Len(channel[s]) + 1
       /\ \A i \in 1 .. Len(channel[s]) : channel'[s][i] = channel[s][i]
       /\ channel'[s][Len(channel[s]) + 1] = message
  BY <1>7, <1>8, AppendIs
<1>11. posted' \in [Senders -> Nat] /\ \A q \in Senders : posted[q] <= posted'[q]
  BY <1>2, <1>3, PlansAre DEF Shape
<1>12. Shape'
  <2>1. at' \in [Senders -> {"idle", "send", "end"}]
    BY <1>3 DEF Shape
  <2>2. ASSUME NEW q \in Senders
        PROVE  /\ posted'[q] <= Len(plan'[q]) /\ IsSeq(memory'[q]) /\ Len(memory'[q]) = posted'[q]
               /\ IsSeq(channel'[q]) /\ IsSeq(got'[q])
    <3>1. CASE q = s
      BY <1>2, <1>3, <1>9, <1>10, <1>11, <3>1 DEF Shape
    <3>2. CASE q # s
      BY <1>3, <1>7, <3>2 DEF Shape
    <3> QED BY <3>1, <3>2
  <2>3. type' \in Types /\ plan' \in [Senders -> Plans] /\ DOMAIN got' = Senders
    BY <1>3 DEF Shape
  <2>4. /\ IsSeq(receives') /\ IsSeq(unread')
        /\ \A i \in DOMAIN receives' : receives'[i].source \in Senders
        /\ \A i \in DOMAIN unread' : unread'[i].source \in Senders
        /\ matched' = <<>> \/ \E x : matched' = <<x>> /\ x.source \in Senders
    BY <1>3 DEF Shape, own
  <2> QED BY <1>7, <1>11, <2>1, <2>2, <2>3, <2>4 DEF Shape
<1>13. \A q : Count(q)' = Count(q) /\ Held(q)' = Held(q)
  BY <1>3, CountStays, HeldStays DEF own
<1>14. UnderWay(s, message, m)'
  <2>1. /\ Promised(s, m)' = Promised(s, m)
        /\ Len(Contents(plan[s][m], "package"))' = Len(Contents(plan[s][m], "package"))
    BY <1>3, PromisesStay
  <2>2. taken \in BOOLEAN
    OBVIOUS
  <2>3. /\ message.source = s /\ message.index = m /\ message.taken = taken /\ message.kept = kept
        /\ message.size = Len(Contents(plan[s][m], "package"))
        /\ taken => message.data = Promised(s, m)
    BY <1>4, <1>6 DEF Promised
  <2>4. m \in 1 .. posted'[s]
    BY <1>2, <1>3 DEF Shape
  <2>5. memory'[s][m] = IF kept THEN Promised(s, m) ELSE Freed
    BY <1>9, <1>18
  <2> QED BY <1>3, <2>1, <2>2, <2>3, <2>4, <2>5 DEF UnderWay
<1>15. Channels'
  <2>1. ASSUME NEW q \in Senders, NEW i \in 1 .. Len(channel[q])
        PROVE  UnderWay(q, channel[q][i], Count(q) + Held(q) + i)'
    <3>1. PICK x : x = channel[q][i]
      OBVIOUS
    <3>2. PICK n : n = Count(q) + Held(q) + i
      OBVIOUS
    <3>3. UnderWay(q, x, n)
      BY <3>1, <3>2 DEF Channels
    <3>4. n \in 1 .. posted[q]
      BY <3>3 DEF UnderWay
    <3>5. memory'[q][n] = memory[q][n]
      BY <1>7, <1>9, <3>4
    <3>6. posted[q] \in Nat /\ posted'[q] \in Nat /\ posted[q] <= posted'[q]
      BY <1>11, PlansAre
    <3>7. UnderWay(q, x, n)'
      BY <1>3, <3>3, <3>5, <3>6, UnderWayStays
    <3>8. channel'[q][i] = x /\ Count(q)' + Held(q)' + i = n
      BY <1>7, <1>10, <1>13, <3>1, <3>2
    <3> QED BY <3>7, <3>8
  <2>2. ASSUME NEW q \in Senders
        PROVE  /\ Count(q)' + Held(q)' + Len(channel'[q]) = posted'[q]
               /\ \A i \in 1 .. Len(channel'[q]) : UnderWay(q, channel[q][i], Count(q) + Held(q) + i)'
    <3>1. Count(q) + Held(q) + Len(channel[q]) = posted[q] /\ Count(q) \in Nat /\ Held(q) \in Nat
          /\ Len(channel[q]) \in Nat
      BY CountsAre DEF Channels
    <3>2. CASE q = s
      <4>1. posted'[s] = m /\ Count(s)' + Held(s)' + Len(channel'[s]) = m
        BY <1>1, <1>3, <1>10, <1>13, <3>1, <3>2 DEF Shape
      <4>2. ASSUME NEW i \in 1 .. Len(channel'[s]) PROVE UnderWay(s, channel[s][i], Count(s) + Held(s) + i)'
        <5>1. CASE i \in 1 .. Len(channel[s])
          BY <2>1, <5>1
        <5>2. CASE i = Len(channel[s]) + 1
          <6>1. channel'[s][i] = message /\ Count(s)' + Held(s)' + i = m
            BY <1>10, <4>1, <5>2
          <6> QED BY <1>14, <6>1
        <5> QED BY <1>8, <1>10, <5>1, <5>2
      <4> QED BY <3>2, <4>1, <4>2
    <3>3. CASE q # s
      BY <1>3, <1>7, <1>13, <2>1, <3>1, <3>3
    <3> QED BY <3>2, <3>3
  <2> QED BY <2>2 DEF Channels
<1>16. Matching'
  <2>1. ASSUME NEW q \in Senders, matched # <<>>, Match.source = q
        PROVE  memory'[q][Match.index] = memory[q][Match.index]
    <3>1. PICK n : n = Match.index
      OBVIOUS
    <3>2. n \in 1 .. posted[q]
      BY <2>1, <3>1 DEF Matching, UnderWay
    <3>3. memory'[q][n] = memory[q][n]
      BY <1>7, <1>9, <3>2
    <3> QED BY <3>1, <3>3
  <2>2. \A q : Awaits(q)' = Awaits(q)
    BY <1>3 DEF Awaits
  <2> QED BY <1>3, <1>11, <1>13, <2>1, <2>2, MatchingStays
<1>17. Awaited' /\ OwnPackage' /\ Gained'
  BY <1>3, AwaitedStays, OwnPackageStays, GainedStays DEF own, Shape
<1> QED BY <1>12, <1>15, <1>16, <1>17

LEMMA SendsKeep ==
    ASSUME MInv, NEW s \in Senders,
           \/ SendBasic(s) \/ IsendBasic(s) \/ IssendBasic(s) \/ BsendBasic(s)
           \/ SendPackage(s) \/ IsendPackage(s) \/ SendOwnPackage(s) \/ SendPackedN(s)
    PROVE  MInv'
<1>1. Shape
  BY DEF MInv
<1>2. BOOLEAN \in SUBSET BOOLEAN /\ {TRUE} \in SUBSET BOOLEAN /\ {FALSE} \in SUBSET BOOLEAN
  OBVIOUS
<1>3. CASE SendBasic(s)
  BY <1>1, <1>2, <1>3, FormsFit, PostKeeps DEF SendBasic
<1>4. CASE IsendBasic(s)
  BY <1>1, <1>2, <1>4, FormsFit, PostKeeps DEF IsendBasic
<1>5. CASE IssendBasic(s)
  BY <1>1, <1>2, <1>5, FormsFit, PostKeeps DEF IssendBasic
<1>6. CASE BsendBasic(s)
  BY <1>1, <1>2, <1>6, FormsFit, PostKeeps DEF BsendBasic
<1>7. CASE SendPackage(s)
  BY <1>1, <1>2, <1>7, FormsFit, PostKeeps DEF SendPackage
<1>8. CASE IsendPackage(s)
  BY <1>1, <1>2, <1>8, FormsFit, PostKeeps DEF IsendPackage
<1>9. CASE SendOwnPackage(s)
  BY <1>1, <1>2, <1>9, FormsFit, PostKeeps DEF SendOwnPackage
<1>10. CASE SendPackedN(s)
  BY <1>1, <1>2, <1>10, FormsFit, PostKeeps DEF SendPackedN
<1> QED BY <1>3, <1>4, <1>5, <1>6, <1>7, <1>8, <1>9, <1>10

\* Memory goes away that no message is yet to be taken from.
LEMMA MemoryKeeps ==
    ASSUME MInv, NEW s \in Senders, UNCHANGED <<type, plan, posted, channel, receives, matched, got, own>>,
           at' \in [Senders -> {"idle", "send", "end"}],
           DOMAIN memory' = Senders, IsSeq(memory'[s]), Len(memory'[s]) = posted[s],
           \A q \in Senders : q # s => memory'[q] = memory[q],
           \A n \in Untaken(s) : memory'[s][n] = memory[s][n]
    PROVE  MInv'
<1> USE DEF MInv
<1>1. Shape'
  BY DEF Shape, own
<1>2. \A q : Count(q)' = Count(q) /\ Held(q)' = Held(q)
  BY CountStays, HeldStays DEF own
<1>3. Channels'
  <2>1. ASSUME NEW q \in Senders, NEW i \in 1 .. Len(channel[q])
        PROVE  UnderWay(q, channel[q][i], Count(q) + Held(q) + i)'
    <3>1. PICK x : x = channel[q][i]
      OBVIOUS
    <3>2. PICK n : n = Count(q) + Held(q) + i
      OBVIOUS
    <3>3. UnderWay(q, x, n)
      BY <3>1, <3>2 DEF Channels
    <3>4. x.taken = FALSE => memory'[q][n] = memory[q][n]
      <4>1. CASE q = s /\ x.taken = FALSE
        <5>1. x.index = n
          BY <3>3 DEF UnderWay
        <5>2. i \in DOMAIN channel[q]
          BY SeqShape DEF Shape
        <5>3. n \in Untaken(s)
          BY <3>1, <4>1, <5>1, <5>2 DEF Untaken
        <5> QED BY <4>1, <5>3
      <4>2. CASE q # s
        BY <4>2
      <4> QED BY <4>1, <4>2
    <3>5. posted[q] \in Nat /\ posted'[q] \in Nat /\ posted[q] <= posted'[q] /\ UNCHANGED <<type, plan>>
      BY PlansAre
    <3>6. UnderWay(q, x, n)'
      BY <3>3, <3>4, <3>5, UnderWayStays
    <3>7. channel'[q][i] = x /\ Count(q)' + Held(q)' + i = n
      BY <1>2, <3>1, <3>2
    <3> QED BY <3>6, <3>7
  <2> QED BY <1>2, <2>1 DEF Channels
<1>4. Matching'
  <2>1. ASSUME NEW q \in Senders, matched # <<>>, Match.source = q, Match.taken = FALSE
        PROVE  memory'[q][Match.index] = memory[q][Match.index]
    <3>1. PICK n : n = Match.index
      OBVIOUS
    <3>2. q = s => n \in Untaken(s)
      BY <2>1, <3>1 DEF Untaken
    <3>3. memory'[q][n] = memory[q][n]
      BY <3>2
    <3> QED BY <3>1, <3>3
  <2>2. \A q : Awaits(q)' = Awaits(q)
    BY DEF Awaits
  <2>3. posted' \in [Senders -> Nat] /\ \A q \in Senders : posted[q] <= posted'[q]
    BY PlansAre DEF Shape
  <2> QED BY <1>2, <2>1, <2>2, <2>3, MatchingStays
<1>5. Awaited' /\ OwnPackage' /\ Gained'
  BY AwaitedStays, OwnPackageStays, GainedStays DEF own, Shape
<1> QED BY <1>1, <1>3, <1>4, <1>5

Changed(f, k, x) == [f EXCEPT ![k] = x]

LEMMA SeqChanged ==
    ASSUME NEW f, IsSeq(f), NEW k, NEW x
    PROVE  /\ IsSeq(Changed(f, k, x)) /\ Len(Changed(f, k, x)) = Len(f)
           /\ \A i : i # k => Changed(f, k, x)[i] = f[i]
<1>0. PICK g : g = Changed(f, k, x)
  OBVIOUS
<1>1. PICK S : f \in Seq(S)
  BY InSomeSeq
<1>2. PICK n \in Nat : n = Len(f) /\ f \in [1 .. n -> S]
  BY <1>1
<1>3. PICK R : R = S \cup {x}
  OBVIOUS
<1>4. g \in [1 .. n -> R]
  BY <1>0, <1>2, <1>3 DEF Changed
<1>5. g \in Seq(R) /\ Len(g) = n
  BY <1>4, FunctionIsSeq
<1>6. \A i : i # k => g[i] = f[i]
  BY <1>0, <1>2 DEF Changed
<1> QED BY <1>0, <1>2, <1>5, <1>6, SeqIs

LEMMA ReturnKeeps ==
    ASSUME MInv, NEW s \in Senders, Return(s)
    PROVE  MInv'
<1>1. Shape
  BY DEF MInv
<1>2. PICK n : n = posted[s]
  OBVIOUS
<1>3. PICK f : f = memory[s]
  OBVIOUS
<1>4. PICK g : g = Changed(f, n, Freed)
  OBVIOUS
<1>5. n \notin Untaken(s) /\ UNCHANGED <<type, plan, posted, channel, receives, matched, got, own>>
  BY <1>2 DEF Return
<1>6. IsSeq(f) /\ Len(f) = n
  BY <1>1, <1>2, <1>3 DEF Shape
<1>7. IsSeq(g) /\ Len(g) = n /\ \A i : i # n => g[i] = f[i]
  BY <1>4, <1>6, SeqChanged
<1>8. memory' = [memory EXCEPT ![s] = g]
  BY <1>2, <1>3, <1>4 DEF Return, Changed
<1>9. DOMAIN memory' = Senders /\ memory'[s] = g /\ \A q \in Senders : q # s => memory'[q] = memory[q]
  BY <1>1, <1>8 DEF Shape
<1>10. at' \in [Senders -> {"idle", "send", "end"}]
  BY <1>1 DEF Return, Shape
<1>11. \A i \in Untaken(s) : memory'[s][i] = memory[s][i]
  BY <1>3, <1>5, <1>7, <1>9
<1> QED BY <1>2, <1>5, <1>7, <1>9, <1>10, <1>11, MemoryKeeps

LEMMA WaitSendsKeeps ==
    ASSUME MInv, NEW s \in Senders, WaitSends(s)
    PROVE  MInv'
<1>1. Shape
  BY DEF MInv
<1>2. PICK f : f = memory[s]
  OBVIOUS
<1>3. IsSeq(f) /\ Len(f) = posted[s] /\ DOMAIN f = 1 .. Len(f) /\ Len(f) \in Nat
  BY <1>1, <1>2, SeqShape DEF Shape
<1>4. PICK g : g = [m \in 1 .. Len(f) |-> Freed]
  OBVIOUS
<1>5. g \in Seq({Freed}) /\ Len(g) = Len(f)
  BY <1>3, <1>4
<1>6. IsSeq(g)
  BY <1>5, SeqIs
<1>7. Untaken(s) = {} /\ UNCHANGED <<type, plan, posted, channel, receives, matched, got, own>>
  BY DEF WaitSends
<1>8. memory' = [memory EXCEPT ![s] = g]
  BY <1>2, <1>3, <1>4 DEF WaitSends
<1>9. DOMAIN memory' = Senders /\ memory'[s] = g /\ \A q \in Senders : q # s => memory'[q] = memory[q]
  BY <1>1, <1>8 DEF Shape
<1>10. at' \in [Senders -> {"idle", "send", "end"}]
  BY <1>1 DEF WaitSends, Shape
<1> QED BY <1>3, <1>5, <1>6, <1>7, <1>9, <1>10, MemoryKeeps
-----------------------------------------------------------------------------
(* Receiving.                                                              *)

LEMMA Unqueued ==
    ASSUME Shape, NEW s \in Senders, channel[s] # <<>>, Unqueue(s)
    PROVE  /\ DOMAIN channel' = Senders /\ channel'[s] = Tail(channel[s])
           /\ \A q \in Senders : q # s => channel'[q] = channel[q]
           /\ \A q \in Senders : IsSeq(channel'[q])
<1>1. IsSeq(channel[s]) /\ DOMAIN channel = Senders
  BY DEF Shape
<1>2. IsSeq(Tail(channel[s]))
  BY <1>1, TailIs
<1>3. channel' = [channel EXCEPT ![s] = Tail(channel[s])]
  BY DEF Unqueue
<1> QED BY <1>1, <1>2, <1>3 DEF Shape

\* A message is received as the next one of its source.
LEMMA Receipt ==
    ASSUME MInv, NEW s \in Senders, NEW n, n = Len(got[s]) + 1, NEW m, UnderWay(s, m, n),
           unread = <<>>, UNCHANGED <<type, plan, posted, unread>>,
           NEW room, NEW way, NEW count, Receive(m, room, way, count), room = m.size,
           \/ way = "plain" /\ type = "basic" /\ count = Len(plan[s][n])
           \/ way = "count" /\ type # "packed" /\ count = Len(plan[s][n])
           \/ way = "while" /\ type # "packed"
    PROVE  /\ Gained' /\ DOMAIN got' = Senders
           /\ \A q \in Senders : IsSeq(got'[q]) /\ Count(q)' = IF q = s THEN Count(q) + 1 ELSE Count(q)
           /\ \A q \in Senders : q # s => got'[q] = got[q]
           /\ Len(got'[s]) = n /\ n <= Len(plan[s])
<1> USE DEF MInv
<1>1. PICK g : g = [data |-> Data(m), kept |-> m.kept, way |-> way, count |-> count, fits |-> room = m.size]
  OBVIOUS
<1>2. got' = [got EXCEPT ![s] = Append(@, g)]
  BY <1>1 DEF Receive, UnderWay
<1>3. n <= Len(plan[s]) /\ n \in Nat
  BY PlansAre DEF UnderWay
<1>4. g.kept = m.kept /\ g.kept \in BOOLEAN /\ g.fits = TRUE /\ g.way = way /\ g.count = count
  BY <1>1 DEF UnderWay
<1>5. g.data = Promised(s, n) \/ (g.data = Freed /\ g.kept = FALSE)
  <2>1. g.data = Data(m) /\ g.kept = m.kept
    BY <1>1
  <2>2. Data(m) = Promised(s, n) \/ (Data(m) = Freed /\ m.kept = FALSE)
    BY DataPromised
  <2> QED BY Zenon, <2>1, <2>2
<1>9. Gain(s, n, g)
  BY <1>4, <1>5 DEF Gain
<1>10. Gained'
  BY <1>2, <1>3, <1>9, GainedGrows
<1>11. \A q \in Senders : /\ Count(q)' = IF q = s THEN Count(q) + 1 ELSE Count(q)
                          /\ Len(got'[q]) = IF q = s THEN Len(got[q]) + 1 ELSE Len(got[q])
                          /\ IsSeq(got'[q]) /\ DOMAIN got' = Senders
  BY <1>2, CountGrows, GotGrows
<1>12. \A q \in Senders : q # s => got'[q] = got[q]
  BY <1>2 DEF Shape
<1> QED BY <1>3, <1>10, <1>11, <1>12

\* A message of basic values has as many of them as its size tells.
LEMMA SizeTells ==
    ASSUME type \in Types, type = "basic", NEW s, NEW m, NEW n, UnderWay(s, m, n), plan[s][n] \in Seq(Nat)
    PROVE  m.size = Len(plan[s][n]) * IntWidth /\ m.size \div IntWidth = Len(plan[s][n])
<1>1. PICK ns \in Seq(Nat) : ns = plan[s][n]
  OBVIOUS
<1>2. m.size = Len(Contents(ns, "package"))
  BY <1>1 DEF UnderWay
<1>3. Len(Contents(ns, "package")) = Len(ns) * IntWidth
  BY <1>1, ContentsAlike
<1>4. PICK c \in Nat : c = Len(ns)
  BY <1>1
<1>5. (c * IntWidth) \div IntWidth = c
  BY DEF IntWidth
<1> QED BY <1>1, <1>2, <1>3, <1>4, <1>5

\* Others wait for the same messages when one of a source arrives that none waited for.
LEMMA AwaitedGrows ==
    ASSUME Shape, Awaited, UNCHANGED <<type, plan, receives>>, NEW s \in Senders, Awaits(s) = {},
           \A q \in Senders : q # s => got'[q] = got[q],
           Len(got'[s]) \in Nat, Len(got'[s]) <= Len(plan[s])
    PROVE  Awaited'
<1>1. \A q : Awaits(q)' = Awaits(q)
  BY DEF Awaits
<1>2. \A q, i : AwaitsTo(q, i)' = AwaitsTo(q, i)
  BY DEF AwaitsTo, Awaits
<1>3. ASSUME NEW q \in Senders PROVE Asked(q)' <= Len(plan[q])
  <2>1. CASE q # s
    BY <1>1, <2>1 DEF Awaited, Asked
  <2>2. CASE q = s
    <3>1. Cardinality(Awaits(s)) = 0
      BY CountsAre, FS_EmptySet
    <3>2. PICK c : c = Cardinality(Awaits(s))
      OBVIOUS
    <3>3. Asked(s)' = Len(got'[s]) + c /\ c = 0
      BY <1>1, <3>1, <3>2 DEF Asked
    <3> QED BY <2>2, <3>3
  <2> QED BY <2>1, <2>2
<1>4. ASSUME NEW i \in DOMAIN receives
      PROVE  receives[i].count = Len(plan[receives[i].source]
                 [Len(got'[receives[i].source]) + Cardinality(AwaitsTo(receives[i].source, i))])
  <2>1. receives[i].source \in Senders /\ receives[i].source # s
    BY DEF Shape, Awaits
  <2> QED BY <2>1 DEF Awaited
<1> QED BY <1>2, <1>3, <1>4 DEF Awaited

\* receive_n of basic values.
LEMMA ReceiveNKeeps ==
    ASSUME MInv, NEW s \in Senders, ReceiveN(s)
    PROVE  MInv'
<1> USE DEF MInv
<1>1. /\ By(ReceiveForms, "message") /\ matched = <<>> /\ Awaits(s) = {} /\ channel[s] # <<>>
      /\ Receive(First(s), Len(Expected(s)) * IntWidth, "plain", Len(Expected(s))) /\ Unqueue(s)
      /\ UNCHANGED <<type, plan, posted, at, memory, receives, matched, own>>
  BY DEF ReceiveN
<1>2. type = "basic" /\ type \in Types /\ unread = <<>>
  BY <1>1, FormsFit DEF OwnPackage, Shape
<1>3. Held(s) = 0
  BY <1>1 DEF Held
<1>4. PICK n \in Nat : n = Len(got[s]) + 1 /\ n = Count(s) + 1 /\ n = Asked(s) + 1
  BY <1>1, <1>2, CountsAre
<1>5. PICK m : m = First(s) /\ UnderWay(s, m, n) /\ n \in 1 .. Len(plan[s])
  <2>1. UnderWay(s, First(s), n) /\ n <= posted[s]
    BY <1>1, <1>3, <1>4, FirstIsNext
  <2>2. n \in 1 .. Len(plan[s])
    BY <1>4, <2>1, CountsAre, PlansAre
  <2> QED BY <2>1, <2>2
<1>6. PICK count : count = Len(plan[s][n]) /\ count = Len(Expected(s)) /\ count * IntWidth = m.size
  <2>1. plan[s][n] \in Seq(Nat) /\ Expected(s) = plan[s][n]
    BY <1>4, <1>5, PlansAre DEF Expected
  <2> QED BY <1>2, <1>5, <2>1, SizeTells
<1>7. UNCHANGED unread
  BY <1>1 DEF own
<1>8. Receive(m, count * IntWidth, "plain", count)
  BY <1>1, <1>5, <1>6
<1>9. /\ Gained' /\ DOMAIN got' = Senders
      /\ \A q \in Senders : IsSeq(got'[q]) /\ Count(q)' = IF q = s THEN Count(q) + 1 ELSE Count(q)
      /\ \A q \in Senders : q # s => got'[q] = got[q]
      /\ Len(got'[s]) = n /\ n <= Len(plan[s])
  BY <1>1, <1>2, <1>4, <1>5, <1>6, <1>7, <1>8, Receipt
<1>10. /\ DOMAIN channel' = Senders /\ channel'[s] = Tail(channel[s])
       /\ \A q \in Senders : q # s => channel'[q] = channel[q]
       /\ \A q \in Senders : IsSeq(channel'[q])
  BY <1>1, Unqueued
<1>11. Shape'
  BY <1>1, <1>9, <1>10 DEF Shape, own
<1>12. Channels'
  <2>1. ASSUME NEW q \in Senders
        PROVE  \/ channel'[q] = channel[q] /\ Count(q)' + Held(q)' = Count(q) + Held(q)
               \/ /\ channel[q] # <<>> /\ channel'[q] = Tail(channel[q])
                  /\ Count(q)' + Held(q)' = Count(q) + Held(q) + 1
    <3>1. Held(q)' = Held(q) /\ Count(q) \in Nat /\ Held(q) \in {0, 1}
      BY <1>1, HeldStays, CountsAre
    <3> QED BY <1>1, <1>9, <1>10, <3>1
  <2> QED BY <1>1, <2>1, ChannelsAdvance
<1>13. Matching'
  BY <1>1 DEF Matching
<1>14. Awaited'
  BY <1>1, <1>4, <1>9, AwaitedGrows
<1>15. OwnPackage'
  BY <1>1, <1>2, OwnPackageStays DEF own, Shape
<1> QED BY <1>9, <1>11, <1>12, <1>13, <1>14, <1>15

LEMMA MatchedProbeKeeps ==
    ASSUME MInv, NEW s \in Senders, MatchedProbe(s)
    PROVE  MInv'
<1> USE DEF MInv
<1>1. /\ matched = <<>> /\ Awaits(s) = {} /\ channel[s] # <<>> /\ matched' = <<First(s)>> /\ Unqueue(s)
      /\ UNCHANGED <<type, plan, posted, at, memory, receives, got, own>>
  BY DEF MatchedProbe
<1>2. \A q : Held(q) = 0 /\ Awaits(q)' = Awaits(q) /\ Count(q)' = Count(q)
  BY <1>1, CountStays DEF Held, Awaits, own
<1>3. PICK m : m = First(s)
  OBVIOUS
<1>4. PICK n : n = Count(s) + 1
  OBVIOUS
<1>5. UnderWay(s, m, n) /\ m.source = s
  BY <1>1, <1>2, <1>3, <1>4, FirstIsNext DEF UnderWay
<1>6. matched' = <<m>> /\ Match' = m
  BY <1>1, <1>3 DEF Match
<1>7. /\ DOMAIN channel' = Senders /\ channel'[s] = Tail(channel[s])
      /\ \A q \in Senders : q # s => channel'[q] = channel[q]
      /\ \A q \in Senders : IsSeq(channel'[q])
  BY <1>1, Unqueued
<1>8. Shape'
  BY <1>1, <1>5, <1>6, <1>7 DEF Shape, own
<1>9. ASSUME NEW q \in Senders PROVE Held(q)' = IF q = s THEN 1 ELSE 0
  BY <1>5, <1>6 DEF Held
<1>10. Channels'
  <2>1. ASSUME NEW q \in Senders
        PROVE  \/ channel'[q] = channel[q] /\ Count(q)' + Held(q)' = Count(q) + Held(q)
               \/ /\ channel[q] # <<>> /\ channel'[q] = Tail(channel[q])
                  /\ Count(q)' + Held(q)' = Count(q) + Held(q) + 1
    BY <1>1, <1>2, <1>7, <1>9, CountsAre
  <2> QED BY <1>1, <2>1, ChannelsAdvance
<1>11. Matching'
  <2>1. posted[s] \in Nat /\ UNCHANGED <<type, plan, posted, memory>>
    BY <1>1, PlansAre
  <2>2. UnderWay(s, m, n)'
    BY <1>5, <2>1, UnderWayStays
  <2>3. Match'.source = s /\ Count(s)' + 1 = n /\ Awaits(s)' = {}
    BY <1>1, <1>2, <1>4, <1>5, <1>6
  <2> QED BY <1>6, <2>2, <2>3 DEF Matching
<1>12. Awaited' /\ OwnPackage' /\ Gained'
  BY <1>1, AwaitedStays, OwnPackageStays, GainedStays DEF own, Shape
<1> QED BY <1>8, <1>10, <1>11, <1>12

\* ireceive_n: the receive waits behind those that were posted before.
LEMMA IreceiveNKeeps ==
    ASSUME MInv, NEW s \in Senders, IreceiveN(s)
    PROVE  MInv'
<1> USE DEF MInv
<1>1. PICK r : r = [source |-> s, count |-> Len(Expected(s))]
  OBVIOUS
<1>2. /\ By(IreceiveForms, "message") /\ matched = <<>> /\ Remains(s)
      /\ receives' = Append(receives, r)
      /\ UNCHANGED <<type, plan, posted, at, memory, channel, matched, got, own>>
  BY <1>1 DEF IreceiveN
<1>3. PICK l \in Nat : l = Len(receives) /\ DOMAIN receives = 1 .. l
  BY SeqShape DEF Shape
<1>4. /\ IsSeq(receives') /\ DOMAIN receives' = 1 .. l + 1 /\ receives'[l + 1] = r
      /\ \A i \in 1 .. l : receives'[i] = receives[i]
  BY <1>2, <1>3, AppendIs DEF Shape
<1>5. Shape'
  <2>1. ASSUME NEW i \in 1 .. l + 1 PROVE receives'[i].source \in Senders
    <3>1. CASE i \in 1 .. l
      BY <1>3, <1>4, <3>1 DEF Shape
    <3>2. CASE i = l + 1
      BY <1>1, <1>4, <3>2
    <3> QED BY <3>1, <3>2
  <2> QED BY <1>2, <1>4, <2>1 DEF Shape, own
<1>6. \A q : Count(q)' = Count(q) /\ Held(q)' = Held(q)
  BY <1>2, CountStays, HeldStays DEF own
<1>7. Channels'
  BY <1>2, <1>6, ChannelsAdvance
<1>8. Matching'
  BY <1>2 DEF Matching
<1>9. Awaits(s)' = Awaits(s) \cup {l + 1} /\ \A q : q # s => Awaits(q)' = Awaits(q)
  BY <1>1, <1>3, <1>4 DEF Awaits
<1>10. PICK c \in Nat : c = Cardinality(Awaits(s)) /\ Awaits(s) \subseteq 1 .. l
  BY <1>3, CountsAre
<1>11. Cardinality(Awaits(s) \cup {l + 1}) = c + 1
  <2>1. l + 1 \notin Awaits(s) /\ IsFiniteSet(Awaits(s))
    BY <1>10, CountsAre
  <2> QED BY <1>10, <2>1, FS_AddElement
<1>12. Asked(s) = Len(got[s]) + c /\ Len(got[s]) \in Nat
  BY <1>10, CountsAre DEF Asked
<1>13. type = "basic"
  BY <1>2, FormsFit
<1>14. ASSUME NEW q \in Senders PROVE Asked(q)' <= Len(plan'[q])
  <2>1. CASE q = s
    <3>1. Asked(s)' = Len(got[s]) + (c + 1)
      BY <1>2, <1>9, <1>11 DEF Asked
    <3>2. Len(got[s]) + c < Len(plan[s])
      BY <1>2, <1>12 DEF Remains
    <3>3. Len(plan[s]) \in Nat
      BY PlansAre
    <3>4. Asked(s)' <= Len(plan[s])
      BY <1>10, <1>12, <3>1, <3>2, <3>3
    <3> QED BY <1>2, <2>1, <3>4
  <2>2. CASE q # s
    BY <1>2, <1>9, <2>2 DEF Awaited, Asked
  <2> QED BY <2>1, <2>2
<1>15. ASSUME NEW i \in 1 .. l + 1, NEW q, q = receives'[i].source
       PROVE  receives'[i].count = Len(plan[q][Len(got[q]) + Cardinality(AwaitsTo(q, i)')])
  <2>1. CASE i \in 1 .. l
    <3>1. q = receives[i].source /\ receives'[i] = receives[i]
      BY <1>4, <1>15, <2>1
    <3>2. AwaitsTo(q, i)' = AwaitsTo(q, i)
      BY <1>9, <1>10, <2>1 DEF AwaitsTo
    <3>3. receives[i].count = Len(plan[q][Len(got[q]) + Cardinality(AwaitsTo(q, i))])
      BY <1>3, <2>1, <3>1 DEF Awaited
    <3> QED BY <3>1, <3>2, <3>3
  <2>2. CASE i = l + 1
    <3>1. AwaitsTo(s, i)' = Awaits(s) \cup {l + 1}
      BY <1>3, <1>9, <1>10, <2>2 DEF AwaitsTo
    <3>2. PICK k : k = Asked(s) + 1 /\ k = Len(got[s]) + Cardinality(AwaitsTo(s, i)')
      <4>1. Asked(s) + 1 = Len(got[s]) + Cardinality(AwaitsTo(s, i)')
        BY <1>10, <1>11, <1>12, <3>1
      <4> QED BY <4>1
    <3>3. r.count = Len(plan[s][k]) /\ r.source = s
      BY <1>1, <3>2 DEF Expected
    <3>4. receives'[i] = r /\ q = s
      BY <1>4, <1>15, <2>2, <3>3
    <3> QED BY <3>2, <3>3, <3>4
  <2> QED BY <1>3, <2>1, <2>2
<1>16. Awaited'
  <2>1. ASSUME NEW i \in 1 .. l + 1
        PROVE  (receives[i].count = Len(plan[receives[i].source]
                   [Len(got[receives[i].source]) + Cardinality(AwaitsTo(receives[i].source, i))]))'
    BY <1>2, <1>15
  <2> QED BY <1>4, <1>13, <1>14, <1>2, <2>1 DEF Awaited
<1>17. OwnPackage' /\ Gained'
  BY <1>2, OwnPackageStays, GainedStays DEF own, Shape
<1> QED BY <1>5, <1>7, <1>8, <1>16, <1>17

\* The places of the receives that wait close up when one of them is met.
LEMMA PlacesClose ==
    ASSUME NEW T, NEW i \in Nat, NEW j \in Nat, NEW j0, j0 = IF j < i THEN j ELSE j + 1, T \subseteq Nat
    PROVE  {k \in Closed(T, i) : k <= j} = Closed({k \in T : k <= j0}, i)
<1>1. ASSUME NEW k \in Nat
      PROVE  ((k < i /\ k \in T) \/ (k >= i /\ k + 1 \in T)) /\ k <= j
             <=> (k < i /\ k \in T /\ k <= j0) \/ (k >= i /\ k + 1 \in T /\ k + 1 <= j0)
  OBVIOUS
<1> QED BY <1>1 DEF Closed

\* An immediate receive is met by the message that it waits for.
LEMMA ArriveKeeps ==
    ASSUME MInv, NEW i \in DOMAIN receives, Arrive(i)
    PROVE  MInv'
<1> USE DEF MInv
<1>1. PICK l \in Nat : l = Len(receives) /\ DOMAIN receives = 1 .. l /\ i \in 1 .. l /\ i \in Nat
  <2>1. PICK l \in Nat : l = Len(receives) /\ DOMAIN receives = 1 .. l
    BY SeqShape DEF Shape
  <2>2. i \in 1 .. l
    BY <2>1
  <2>3. i \in Nat
    BY <2>1, <2>2
  <2> QED BY <2>1, <2>2, <2>3
<1>2. PICK s \in Senders : s = receives[i].source
  BY DEF Shape
<1>3. /\ channel[s] # <<>> /\ \A j \in Awaits(s) : i <= j
      /\ Receive(First(s), receives[i].count * IntWidth, "plain", receives[i].count) /\ Unqueue(s)
      /\ receives' = RemoveAt(receives, i)
      /\ UNCHANGED <<type, plan, posted, at, memory, matched, own>>
  BY <1>2 DEF Arrive
<1>4. type = "basic" /\ type \in Types /\ unread = <<>>
  <2>1. receives # <<>>
    BY SeqShape DEF Shape
  <2>2. type = "basic"
    BY <2>1 DEF Awaited
  <2> QED BY <2>2 DEF OwnPackage, Shape
<1>5. i \in Awaits(s)
  BY <1>2 DEF Awaits
<1>6. Held(s) = 0
  BY <1>5 DEF Held, Matching
<1>7. PICK n \in Nat : n = Len(got[s]) + 1 /\ n = Count(s) + 1
  BY <1>4, CountsAre
<1>8. PICK m : m = First(s) /\ UnderWay(s, m, n) /\ n \in 1 .. Len(plan[s])
  <2>1. UnderWay(s, First(s), n) /\ n <= posted[s]
    BY <1>3, <1>6, <1>7, FirstIsNext
  <2>2. n \in 1 .. Len(plan[s])
    BY <1>7, <2>1, CountsAre, PlansAre
  <2> QED BY <2>1, <2>2
<1>9. PICK count : count = receives[i].count /\ count = Len(plan[s][n]) /\ count * IntWidth = m.size
  <2>1. AwaitsTo(s, i) = {i}
    BY <1>1, <1>3, <1>5, CountsAre DEF AwaitsTo
  <2>2. Len(got[s]) + Cardinality(AwaitsTo(s, i)) = n
    BY <1>7, <2>1, FS_Singleton
  <2>3. receives[i].count = Len(plan[s][n])
    BY <1>2, <2>2 DEF Awaited
  <2>4. plan[s][n] \in Seq(Nat)
    BY <1>8, PlansAre
  <2> QED BY <1>4, <1>8, <2>3, <2>4, SizeTells
<1>10. UNCHANGED unread
  BY <1>3 DEF own
<1>11. Receive(m, count * IntWidth, "plain", count)
  BY <1>3, <1>8, <1>9
<1>12. /\ Gained' /\ DOMAIN got' = Senders
       /\ \A q \in Senders : IsSeq(got'[q]) /\ Count(q)' = IF q = s THEN Count(q) + 1 ELSE Count(q)
       /\ \A q \in Senders : q # s => got'[q] = got[q]
       /\ Len(got'[s]) = n /\ n <= Len(plan[s])
  BY <1>3, <1>4, <1>7, <1>8, <1>9, <1>10, <1>11, Receipt
<1>13. /\ DOMAIN channel' = Senders /\ channel'[s] = Tail(channel[s])
       /\ \A q \in Senders : q # s => channel'[q] = channel[q]
       /\ \A q \in Senders : IsSeq(channel'[q])
  BY <1>3, Unqueued
<1>14. /\ IsSeq(receives') /\ DOMAIN receives' = 1 .. l - 1
       /\ \A j \in 1 .. l - 1 : receives'[j] = receives[IF j < i THEN j ELSE j + 1]
  BY <1>1, <1>3, RemoveAtIs DEF Shape
<1>15. Shape'
  <2>1. ASSUME NEW j \in 1 .. l - 1 PROVE receives'[j].source \in Senders
    <3>1. PICK j0 \in 1 .. l : j0 = IF j < i THEN j ELSE j + 1
      BY <1>1
    <3> QED BY <1>1, <1>14, <3>1 DEF Shape
  <2> QED BY <1>3, <1>12, <1>13, <1>14, <2>1 DEF Shape, own
<1>16. Channels'
  <2>1. ASSUME NEW q \in Senders
        PROVE  \/ channel'[q] = channel[q] /\ Count(q)' + Held(q)' = Count(q) + Held(q)
               \/ /\ channel[q] # <<>> /\ channel'[q] = Tail(channel[q])
                  /\ Count(q)' + Held(q)' = Count(q) + Held(q) + 1
    <3>1. Held(q)' = Held(q) /\ Count(q) \in Nat /\ Held(q) \in {0, 1}
      BY <1>3, HeldStays, CountsAre
    <3> QED BY <1>3, <1>12, <1>13, <3>1
  <2> QED BY <1>3, <2>1, ChannelsAdvance
<1>17. ASSUME NEW q \in Senders PROVE Awaits(q)' = Closed(Awaits(q), i)
  BY <1>1, <1>14 DEF Awaits, Closed
<1>18. Matching'
  <2>1. ASSUME NEW q \in Senders, matched # <<>>, Match.source = q
        PROVE  Count(q)' = Count(q) /\ (Awaits(q) = {} => Awaits(q)' = {})
    <3>1. q # s
      BY <1>5, <2>1 DEF Matching
    <3>2. Closed({}, i) = {}
      BY DEF Closed
    <3> QED BY <1>12, <1>17, <3>1, <3>2
  <2>2. posted' \in [Senders -> Nat] /\ \A q \in Senders : posted[q] <= posted'[q]
    BY <1>3, PlansAre DEF Shape
  <2> QED BY <1>3, <2>1, <2>2, MatchingStays
<1>19. ASSUME NEW q \in Senders
       PROVE  /\ i \in Awaits(q) <=> q = s
              /\ Len(got[q]) \in Nat /\ Len(got'[q]) = IF q = s THEN Len(got[q]) + 1 ELSE Len(got[q])
  BY <1>2, <1>7, <1>12, CountsAre DEF Awaits
<1>20. ASSUME NEW q \in Senders PROVE Asked(q)' <= Len(plan[q])
  <2>1. PICK T : T = Awaits(q)
    OBVIOUS
  <2>2. IsFiniteSet(T) /\ T \subseteq Nat /\ Cardinality(T) \in Nat /\ Awaits(q)' = Closed(T, i)
    BY <1>1, <1>17, <2>1, CountsAre
  <2>3. Cardinality(Closed(T, i)) = IF i \in T THEN Cardinality(T) - 1 ELSE Cardinality(T)
    BY <1>1, <2>2, ClosedUp
  <2>4. Asked(q)' = Len(got'[q]) + Cardinality(Closed(T, i))
    BY <2>2 DEF Asked
  <2>5. Asked(q) = Len(got[q]) + Cardinality(T)
    BY <2>1 DEF Asked
  <2>6. Asked(q)' = Asked(q)
    BY <1>19, <2>1, <2>2, <2>3, <2>4, <2>5
  <2> QED BY <2>6 DEF Awaited
<1>21. ASSUME NEW j \in 1 .. l - 1, NEW q \in Senders, q = receives'[j].source
       PROVE  receives'[j].count = Len(plan[q][Len(got'[q]) + Cardinality(AwaitsTo(q, j)')])
  <2>1. PICK j0 \in 1 .. l : j0 = IF j < i THEN j ELSE j + 1
    BY <1>1
  <2>2. receives'[j] = receives[j0] /\ j0 \in Awaits(q)
    BY <1>1, <1>14, <1>21, <2>1 DEF Awaits
  <2>3. PICK T : T = AwaitsTo(q, j0)
    OBVIOUS
  <2>4. T \subseteq 1 .. l
    BY <1>1, <2>3, CountsAre DEF AwaitsTo
  <2>5. IsFiniteSet(T) /\ Cardinality(T) \in Nat /\ T \subseteq Nat
    BY <1>1, <2>4, PlacesFinite
  <2>6. AwaitsTo(q, j)' = Closed(T, i)
    <3>1. Awaits(q) \subseteq Nat
      BY <1>1, CountsAre
    <3>2. {k \in Closed(Awaits(q), i) : k <= j} = Closed({k \in Awaits(q) : k <= j0}, i)
      BY <1>1, <2>1, <3>1, PlacesClose
    <3> QED BY <1>17, <2>3, <3>2 DEF AwaitsTo
  <2>7. Cardinality(Closed(T, i)) = IF i \in T THEN Cardinality(T) - 1 ELSE Cardinality(T)
    BY <1>1, <2>5, ClosedUp
  <2>8. i \in T <=> q = s
    <3>1. q = s => i <= j0
      BY <1>3, <2>2
    <3> QED BY <1>19, <2>3, <3>1 DEF AwaitsTo
  <2>9. PICK k : k = Len(got[q]) + Cardinality(T) /\ k = Len(got'[q]) + Cardinality(AwaitsTo(q, j)')
    BY <1>19, <2>5, <2>6, <2>7, <2>8
  <2>10. receives[j0].count = Len(plan[q][k])
    BY <1>1, <1>21, <2>2, <2>3, <2>9 DEF Awaited
  <2> QED BY <2>2, <2>9, <2>10
<1>22. Awaited'
  <2>1. ASSUME NEW j \in 1 .. l - 1
        PROVE  (receives[j].count = Len(plan[receives[j].source]
                   [Len(got[receives[j].source]) + Cardinality(AwaitsTo(receives[j].source, j))]))'
    <3>1. receives'[j].source \in Senders
      BY <1>14, <1>15 DEF Shape
    <3> QED BY <1>3, <1>21, <3>1
  <2> QED BY <1>3, <1>4, <1>14, <1>20, <2>1 DEF Awaited
<1>23. OwnPackage'
  BY <1>3, <1>4, OwnPackageStays DEF own, Shape
<1> QED BY <1>12, <1>15, <1>16, <1>18, <1>22, <1>23

\* A message that was matched is received in a buffer of its size.
LEMMA MatchedKeeps ==
    ASSUME MInv, matched # <<>>, type # "packed", matched' = <<>>,
           UNCHANGED <<type, plan, posted, at, memory, channel, receives, own>>,
           NEW way, NEW count, Receive(Match, Match.size, way, count),
           \/ way = "plain" /\ type = "basic" /\ count = Match.size \div IntWidth
           \/ way = "count" /\ count = Len(Expected(Match.source))
           \/ way = "while"
    PROVE  MInv'
<1> USE DEF MInv
<1>1. PICK m : matched = <<m>> /\ Match = m /\ m.source \in Senders
  BY DEF Shape, Match
<1>2. PICK s \in Senders : s = m.source
  BY <1>1
<1>3. unread = <<>> /\ UNCHANGED unread
  BY DEF OwnPackage, own
<1>4. PICK n \in Nat : n = Len(got[s]) + 1 /\ n = Count(s) + 1
  BY <1>3, CountsAre
<1>5. UnderWay(s, m, n) /\ Awaits(s) = {}
  BY <1>1, <1>2, <1>4 DEF Matching
<1>6. n \in 1 .. Len(plan[s])
  BY <1>5, PlansAre DEF UnderWay
<1>7. Expected(s) = plan[s][n] /\ plan[s][n] \in Seq(Nat)
  BY <1>4, <1>5, <1>6, CountsAre, PlansAre DEF Expected
<1>8. \/ way = "plain" /\ type = "basic" /\ count = Len(plan[s][n])
      \/ way = "count" /\ type # "packed" /\ count = Len(plan[s][n])
      \/ way = "while" /\ type # "packed"
  <2>1. type = "basic" => m.size \div IntWidth = Len(plan[s][n])
    <3>1. type \in Types
      BY DEF Shape
    <3> QED BY <1>5, <1>7, <3>1, SizeTells
  <2> QED BY <1>1, <1>2, <1>7, <2>1
<1>9. PICK room : room = m.size
  OBVIOUS
<1>11. Receive(m, room, way, count)
  BY <1>1, <1>9
<1>12. /\ Gained' /\ DOMAIN got' = Senders
       /\ \A q \in Senders : IsSeq(got'[q]) /\ Count(q)' = IF q = s THEN Count(q) + 1 ELSE Count(q)
       /\ \A q \in Senders : q # s => got'[q] = got[q]
       /\ Len(got'[s]) = n /\ n <= Len(plan[s])
  BY <1>3, <1>4, <1>5, <1>8, <1>9, <1>11, Receipt
<1>13. Shape'
  BY <1>12 DEF Shape, own
<1>14. ASSUME NEW q \in Senders PROVE Held(q) = (IF q = s THEN 1 ELSE 0) /\ Held(q)' = 0
  BY <1>1, <1>2 DEF Held
<1>15. Channels'
  <2>1. ASSUME NEW q \in Senders
        PROVE  channel'[q] = channel[q] /\ Count(q)' + Held(q)' = Count(q) + Held(q)
    BY <1>12, <1>14, CountsAre
  <2> QED BY <2>1, ChannelsAdvance
<1>16. Matching'
  BY DEF Matching
<1>17. Awaited'
  BY <1>4, <1>5, <1>12, AwaitedGrows
<1>18. OwnPackage'
  BY <1>3, OwnPackageStays DEF own, Shape
<1> QED BY <1>12, <1>13, <1>15, <1>16, <1>17, <1>18

LEMMA MatchedReceivesKeep ==
    ASSUME MInv, ReceiveMatched \/ ReceivePackageN \/ ReceiveWhile
    PROVE  MInv'
<1>1. CASE ReceiveMatched
  <2>1. type = "basic"
    BY <1>1, FormsFit DEF ReceiveMatched
  <2>2. PICK count : count = Match.size \div IntWidth
    OBVIOUS
  <2>3. /\ matched # <<>> /\ Receive(Match, Match.size, "plain", count) /\ matched' = <<>>
        /\ UNCHANGED <<type, plan, posted, at, memory, channel, receives, own>>
    BY <1>1, <2>2 DEF ReceiveMatched
  <2> QED BY <2>1, <2>2, <2>3, MatchedKeeps
<1>2. CASE ReceivePackageN
  <2>1. type # "packed"
    BY <1>2, FormsFit DEF ReceivePackageN
  <2>2. PICK count : count = Len(Expected(Match.source))
    OBVIOUS
  <2>3. /\ matched # <<>> /\ Receive(Match, Match.size, "count", count) /\ matched' = <<>>
        /\ UNCHANGED <<type, plan, posted, at, memory, channel, receives, own>>
    BY <1>2, <2>2 DEF ReceivePackageN, ReceiveResized
  <2> QED BY <2>1, <2>2, <2>3, MatchedKeeps
<1>3. CASE ReceiveWhile
  <2>1. type # "packed"
    BY <1>3, FormsFit DEF ReceiveWhile
  <2>2. /\ matched # <<>> /\ Receive(Match, Match.size, "while", 0) /\ matched' = <<>>
        /\ UNCHANGED <<type, plan, posted, at, memory, channel, receives, own>>
    BY <1>3 DEF ReceiveWhile, ReceiveResized
  <2> QED BY <2>1, <2>2, MatchedKeeps
<1> QED BY <1>1, <1>2, <1>3
-----------------------------------------------------------------------------
(* The receiver's own package.                                             *)

\* Each entry of the package is a message of its sender.
LEMMA EntryIs ==
    ASSUME Shape, Channels, NEW i \in DOMAIN unread
    PROVE  /\ NumberOf(i) \in 1 .. Len(plan[unread[i].source]) /\ Entry(i) \in Seq(Nat)
           /\ NumberOf(i) <= Count(unread[i].source)
<1>1. PICK s \in Senders : s = unread[i].source
  BY DEF Shape
<1>2. PICK U : U = Unread(s)
  OBVIOUS
<1>3. U \subseteq 1 .. Len(unread) /\ IsFiniteSet(U) /\ Cardinality(U) \in Nat /\ i \in U
  BY <1>1, <1>2, CountsAre DEF Unread
<1>4. PICK T : T = UnreadTo(s, i)
  OBVIOUS
<1>5. T \subseteq U /\ i \in T
  <2>1. i <= i
    BY <1>3
  <2> QED BY <1>2, <1>3, <1>4, <2>1 DEF UnreadTo
<1>6. IsFiniteSet(T) /\ Cardinality(T) <= Cardinality(U)
  BY <1>3, <1>5, FS_Subset
<1>7. PICK c \in Nat : c = Cardinality(T)
  BY <1>6, FS_CardinalityType
<1>8. c # 0
  <2>1. T # {}
    BY <1>5
  <2> QED BY Zenon, <1>6, <1>7, <2>1, FS_EmptySet
<1>9. NumberOf(i) = Len(got[s]) + c
  BY <1>1, <1>4, <1>7 DEF NumberOf
<1>10. Count(s) = Len(got[s]) + Cardinality(U) /\ Len(got[s]) \in Nat
  BY <1>2, CountsAre DEF Count
<1>11. Count(s) <= posted[s]
  <2>1. Count(s) + Held(s) + Len(channel[s]) = posted[s]
    BY DEF Channels
  <2> QED BY <2>1, CountsAre, PlansAre
<1>12. NumberOf(i) \in 1 .. Len(plan[s]) /\ NumberOf(i) <= Count(s)
  BY <1>3, <1>6, <1>7, <1>8, <1>9, <1>10, <1>11, PlansAre
<1> QED BY <1>1, <1>12, PlansAre DEF Entry

\* The bytes of the next message of a sender come behind those of the package.
LEMMA PackageGrows ==
    ASSUME MInv, NEW s \in Senders, NEW n \in Nat, n = Count(s) + 1, NEW m, UnderWay(s, m, n),
           type = "packed", NEW room, room = m.size \/ room = Len(plan[s][n]) * IntWidth,
           AddToPackage(m, room), UNCHANGED <<type, plan, posted, receives, got>>
    PROVE  /\ OwnPackage' /\ IsSeq(unread') /\ \A i \in DOMAIN unread' : unread'[i].source \in Senders
           /\ \A q \in Senders : Count(q)' = IF q = s THEN Count(q) + 1 ELSE Count(q)
<1> USE DEF MInv
<1>1. PICK l \in Nat : l = Len(unread) /\ DOMAIN unread = 1 .. l
  BY SeqShape DEF Shape
<1>2. PICK u : u = [source |-> m.source, fits |-> room = m.size]
  OBVIOUS
<1>3. unread' = Append(unread, u) /\ package' = [package EXCEPT !.bytes = @ \o Bytes(m)]
  BY <1>2 DEF AddToPackage
<1>4. /\ IsSeq(unread') /\ DOMAIN unread' = 1 .. l + 1 /\ Len(unread') = l + 1 /\ unread'[l + 1] = u
      /\ \A i \in 1 .. l : unread'[i] = unread[i]
  BY <1>1, <1>3, AppendIs DEF Shape
<1>5. n \in 1 .. Len(plan[s])
  BY PlansAre DEF UnderWay
<1>6. PICK ns \in Seq(Nat) : ns = plan[s][n]
  BY <1>5, PlansAre
<1>7. IntWidth \in Widths
  BY DEF Widths
<1>8. PICK bytes \in Seq(Byte) : bytes = BytesOf(ns, IntWidth) /\ Len(bytes) = Len(ns) * IntWidth
  BY <1>6, <1>7, BytesOfBytes
<1>9. Bytes(m) = bytes /\ m.size = Len(bytes)
  <2>1. m.kept = TRUE /\ m.size = Len(Contents(ns, "package"))
    BY <1>6 DEF UnderWay
  <2>2. Bytes(m) = Contents(ns, "package")
    BY <1>6, <2>1, DataPromised
  <2>3. Contents(ns, "package") = bytes
    BY <1>8, ContentsAlike DEF Shape
  <2> QED BY <2>1, <2>2, <2>3
<1>10. u.source = s /\ u.fits = TRUE
  <2>1. room = m.size
    BY <1>6, <1>8, <1>9
  <2> QED BY <1>2, <2>1 DEF UnderWay
<1>11. ASSUME NEW i \in 1 .. l + 1 PROVE unread'[i].source \in Senders /\ unread'[i].fits = TRUE
  <2>1. CASE i \in 1 .. l
    BY <1>1, <1>4, <2>1 DEF Shape, OwnPackage
  <2>2. CASE i = l + 1
    BY <1>4, <1>10, <2>2
  <2>3. i \in 1 .. l \/ i = l + 1
    BY <1>1
  <2> QED BY <2>1, <2>2, <2>3
<1>12. Unread(s)' = Unread(s) \cup {l + 1} /\ \A q : q # s => Unread(q)' = Unread(q)
  BY <1>1, <1>4, <1>10 DEF Unread
<1>13. PICK c \in Nat : c = Cardinality(Unread(s)) /\ Unread(s) \subseteq 1 .. l
  BY <1>1, CountsAre
<1>14. Cardinality(Unread(s) \cup {l + 1}) = c + 1
  <2>1. l + 1 \notin Unread(s) /\ IsFiniteSet(Unread(s))
    BY <1>13, CountsAre
  <2> QED BY <1>13, <2>1, FS_AddElement
<1>15. ASSUME NEW q \in Senders PROVE Count(q)' = IF q = s THEN Count(q) + 1 ELSE Count(q)
  <2>1. CASE q = s
    <3>1. Count(s)' = Len(got[s]) + (c + 1)
      BY <1>12, <1>14 DEF Count
    <3>2. Count(s) = Len(got[s]) + c /\ Len(got[s]) \in Nat
      BY <1>13, CountsAre DEF Count
    <3> QED BY <1>13, <2>1, <3>1, <3>2
  <2>2. CASE q # s
    BY <1>12, <2>2 DEF Count
  <2> QED BY <2>1, <2>2
<1>16. PICK off \in [1 .. l + 1 -> Nat] : Arranged(off)
  BY <1>1 DEF OwnPackage
<1>17. PICK b \in Seq(Byte) : b = package.bytes
  BY DEF OwnPackage
<1>18. PICK longer \in Seq(Byte) : /\ longer = b \o bytes /\ Len(longer) = Len(b) + Len(ns) * IntWidth
                                  /\ Extends(longer, b) /\ Has(longer, Len(b), ns, IntWidth)
  <2>1. b \o bytes = PackN(b, ns, IntWidth)
    BY <1>8 DEF PackN
  <2> QED BY <1>6, <1>7, <1>17, <2>1, PackBytes
<1>19. package'.bytes = longer /\ package'.pos = package.pos
       /\ package' = [bytes |-> package'.bytes, pos |-> package'.pos]
  BY <1>3, <1>9, <1>17, <1>18 DEF OwnPackage
<1>20. PICK next : next = [j \in 1 .. l + 2 |-> IF j <= l + 1 THEN off[j] ELSE Len(longer)]
  OBVIOUS
<1>21. next \in [1 .. Len(unread') + 1 -> Nat]
  BY <1>4, <1>16, <1>18, <1>20
<1>22. ASSUME NEW i \in 1 .. l PROVE Entry(i)' = Entry(i) /\ Entry(i) \in Seq(Nat)
  <2>1. i \in DOMAIN unread
    BY <1>1
  <2>2. Entry(i) \in Seq(Nat)
    BY <2>1, EntryIs
  <2>3. PICK q : q = unread[i].source /\ q = unread'[i].source
    BY <1>4
  <2>4. UnreadTo(q, i)' = UnreadTo(q, i)
    <3>1. Unread(q)' = Unread(q) \/ Unread(q)' = Unread(q) \cup {l + 1}
      BY <1>12
    <3>2. ~(l + 1 <= i)
      BY <1>1
    <3> QED BY <3>1, <3>2 DEF UnreadTo
  <2>5. NumberOf(i)' = NumberOf(i)
    BY <2>3, <2>4 DEF NumberOf
  <2> QED BY <2>2, <2>3, <2>5 DEF Entry
<1>23. ASSUME NEW i, i = l + 1 PROVE Entry(i)' = ns
  <2>1. UnreadTo(s, i)' = Unread(s) \cup {i}
    <3>1. Unread(s)' = Unread(s) \cup {i} /\ \A j \in Unread(s) \cup {i} : j <= i
      BY <1>1, <1>12, <1>13, <1>23
    <3> QED BY <3>1 DEF UnreadTo
  <2>2. n = Len(got[s]) + Cardinality(UnreadTo(s, i)')
    <3>1. PICK k \in Nat : k = Cardinality(UnreadTo(s, i)') /\ k = c + 1
      <4>1. c + 1 \in Nat
        BY <1>13
      <4>2. Cardinality(Unread(s) \cup {i}) = c + 1
        BY <1>14, <1>23
      <4>3. Cardinality(UnreadTo(s, i)') = c + 1
        BY Zenon, <2>1, <4>2
      <4> QED BY <4>1, <4>3
    <3>2. Count(s) = Len(got[s]) + c /\ Len(got[s]) \in Nat
      BY <1>13, CountsAre DEF Count
    <3>3. n = Len(got[s]) + k
      BY <1>13, <3>1, <3>2
    <3> QED BY <3>1, <3>3
  <2>3. unread'[i].source = s
    BY <1>4, <1>10, <1>23
  <2>4. NumberOf(i)' = n
    BY <2>2, <2>3 DEF NumberOf
  <2> QED BY <1>6, <2>3, <2>4 DEF Entry
<1>24. Arranged(next)'
  <2>1. next[1] = package'.pos
    BY <1>16, <1>19, <1>20 DEF Arranged
  <2>2. next[Len(unread') + 1] = Len(package'.bytes)
    BY <1>4, <1>19, <1>20
  <2>3. ASSUME NEW i \in 1 .. l + 1, NEW entry, entry = Entry(i)'
        PROVE  Has(longer, next[i], entry, IntWidth) /\ next[i + 1] = next[i] + Len(entry) * IntWidth
    <3>1. CASE i \in 1 .. l
      <4>1. next[i] = off[i] /\ next[i + 1] = off[i + 1] /\ off[i] \in Nat
        BY <1>16, <1>20, <3>1
      <4>2. entry = Entry(i) /\ entry \in Seq(Nat)
        BY <1>22, <2>3, <3>1
      <4>3. Has(b, off[i], entry, IntWidth) /\ off[i + 1] = off[i] + Len(entry) * IntWidth
        BY <1>1, <1>16, <1>17, <3>1, <4>2 DEF Arranged
      <4> QED BY <1>7, <1>17, <1>18, <4>1, <4>2, <4>3, HasExtends
    <3>2. CASE i = l + 1
      <4>1. next[i] = off[l + 1] /\ next[i + 1] = Len(longer) /\ off[l + 1] = Len(b)
        BY <1>1, <1>16, <1>17, <1>20, <3>2 DEF Arranged
      <4>2. entry = ns
        BY <1>23, <2>3, <3>2
      <4> QED BY <1>18, <4>1, <4>2
    <3> QED BY <1>1, <3>1, <3>2
  <2>4. ASSUME NEW i \in 1 .. Len(unread')
        PROVE  (Has(package.bytes, next[i], Entry(i), IntWidth)
                /\ next[i + 1] = next[i] + Len(Entry(i)) * IntWidth)'
    BY <1>4, <1>19, <2>3
  <2> QED BY <2>1, <2>2, <2>4 DEF Arranged
<1>25. OwnPackage'
  BY <1>4, <1>11, <1>18, <1>19, <1>21, <1>24 DEF OwnPackage
<1> QED BY <1>4, <1>11, <1>15, <1>25

LEMMA PackageReceivesKeep ==
    ASSUME MInv, NEW s \in Senders,
           \/ ReceiveOwnPackage /\ s = Match.source
           \/ ReceivePacked(s)
           \/ ReceivePackedN(s)
    PROVE  MInv'
<1> USE DEF MInv
<1>1. type = "packed" /\ receives = <<>> /\ \A q \in Senders : Awaits(q) = {}
  <2>1. type = "packed"
    BY DEF ReceiveOwnPackage, ReceivePacked, ReceivePackedN
  <2>2. receives = <<>>
    BY <2>1 DEF Awaited
  <2> QED BY <2>1, <2>2, CountsAre
<1>2. UNCHANGED <<type, plan, posted, at, memory, receives, got>>
  BY DEF ReceiveOwnPackage, ReceivePacked, ReceivePackedN
<1>3. PICK n \in Nat : n = Count(s) + 1
  BY CountsAre
<1>4. \E m, room :
          /\ UnderWay(s, m, n) /\ AddToPackage(m, room)
          /\ room = m.size \/ room = Len(plan[s][n]) * IntWidth
  <2>1. CASE ReceiveOwnPackage /\ s = Match.source
    <3>1. UnderWay(s, Match, n)
      BY <1>3, <2>1 DEF ReceiveOwnPackage, Matching
    <3> QED BY <2>1, <3>1 DEF ReceiveOwnPackage
  <2>2. CASE ReceivePacked(s)
    <3>1. UnderWay(s, First(s), n)
      BY <1>3, <2>2, FirstIsNext DEF ReceivePacked, Held
    <3> QED BY <2>2, <3>1 DEF ReceivePacked
  <2>3. CASE ReceivePackedN(s)
    <3>1. UnderWay(s, First(s), n)
      BY <1>3, <2>3, FirstIsNext DEF ReceivePackedN, Held
    <3>2. Numbers(s) = Len(plan[s][n])
      BY <1>3 DEF Numbers, Count
    <3> QED BY <2>3, <3>1, <3>2 DEF ReceivePackedN
  <2> QED BY <2>1, <2>2, <2>3
<1>5. /\ OwnPackage' /\ IsSeq(unread') /\ \A i \in DOMAIN unread' : unread'[i].source \in Senders
      /\ \A q \in Senders : Count(q)' = IF q = s THEN Count(q) + 1 ELSE Count(q)
  BY <1>1, <1>2, <1>3, <1>4, PackageGrows
<1>6. matched' = <<>>
  BY DEF ReceiveOwnPackage, ReceivePacked, ReceivePackedN
<1>7. \/ /\ channel' = channel
         /\ \A q \in Senders : Held(q) = (IF q = s THEN 1 ELSE 0) /\ Held(q)' = 0
      \/ /\ channel[s] # <<>> /\ Unqueue(s) /\ \A q \in Senders : Held(q) = 0 /\ Held(q)' = 0
  BY <1>6 DEF ReceiveOwnPackage, ReceivePacked, ReceivePackedN, Held
<1>8. /\ DOMAIN channel' = Senders /\ \A q \in Senders : IsSeq(channel'[q])
      /\ \A q \in Senders :
            \/ channel'[q] = channel[q] /\ Count(q)' + Held(q)' = Count(q) + Held(q)
            \/ /\ channel[q] # <<>> /\ channel'[q] = Tail(channel[q])
               /\ Count(q)' + Held(q)' = Count(q) + Held(q) + 1
  <2>1. CASE /\ channel' = channel
             /\ \A q \in Senders : Held(q) = (IF q = s THEN 1 ELSE 0) /\ Held(q)' = 0
    <3>1. ASSUME NEW q \in Senders
          PROVE  IsSeq(channel'[q]) /\ channel'[q] = channel[q] /\ Count(q)' + Held(q)' = Count(q) + Held(q)
      <4>1. Count(q)' = (IF q = s THEN Count(q) + 1 ELSE Count(q)) /\ Count(q) \in Nat
        BY <1>5, CountsAre
      <4>2. Held(q) = (IF q = s THEN 1 ELSE 0) /\ Held(q)' = 0
        BY <2>1
      <4>3. Count(q)' + Held(q)' = Count(q) + Held(q)
        BY <4>1, <4>2
      <4> QED BY <2>1, <4>3 DEF Shape
    <3>2. DOMAIN channel' = Senders
      BY <2>1 DEF Shape
    <3> QED BY <3>1, <3>2
  <2>2. CASE channel[s] # <<>> /\ Unqueue(s) /\ \A q \in Senders : Held(q) = 0 /\ Held(q)' = 0
    <3>1. /\ DOMAIN channel' = Senders /\ channel'[s] = Tail(channel[s])
          /\ \A q \in Senders : q # s => channel'[q] = channel[q]
          /\ \A q \in Senders : IsSeq(channel'[q])
      BY <2>2, Unqueued
    <3> QED BY <1>5, <2>2, <3>1, CountsAre
  <2> QED BY <1>7, <2>1, <2>2
<1>9. Shape'
  BY <1>2, <1>5, <1>6, <1>8 DEF Shape
<1>10. Channels'
  BY <1>2, <1>8, ChannelsAdvance
<1>11. Matching'
  BY <1>6 DEF Matching
<1>12. Awaited' /\ Gained'
  BY <1>2, AwaitedStays, GainedStays
<1> QED BY <1>5, <1>9, <1>10, <1>11, <1>12

LEMMA FirstPlaceCloses ==
    ASSUME NEW T, T \subseteq Nat, NEW i \in Nat, ~(i < 1)
    PROVE  {j \in Closed(T, 1) : j <= i} = Closed({j \in T : j <= i + 1}, 1)
<1>1. ASSUME NEW k \in Nat
      PROVE  ((k < 1 /\ k \in T) \/ (k >= 1 /\ k + 1 \in T)) /\ k <= i
             <=> (k < 1 /\ k \in T /\ k <= i + 1) \/ (k >= 1 /\ k + 1 \in T /\ k + 1 <= i + 1)
  OBVIOUS
<1> QED BY <1>1 DEF Closed

\* The oldest message of the package is unpacked where the reading stopped.
LEMMA UnpackOwnKeeps ==
    ASSUME MInv, UnpackOwn
    PROVE  MInv'
<1> USE DEF MInv
<1>1. PICK l \in Nat : l = Len(unread) /\ DOMAIN unread = 1 .. l /\ unread # <<>> /\ l > 0
  BY SeqShape, TailIs DEF UnpackOwn, Shape
<1>2. PICK u : u = Head(unread) /\ u = unread[1]
  BY <1>1, TailIs DEF Shape
<1>3. PICK s \in Senders : s = u.source
  BY <1>1, <1>2 DEF Shape
<1>4. /\ type = "packed" /\ receives = <<>> /\ \A q \in Senders : Awaits(q) = {}
      /\ UNCHANGED <<type, plan, posted, at, memory, channel, receives, matched>>
  <2>1. type = "packed" /\ UNCHANGED <<type, plan, posted, at, memory, channel, receives, matched>>
    BY <1>1 DEF OwnPackage, UnpackOwn
  <2>2. receives = <<>>
    BY <2>1 DEF Awaited
  <2> QED BY <2>1, <2>2, CountsAre
<1>5. /\ IsSeq(unread') /\ Len(unread') = l - 1 /\ DOMAIN unread' = 1 .. l - 1
      /\ \A i \in 1 .. l - 1 : unread'[i] = unread[i + 1]
  <2>1. unread' = Tail(unread)
    BY DEF UnpackOwn
  <2> QED BY <1>1, <2>1, TailIs DEF Shape
<1>6. PICK k \in Nat : k = Len(got[s]) + 1 /\ k = NumberOf(1) /\ k \in 1 .. Len(plan[s])
  <2>1. UnreadTo(s, 1) = {1}
    BY <1>1, <1>2, <1>3, CountsAre DEF UnreadTo, Unread
  <2>2. NumberOf(1) = Len(got[s]) + 1
    BY <1>2, <1>3, <2>1, FS_Singleton DEF NumberOf
  <2>3. NumberOf(1) \in 1 .. Len(plan[s])
    BY <1>1, <1>2, <1>3, EntryIs
  <2> QED BY <2>2, <2>3, CountsAre
<1>7. PICK ns \in Seq(Nat) : ns = plan[s][k] /\ ns = Entry(1) /\ ns = Expected(s)
  <2>1. plan[s][k] = Entry(1)
    BY <1>2, <1>3, <1>6 DEF Entry
  <2>2. Expected(s) = plan[s][k]
    BY <1>4, <1>6, CountsAre DEF Expected
  <2> QED BY <1>6, <2>1, <2>2, PlansAre
<1>8. PICK off \in [1 .. l + 1 -> Nat] : Arranged(off)
  BY <1>1 DEF OwnPackage
<1>9. PICK b \in Seq(Byte) : b = package.bytes
  BY DEF OwnPackage
<1>10. /\ off[1] = package.pos /\ off[2] = off[1] + Len(ns) * IntWidth /\ Has(b, off[1], ns, IntWidth)
       /\ off[1] \in Nat /\ off[2] \in Nat
  <2>1. 1 \in 1 .. l + 1 /\ 2 \in 1 .. l + 1 /\ 1 \in 1 .. Len(unread) /\ 1 + 1 = 2
    BY <1>1
  <2> QED BY <1>7, <1>8, <1>9, <2>1 DEF Arranged
<1>11. PICK read : read = UnpackN(b, off[1], Len(ns), IntWidth) /\ read.value = ns /\ read.pos = off[2]
  <2>1. UnpackN(b, off[1], Len(ns), IntWidth) = Read(ns, off[1] + Len(ns) * IntWidth)
    BY <1>7, <1>9, <1>10, UnpackHas DEF Widths
  <2> QED BY <1>10, <2>1 DEF Read
<1>12. PICK g : g = [data |-> Holding(ns), kept |-> TRUE, way |-> "unpacked", count |-> Len(ns),
                     fits |-> u.fits /\ read.pos <= Len(package.bytes)]
  OBVIOUS
<1>13. /\ got' = [got EXCEPT ![s] = Append(@, g)]
       /\ package' = [package EXCEPT !.pos = read.pos]
  BY <1>2, <1>3, <1>7, <1>9, <1>10, <1>11, <1>12 DEF UnpackOwn
<1>14. Gain(s, k, g)
  <2>1. Values(ns) = ns
    BY <1>4, NumbersAreValues
  <2>2. u.fits = TRUE
    <3>1. 1 \in DOMAIN unread
      BY <1>1
    <3> QED BY <1>2, <3>1 DEF OwnPackage
  <2>3. read.pos <= Len(package.bytes)
    BY <1>9, <1>10, <1>11 DEF Has
  <2>4. g.kept = TRUE /\ g.fits = TRUE /\ g.way = "unpacked" /\ g.data = Holding(ns)
    BY <1>12, <2>2, <2>3
  <2> QED BY <1>7, <2>1, <2>4 DEF Gain
<1>15. Gained'
  <2>1. Gain(s, Len(got[s]) + 1, g) /\ Len(got[s]) + 1 <= Len(plan[s])
    BY <1>6, <1>14, PlansAre
  <2> QED BY <1>4, <1>13, <2>1, GainedGrows
<1>16. ASSUME NEW q \in Senders
       PROVE  /\ Len(got'[q]) = IF q = s THEN Len(got[q]) + 1 ELSE Len(got[q])
              /\ IsSeq(got'[q]) /\ DOMAIN got' = Senders /\ Len(got[q]) \in Nat
  BY <1>13, GotGrows, CountsAre
<1>17. ASSUME NEW q \in Senders PROVE Unread(q)' = Closed(Unread(q), 1)
  BY <1>1, <1>5 DEF Unread, Closed
<1>18. ASSUME NEW q \in Senders PROVE 1 \in Unread(q) <=> q = s
  BY <1>1, <1>2, <1>3 DEF Unread
<1>19. ASSUME NEW q \in Senders PROVE Count(q)' = Count(q)
  <2>1. PICK T : T = Unread(q)
    OBVIOUS
  <2>2. IsFiniteSet(T) /\ T \subseteq Nat /\ Cardinality(T) \in Nat
    BY <1>1, <2>1, CountsAre
  <2>3. Cardinality(Closed(T, 1)) = IF 1 \in T THEN Cardinality(T) - 1 ELSE Cardinality(T)
    BY <2>2, ClosedUp
  <2>4. Count(q)' = Len(got'[q]) + Cardinality(Closed(T, 1))
    BY <1>17, <2>1 DEF Count
  <2>5. Count(q) = Len(got[q]) + Cardinality(T)
    BY <2>1 DEF Count
  <2> QED BY <1>16, <1>18, <2>1, <2>2, <2>3, <2>4, <2>5
<1>20. ASSUME NEW q \in Senders PROVE Held(q)' = Held(q)
  BY <1>4, HeldStays
<1>21. Shape'
  <2>1. ASSUME NEW i \in 1 .. l - 1 PROVE unread'[i].source \in Senders
    <3>1. i + 1 \in 1 .. l
      BY <1>1
    <3> QED BY <1>1, <1>5, <3>1 DEF Shape
  <2> QED BY <1>3, <1>4, <1>5, <1>16, <2>1 DEF Shape
<1>22. Channels'
  BY <1>4, <1>19, <1>20, ChannelsAdvance
<1>23. Matching'
  <2>1. \A q : Awaits(q)' = Awaits(q)
    BY <1>4 DEF Awaits
  <2>2. posted' \in [Senders -> Nat] /\ \A q \in Senders : posted[q] <= posted'[q]
    BY <1>4, PlansAre DEF Shape
  <2> QED BY <1>4, <1>19, <2>1, <2>2, MatchingStays
<1>24. Awaited'
  <2>1. ASSUME NEW q \in Senders PROVE Asked(q)' <= Len(plan[q])
    <3>1. Len(got'[q]) <= Len(plan[q])
      BY <1>4, <1>15 DEF Gained
    <3>2. Awaits(q)' = {}
      BY <1>4 DEF Awaits
    <3>3. Asked(q)' = Len(got'[q]) + Cardinality({})
      BY <3>2 DEF Asked
    <3> QED BY <1>16, <3>1, <3>3, FS_EmptySet
  <2> QED BY <1>4, <2>1, Empty DEF Awaited
<1>25. ASSUME NEW i \in 1 .. l - 1 PROVE Entry(i)' = Entry(i + 1) /\ Entry(i + 1) \in Seq(Nat)
  <2>1. i + 1 \in 1 .. l /\ i \in Nat /\ ~(i < 1)
    BY <1>1
  <2>2. Entry(i + 1) \in Seq(Nat)
    BY <1>1, <2>1, EntryIs
  <2>3. PICK q \in Senders : q = unread'[i].source /\ q = unread[i + 1].source
    BY <1>1, <1>5, <2>1 DEF Shape
  <2>4. PICK T : T = UnreadTo(q, i + 1)
    OBVIOUS
  <2>5. Unread(q) \subseteq Nat /\ T \subseteq 1 .. l
    BY <1>1, <2>4, CountsAre DEF UnreadTo
  <2>6. UnreadTo(q, i)' = Closed(T, 1)
    <3>1. {j \in Closed(Unread(q), 1) : j <= i} = Closed({j \in Unread(q) : j <= i + 1}, 1)
      BY <2>1, <2>5, FirstPlaceCloses
    <3> QED BY <1>17, <2>4, <3>1 DEF UnreadTo
  <2>7. IsFiniteSet(T) /\ Cardinality(T) \in Nat /\ T \subseteq Nat
    BY <2>5, PlacesFinite
  <2>8. Cardinality(Closed(T, 1)) = IF 1 \in T THEN Cardinality(T) - 1 ELSE Cardinality(T)
    BY <2>7, ClosedUp
  <2>9. 1 \in T <=> q = s
    BY <1>18, <2>1, <2>4 DEF UnreadTo
  <2>10. Len(got'[q]) + Cardinality(UnreadTo(q, i)') = Len(got[q]) + Cardinality(T)
    <3>1. Cardinality(UnreadTo(q, i)') = IF q = s THEN Cardinality(T) - 1 ELSE Cardinality(T)
      BY <2>6, <2>8, <2>9
    <3>2. PICK c \in Int : c = Cardinality(UnreadTo(q, i)') /\ c = IF q = s THEN Cardinality(T) - 1 ELSE Cardinality(T)
      BY <2>7, <3>1
    <3>3. Len(got'[q]) = (IF q = s THEN Len(got[q]) + 1 ELSE Len(got[q])) /\ Len(got[q]) \in Nat
      BY <1>16, <2>3
    <3>4. Len(got'[q]) + c = Len(got[q]) + Cardinality(T)
      BY <2>7, <3>2, <3>3
    <3> QED BY <3>2, <3>4
  <2>11. NumberOf(i)' = NumberOf(i + 1)
    BY <2>3, <2>4, <2>10 DEF NumberOf
  <2> QED BY <1>4, <2>2, <2>3, <2>11 DEF Entry
<1>26. OwnPackage'
  <2>1. PICK next : next = [j \in 1 .. l |-> off[j + 1]]
    OBVIOUS
  <2>2. next \in [1 .. Len(unread') + 1 -> Nat]
    BY <1>1, <1>5, <1>8, <2>1
  <2>3. package'.bytes = b /\ package'.pos = off[2] /\ package' = [bytes |-> package'.bytes, pos |-> package'.pos]
    BY <1>9, <1>11, <1>13 DEF OwnPackage
  <2>4. next[1] = off[2] /\ next[Len(unread') + 1] = Len(b)
    BY <1>1, <1>5, <1>8, <1>9, <2>1 DEF Arranged
  <2>5. ASSUME NEW i \in 1 .. l - 1, NEW entry, entry = Entry(i)'
        PROVE  Has(b, next[i], entry, IntWidth) /\ next[i + 1] = next[i] + Len(entry) * IntWidth
    <3>1. i \in 1 .. l /\ i + 1 \in 1 .. l /\ i + 1 \in 1 .. Len(unread)
      BY <1>1
    <3>2. next[i] = off[i + 1] /\ next[i + 1] = off[(i + 1) + 1]
      BY <2>1, <3>1
    <3>3. entry = Entry(i + 1)
      BY <1>25, <2>5
    <3> QED BY <1>8, <1>9, <3>1, <3>2, <3>3 DEF Arranged
  <2>6. ASSUME NEW i \in 1 .. Len(unread')
        PROVE  (Has(package.bytes, next[i], Entry(i), IntWidth)
                /\ next[i + 1] = next[i] + Len(Entry(i)) * IntWidth)'
    BY <1>5, <2>3, <2>5
  <2>7. Arranged(next)'
    BY <2>3, <2>4, <2>6 DEF Arranged
  <2>8. ASSUME NEW i \in 1 .. l - 1 PROVE unread'[i].fits = TRUE
    <3>1. i + 1 \in 1 .. l
      BY <1>1
    <3> QED BY <1>1, <1>5, <3>1 DEF OwnPackage
  <2> QED BY <1>4, <1>5, <1>9, <2>2, <2>3, <2>7, <2>8 DEF OwnPackage
<1> QED BY <1>15, <1>21, <1>22, <1>23, <1>24, <1>26

-----------------------------------------------------------------------------
(* Every step, and what follows.                                           *)

LEMMA NextKeeps ==
    ASSUME MInv, [Next]_vars
    PROVE  MInv'
<1>1. CASE UNCHANGED vars
  <2>1. UNCHANGED <<type, plan, posted, at, memory, channel, receives, matched, got, own>>
    BY <1>1 DEF vars
  <2>2. Shape'
    BY <2>1 DEF MInv, Shape, own
  <2>3. ASSUME NEW q \in Senders PROVE Count(q)' = Count(q) /\ Held(q)' = Held(q)
    BY <2>1, CountStays, HeldStays DEF own
  <2>4. Channels'
    BY <2>1, <2>3, ChannelsAdvance DEF MInv
  <2>5. Matching'
    <3>1. \A q : Awaits(q)' = Awaits(q)
      BY <2>1 DEF Awaits
    <3>2. posted' \in [Senders -> Nat] /\ \A q \in Senders : posted[q] <= posted'[q]
      BY <2>1, PlansAre DEF Shape, MInv
    <3> QED BY <2>1, <2>3, <3>1, <3>2, MatchingStays DEF MInv
  <2>6. Awaited' /\ OwnPackage' /\ Gained'
    BY <2>1, AwaitedStays, OwnPackageStays, GainedStays DEF MInv, own, Shape
  <2> QED BY <2>2, <2>4, <2>5, <2>6 DEF MInv
<1>2. CASE \E s \in Senders : Sending(s)
  BY <1>2, SendsKeep, ReturnKeeps, WaitSendsKeeps DEF Sending
<1>3. CASE \E s \in Senders : ReceiveN(s) \/ IreceiveN(s) \/ MatchedProbe(s)
  BY <1>3, ReceiveNKeeps, IreceiveNKeeps, MatchedProbeKeeps
<1>4. CASE \E i \in DOMAIN receives : Arrive(i)
  BY <1>4, ArriveKeeps
<1>5. CASE ReceiveMatched \/ ReceivePackageN \/ ReceiveWhile
  BY <1>5, MatchedReceivesKeep
<1>6. CASE ReceiveOwnPackage
  <2>1. PICK s \in Senders : s = Match.source
    BY <1>6 DEF ReceiveOwnPackage, MInv, Shape, Match
  <2> QED BY <1>6, <2>1, PackageReceivesKeep
<1>7. CASE \E s \in Senders : ReceivePacked(s) \/ ReceivePackedN(s)
  BY <1>7, PackageReceivesKeep
<1>8. CASE UnpackOwn
  BY <1>8, UnpackOwnKeeps
<1>9. CASE Finished
  BY <1>1, <1>9 DEF Finished
<1> QED BY <1>1, <1>2, <1>3, <1>4, <1>5, <1>6, <1>7, <1>8, <1>9 DEF Next, Receiving

\* The inductive invariant: the messages of a sender keep their numbers and their data
\* on whatever way they take, and what is received is what they promised.
THEOREM MessagesInvariant == Spec => []MInv
<1>1. Init => MInv
  BY InitHolds
<1>2. MInv /\ [Next]_vars => MInv'
  BY NextKeeps
<1> QED BY <1>1, <1>2, PTL DEF Spec

\* The types: each message is in one place, in the channel, matched, in the package or
\* received.
THEOREM MessagesTypeCorrect == Spec => []TypeOK
<1>1. ASSUME MInv PROVE TypeOK
  <2>1. ASSUME NEW s \in Senders
        PROVE  /\ plan[s] \in Plans /\ posted[s] \in 0 .. Len(plan[s])
               /\ at[s] \in {"idle", "send", "end"}
               /\ Len(channel[s]) + (IF matched # <<>> /\ Match.source = s THEN 1 ELSE 0)
                  + Cardinality(Unread(s)) + Len(got[s]) = posted[s]
               /\ Len(memory[s]) = posted[s]
    <3>1. PICK held \in {0, 1} : held = Held(s) /\ held = IF matched # <<>> /\ Match.source = s THEN 1 ELSE 0
      BY DEF Held
    <3>2. Count(s) + held + Len(channel[s]) = posted[s]
      BY <1>1, <3>1 DEF MInv, Channels
    <3>3. /\ Cardinality(Unread(s)) \in Nat /\ Len(got[s]) \in Nat /\ Len(channel[s]) \in Nat
          /\ posted[s] \in Nat /\ posted[s] <= Len(plan[s]) /\ Len(plan[s]) \in Nat
      BY <1>1, CountsAre, PlansAre DEF MInv
    <3>4. Len(channel[s]) + held + Cardinality(Unread(s)) + Len(got[s]) = posted[s]
      BY <3>2, <3>3 DEF Count
    <3> QED BY <1>1, <3>1, <3>3, <3>4 DEF MInv, Shape
  <2> QED BY <1>1, <2>1 DEF TypeOK, MInv, Shape
<1> QED BY <1>1, MessagesInvariant, PTL

\* The buffer of each receive has the size of its message: the assertion at
\* communicator.hpp:1260, also for a message whose package is gone.
THEOREM BuffersFitHolds == Spec => []BuffersFit
<1>1. ASSUME MInv PROVE BuffersFit
  <2>1. ASSUME NEW s \in Senders, NEW k \in DOMAIN got[s] PROVE got[s][k].fits
    <3>1. k \in 1 .. Len(got[s])
      BY <1>1, SeqShape DEF MInv, Shape
    <3>2. got[s][k].fits = TRUE
      BY <1>1, <3>1 DEF MInv, Gained, Gain
    <3> QED BY <3>2
  <2> QED BY <2>1 DEF BuffersFit
<1> QED BY <1>1, MessagesInvariant, PTL

\* The bytes of ints are read as these ints.
LEMMA PlainRead ==
    ASSUME NEW ns \in Seq(Nat)
    PROVE  UnpackN(BytesOf(ns, IntWidth), 0, Len(ns), IntWidth).value = ns
<1>1. PICK bytes \in Seq(Byte) : bytes = BytesOf(ns, IntWidth) /\ Len(bytes) = Len(ns) * IntWidth
  BY BytesOfBytes DEF Widths
<1>2. Has(bytes, 0, ns, IntWidth)
  <2>1. PICK n \in Nat : n = Len(ns) * IntWidth
    BY BytesOfBytes DEF Widths
  <2>2. 0 + n <= Len(bytes) /\ \A k \in 1 .. n : bytes[0 + k] = BytesOf(ns, IntWidth)[k]
    BY <1>1, <2>1
  <2> QED BY <2>1, <2>2 DEF Has
<1>3. IntWidth \in Widths /\ 0 \in Nat
  BY DEF Widths
<1>4. UnpackN(bytes, 0, Len(ns), IntWidth) = Read(ns, 0 + Len(ns) * IntWidth)
  BY <1>2, <1>3, UnpackHas
<1> QED BY <1>1, <1>4 DEF Read

\* What a receive finds in the data that were promised.
LEMMA PromiseFound ==
    ASSUME type \in Types, NEW ns \in Seq(Nat), NEW g, NEW bytes,
           bytes = Contents(ns, "package"), g.data = Holding(bytes),
           \/ g.way = "plain" /\ type = "basic" /\ g.count = Len(ns)
           \/ g.way = "count" /\ type # "packed" /\ g.count = Len(ns)
           \/ g.way = "while" /\ type # "packed"
    PROVE  IF g.way = "count" /\ ns = <<>> THEN Overruns(bytes, Reading(g)) ELSE Found(g) = Values(ns)
<1>1. g.data[1] = bytes
  BY DEF Holding
<1>2. CASE g.way = "plain"
  <2>1. type = "basic" /\ g.count = Len(ns) /\ bytes = BytesOf(ns, IntWidth)
    BY <1>2, ContentsAlike
  <2>2. Reading(g) = UnpackN(bytes, 0, Len(ns), IntWidth)
    BY <1>1, <1>2, <2>1 DEF Reading
  <2>3. Found(g) = ns
    BY <1>2, <2>1, <2>2, PlainRead DEF Found
  <2>4. Values(ns) = ns
    BY <2>1, NumbersAreValues
  <2> QED BY <1>2, <2>3, <2>4
<1> DEFINE vs == [i \in DOMAIN ns |-> [type |-> Packed, x |-> Sample(ns[i])]]
<1>3. ASSUME g.way \in {"count", "while"}
      PROVE  /\ vs \in Seq(Serialized) /\ Len(vs) = Len(ns)
             /\ \A i \in 1 .. Len(vs) : vs[i].type = Packed
             /\ [i \in DOMAIN vs |-> vs[i].x] = Values(ns)
             /\ bytes = SaveAll(vs)
             /\ Packed \in {"int", "string", "vector", "variant"}
             /\ type # "packed"
  <2>1. type # "packed" /\ type \in {"basic", "int", "string", "vector", "variant"}
    BY <1>3, PlansAssumption
  <2>2. Packed \in {"int", "string", "vector", "variant"}
    BY <2>1 DEF Packed
  <2> HIDE DEF vs
  <2>3. vs = [i \in DOMAIN ns |-> [type |-> Packed, x |-> Sample(ns[i])]]
    BY DEF vs
  <2> QED BY <2>1, <2>2, <2>3, SavedValues
<1> HIDE DEF vs
<1>4. ASSUME g.way \in {"count", "while"}, Reading(g) = Read(vs, Len(SaveAll(vs)))
      PROVE  Found(g) = Values(ns)
  <2>1. Reading(g).value = vs
    BY <1>4 DEF Read
  <2> QED BY <1>3, <1>4, <2>1 DEF Found
<1>5. CASE g.way = "while"
  <2>1. Reading(g) = LoadWhile(bytes, Packed)
    BY <1>1, <1>5 DEF Reading
  <2>2. LoadWhile(bytes, Packed) = Read(vs, Len(SaveAll(vs)))
    BY <1>3, <1>5, LoadWhileSaved
  <2> QED BY <1>4, <1>5, <2>1, <2>2
<1>6. CASE g.way = "count"
  <2>1. Reading(g) = LoadN(bytes, Packed, Len(vs))
    BY <1>1, <1>3, <1>6 DEF Reading
  <2>2. IF vs = <<>> THEN Overruns(bytes, Reading(g)) ELSE Reading(g) = Read(vs, Len(SaveAll(vs)))
    BY <1>3, <1>6, <2>1, LoadNSaved
  <2>3. vs = <<>> <=> ns = <<>>
    BY <1>3, <1>6
  <2> QED BY <1>4, <1>6, <2>2, <2>3
<1> QED BY <1>2, <1>5, <1>6

\* Each receive gives the values of the sender's message of the same number, for any
\* series of messages of any numbers of values, whatever containers and calls they come
\* from and go to, but for the two cases that the property names.
THEOREM ReceivedAsSentHolds == Spec => []ReceivedAsSent
<1>1. ASSUME MInv PROVE ReceivedAsSent
  <2>1. ASSUME NEW s \in Senders, NEW k \in DOMAIN got[s], NEW g, g = got[s][k]
        PROVE  IF g.data = Freed THEN ~g.kept
               ELSE IF g.way = "count" /\ plan[s][k] = <<>> THEN Overruns(g.data[1], Reading(g))
               ELSE Found(g) = Values(plan[s][k])
    <3>1. k \in 1 .. Len(got[s])
      BY <1>1, SeqShape DEF MInv, Shape
    <3>2. Gain(s, k, g) /\ k \in 1 .. Len(plan[s])
      <4>1. Gain(s, k, g) /\ Len(got[s]) <= Len(plan[s])
        BY <1>1, <2>1, <3>1 DEF MInv, Gained
      <4>2. Len(got[s]) \in Nat /\ Len(plan[s]) \in Nat
        BY <1>1, CountsAre, PlansAre DEF MInv
      <4> QED BY <3>1, <4>1, <4>2
    <3>3. PICK ns \in Seq(Nat) : ns = plan[s][k]
      BY <1>1, <3>2, PlansAre DEF MInv
    <3>4. PICK bytes : bytes = Contents(ns, "package") /\ Promised(s, k) = Holding(bytes)
      BY <3>3 DEF Promised
    <3>5. Holding(bytes)[1] = bytes /\ \A x : Holding(x) # Freed
      BY DEF Holding, Freed
    <3>6. CASE g.data = Freed /\ g.kept = FALSE
      BY <3>6
    <3>7. CASE /\ g.data = Promised(s, k)
               /\ \/ g.way = "plain" /\ type = "basic" /\ g.count = Len(ns)
                  \/ g.way = "count" /\ type # "packed" /\ g.count = Len(ns)
                  \/ g.way = "while" /\ type # "packed"
      <4>1. type \in Types
        BY <1>1 DEF MInv, Shape
      <4>2. IF g.way = "count" /\ ns = <<>> THEN Overruns(bytes, Reading(g)) ELSE Found(g) = Values(ns)
        BY <3>4, <3>7, <4>1, PromiseFound
      <4>3. g.data # Freed /\ g.data[1] = bytes
        BY <3>4, <3>5, <3>7
      <4> QED BY <3>3, <4>2, <4>3
    <3>8. CASE g.data = Holding(Values(ns)) /\ g.way = "unpacked"
      <4>1. Found(g) = Values(ns)
        BY <3>8 DEF Found, Holding
      <4> QED BY <3>3, <3>5, <3>8, <4>1
    <3> QED BY <3>2, <3>3, <3>6, <3>7, <3>8 DEF Gain
  <2> QED BY <2>1 DEF ReceivedAsSent
<1> QED BY <1>1, MessagesInvariant, PTL
=============================================================================
