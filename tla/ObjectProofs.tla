----------------------------- MODULE ObjectProofs -----------------------------
(***************************************************************************)
(* Proofs about three classes, one after the other.                        *)
(*                                                                         *)
(* Communicator for any set of objects and any bounds: every communicator  *)
(* has one owner, every attribute object belongs to one communicator, and  *)
(* the objects have value semantics.  The lemmas say what each MPI call    *)
(* does to a sound state of the library; the invariant and the refinement  *)
(* follow action by action.                                                *)
(*                                                                         *)
(* Request for any objects, buffers and number of requests: no request     *)
(* leaks, the program's record of its buffers is right whatever the order  *)
(* of completions, and no buffer is in use when the scope is left.         *)
(*                                                                         *)
(* Ostream for any number of ranks and any texts: the rounds stay whole,   *)
(* although a rank may be a flush ahead of the root and of another, and    *)
(* the layout is that of the whole output, which the root does not see.    *)
(***************************************************************************)
EXTENDS Communicator, MCRequest, MCOstream, TLAPS, SequenceTheorems

(***************************************************************************)
(* Communicator.                                                           *)
(***************************************************************************)

InUse(m) == m.live \cup {World, Self}

\* A sound state of the library: the attribute objects on the heap are those that
\* communicators refer to, each by one, and released communicators have none.
Sound(m) ==
    /\ m \in MPIState
    /\ \A c \in Comms \ InUse(m) : m.attr[c] = NoAttr
    /\ \A p \in Pointers : p \in m.heap <=> \E c \in Comms : m.attr[c] = p
    /\ \A c, d \in Comms : m.attr[c] = m.attr[d] /\ m.attr[c] # NoAttr => c = d

\* Two states of the library agree on the communicators of a set.
Agree(m, n, S) == \A c \in S : Content(m, c) = Content(n, c)
-----------------------------------------------------------------------------
(* The MPI calls.                                                          *)

\* Handles of different kinds differ.
LEMMA HandleKinds ==
    /\ World # Self /\ Null # World /\ Null # Self
    /\ NoObject \notin Comms /\ Null \notin Comms /\ NoObject # Null
    /\ World \notin Allocatable /\ Self \notin Allocatable
    /\ NoAttr \notin Pointers
BY BoundAssumption DEF World, Self, Null, NoObject, Comms, Allocatable, NoAttr, Pointers

\* A new communicator is one that was not allocated.
LEMMA NewCommFacts ==
    ASSUME NEW m, FreshComms(m) # {}
    PROVE  NewComm(m) \in Allocatable /\ NewComm(m) \notin m.live
BY DEF FreshComms, NewComm

\* A new attribute object is one that was not on the heap.
LEMMA NewPointerFacts ==
    ASSUME NEW m, FreshPointers(m) # {}
    PROVE  NewPointer(m) \in Pointers /\ NewPointer(m) \notin m.heap
BY DEF FreshPointers, NewPointer

\* The value that stands for no value in particular is a value.
LEMMA AnyValueFact == AnyValue \in AttrValues
BY ValueAssumption DEF AnyValue

\* A created communicator has the given group and no attribute.
LEMMA CreateFacts ==
    ASSUME NEW m, Sound(m), FreshComms(m) # {}, NEW g \in Groups
    PROVE  LET n == Create(m, g)
           IN  /\ Sound(n)
               /\ n.live = m.live \cup {NewComm(m)}
               /\ n.heap = m.heap
               /\ n.attr[NewComm(m)] = NoAttr
               /\ n.group[NewComm(m)] = g
               /\ Agree(m, n, InUse(m))
<1> DEFINE n == Create(m, g)
           c == NewComm(m)
<1>1. c \in Allocatable /\ c \notin m.live /\ c \in Comms /\ c \notin InUse(m)
    BY NewCommFacts, HandleKinds DEF Comms, InUse
<1>2. m \in MPIState
    BY DEF Sound
<1>3. /\ n.live = m.live \cup {c} /\ n.group = [m.group EXCEPT ![c] = g]
      /\ n.attr = [m.attr EXCEPT ![c] = NoAttr]
      /\ n.heap = m.heap /\ n.value = m.value /\ n \in MPIState
    BY <1>1, <1>2 DEF Create, MPIState
<1>4. m.attr[c] = NoAttr
    BY <1>1 DEF Sound
<1>5. \A d \in Comms : n.attr[d] = m.attr[d]
    BY <1>1, <1>2, <1>3, <1>4 DEF MPIState
<1>6. Sound(n)
    BY <1>1, <1>3, <1>5 DEF Sound, InUse
<1>7. Agree(m, n, InUse(m))
    BY <1>1, <1>2, <1>3, <1>5 DEF Agree, Content, InUse, Comms, MPIState, Sound
<1> QED
    BY <1>1, <1>2, <1>3, <1>6, <1>7 DEF MPIState

\* A stored attribute is seen through its communicator and through no other.
LEMMA StoreFacts ==
    ASSUME NEW m, Sound(m), FreshPointers(m) # {}, NEW c \in InUse(m),
           m.attr[c] = NoAttr, NEW v \in AttrValues
    PROVE  LET n == Store(m, c, v)
           IN  /\ Sound(n)
               /\ n.live = m.live /\ n.group = m.group
               /\ Content(n, c) = [group |-> m.group[c], attr |-> {v}]
               /\ Agree(m, n, InUse(m) \ {c})
<1> DEFINE n == Store(m, c, v)
           p == NewPointer(m)
<1>1. p \in Pointers /\ p \notin m.heap /\ p # NoAttr
    BY NewPointerFacts, HandleKinds
<1>2. m \in MPIState /\ c \in Comms /\ InUse(m) \subseteq Comms
    BY DEF Sound, MPIState, InUse, Comms
<1>3. /\ n.live = m.live /\ n.group = m.group /\ n.heap = m.heap \cup {p}
      /\ n.value = [m.value EXCEPT ![p] = v] /\ n.attr = [m.attr EXCEPT ![c] = p]
      /\ n \in MPIState
    BY <1>1, <1>2 DEF Store, MPIState
<1>4. \A d \in Comms : n.attr[d] = IF d = c THEN p ELSE m.attr[d]
    BY <1>2, <1>3 DEF MPIState
<1>5. \A d \in Comms : m.attr[d] # p
    BY <1>1 DEF Sound
<1>6. Sound(n)
  <2>1. \A d \in Comms \ InUse(n) : n.attr[d] = NoAttr
    BY <1>2, <1>3, <1>4 DEF Sound, InUse
  <2>2. ASSUME NEW q \in Pointers PROVE q \in n.heap <=> \E d \in Comms : n.attr[d] = q
    BY <1>1, <1>2, <1>3, <1>4, HandleKinds DEF Sound
  <2>3. \A d, e \in Comms : n.attr[d] = n.attr[e] /\ n.attr[d] # NoAttr => d = e
    BY <1>4, <1>5 DEF Sound
  <2> QED BY <1>3, <2>1, <2>2, <2>3 DEF Sound
<1>7. ASSUME NEW d \in InUse(m) \ {c} PROVE Content(m, d) = Content(n, d)
  <2>1. n.attr[d] = m.attr[d] /\ m.attr[d] # p /\ n.group[d] = m.group[d]
    BY <1>2, <1>3, <1>4, <1>5
  <2>2. m.attr[d] # NoAttr => n.value[m.attr[d]] = m.value[m.attr[d]]
    BY <1>1, <1>2, <1>3, <2>1 DEF MPIState
  <2> QED BY <2>1, <2>2 DEF Content
<1>8. Content(n, c) = [group |-> m.group[c], attr |-> {v}]
    BY <1>1, <1>2, <1>3 DEF Content, MPIState
<1> QED BY <1>3, <1>6, <1>7, <1>8 DEF Agree

\* A dropped attribute is gone, and no other is.
LEMMA DropFacts ==
    ASSUME NEW m, Sound(m), NEW c \in InUse(m)
    PROVE  LET n == Drop(m, c)
           IN  /\ Sound(n)
               /\ n.live = m.live /\ n.group = m.group /\ n.heap \subseteq m.heap
               /\ n.attr[c] = NoAttr
               /\ Agree(m, n, InUse(m) \ {c})
<1> DEFINE n == Drop(m, c)
           p == m.attr[c]
<1>1. m \in MPIState /\ c \in Comms /\ InUse(m) \subseteq Comms
    BY DEF Sound, MPIState, InUse, Comms
<1>2. /\ n.live = m.live /\ n.group = m.group /\ n.heap = m.heap \ {p}
      /\ n.value = [q \in Pointers |-> IF q = p THEN AnyValue ELSE m.value[q]]
      /\ n.attr = [m.attr EXCEPT ![c] = NoAttr]
      /\ n \in MPIState
    BY <1>1, AnyValueFact DEF Drop, MPIState
<1>3. \A d \in Comms : n.attr[d] = IF d = c THEN NoAttr ELSE m.attr[d]
    BY <1>1, <1>2 DEF MPIState
<1>4. \A d \in Comms \ {c} : m.attr[d] = p => p = NoAttr
    BY <1>1 DEF Sound
<1>5. Sound(n)
  <2>1. \A d \in Comms \ InUse(n) : n.attr[d] = NoAttr
    BY <1>2, <1>3 DEF Sound, InUse
  <2>2. ASSUME NEW q \in Pointers PROVE q \in n.heap <=> \E d \in Comms : n.attr[d] = q
    <3>1. q # NoAttr
      BY HandleKinds
    <3>2. q \in n.heap <=> q # p /\ \E d \in Comms : m.attr[d] = q
      BY <1>2 DEF Sound
    <3> QED BY <1>1, <1>3, <1>4, <3>1, <3>2
  <2>3. \A d, e \in Comms : n.attr[d] = n.attr[e] /\ n.attr[d] # NoAttr => d = e
    BY <1>3 DEF Sound
  <2> QED BY <1>2, <2>1, <2>2, <2>3 DEF Sound
<1>6. ASSUME NEW d \in InUse(m) \ {c} PROVE Content(m, d) = Content(n, d)
  <2>1. n.attr[d] = m.attr[d] /\ n.group[d] = m.group[d]
    BY <1>1, <1>2, <1>3
  <2>2. m.attr[d] # NoAttr => n.value[m.attr[d]] = m.value[m.attr[d]]
    BY <1>1, <1>2, <1>4 DEF MPIState
  <2> QED BY <2>1, <2>2 DEF Content
<1> QED BY <1>1, <1>2, <1>3, <1>5, <1>6 DEF Agree

\* A duplicate has the content of its source and shares nothing with it.
LEMMA DupFacts ==
    ASSUME NEW m, Sound(m), FreshComms(m) # {}, FreshPointers(m) # {}, NEW c \in InUse(m)
    PROVE  LET n == Dup(m, c)
           IN  /\ Sound(n)
               /\ n.live = m.live \cup {NewComm(m)}
               /\ Content(n, NewComm(m)) = Content(m, c)
               /\ Agree(m, n, InUse(m))
<1> DEFINE e == Create(m, m.group[c])
           d == NewComm(m)
<1>1. m.group[c] \in Groups /\ c \in Comms
    BY DEF Sound, MPIState, InUse, Comms
<1>2. /\ Sound(e) /\ e.live = m.live \cup {d} /\ e.heap = m.heap
      /\ e.attr[d] = NoAttr /\ e.group[d] = m.group[c] /\ Agree(m, e, InUse(m))
    BY <1>1, CreateFacts
<1>3. d \in InUse(e) /\ InUse(m) \subseteq InUse(e) \ {d}
    BY <1>2, NewCommFacts, HandleKinds DEF InUse
<1>4. CASE m.attr[c] = NoAttr
    BY <1>2, <1>4 DEF Dup, Content
<1>5. CASE m.attr[c] # NoAttr
  <2> DEFINE v == m.value[m.attr[c]]
             n == Store(e, d, v)
  <2>1. v \in AttrValues
    BY <1>1, <1>5 DEF Sound, MPIState
  <2>2. FreshPointers(e) # {}
    BY <1>2 DEF FreshPointers
  <2>3. /\ Sound(n) /\ n.live = e.live
        /\ Content(n, d) = [group |-> e.group[d], attr |-> {v}]
        /\ Agree(e, n, InUse(e) \ {d})
    <3> HIDE DEF e, d, v
    <3> QED BY <1>2, <1>3, <2>1, <2>2, StoreFacts
  <2>4. Agree(m, n, InUse(m))
    BY <1>2, <1>3, <2>3 DEF Agree
  <2>5. Content(n, d) = Content(m, c)
    BY <1>2, <1>5, <2>3 DEF Content
  <2> QED BY <1>2, <1>5, <2>3, <2>4, <2>5 DEF Dup
<1> QED BY <1>4, <1>5

\* A disconnected communicator is gone, and no other is.
LEMMA DisconnectFacts ==
    ASSUME NEW m, Sound(m), NEW c \in m.live
    PROVE  LET n == Disconnect(m, c)
           IN  /\ Sound(n)
               /\ n.live = m.live \ {c}
               /\ Agree(m, n, InUse(m) \ {c})
<1> DEFINE e == Drop(m, c)
           n == Disconnect(m, c)
<1>1. /\ Sound(e) /\ e.live = m.live /\ e.group = m.group
      /\ e.attr[c] = NoAttr /\ Agree(m, e, InUse(m) \ {c})
    BY DropFacts DEF InUse
<1>2. e \in MPIState /\ c \in Comms
    BY <1>1 DEF Sound, MPIState, Comms
<1>3. /\ n.live = m.live \ {c} /\ n.heap = e.heap /\ n.attr = e.attr
      /\ n.value = e.value /\ n.group = [e.group EXCEPT ![c] = "all"]
      /\ n \in MPIState
    BY <1>1, <1>2 DEF Disconnect, MPIState, Groups
<1>4. Sound(n)
    BY <1>1, <1>3 DEF Sound, InUse
<1>5. ASSUME NEW d \in InUse(m) \ {c} PROVE Content(n, d) = Content(e, d)
  <2>1. n.group[d] = e.group[d]
    BY <1>2, <1>3, <1>5 DEF MPIState, InUse, Comms
  <2> QED BY <1>3, <2>1 DEF Content
<1> QED BY <1>1, <1>3, <1>4, <1>5 DEF Agree

\* The copy constructor's part in it: nothing happens to null.
LEMMA DupUnlessNullFacts ==
    ASSUME NEW m, Sound(m), FreshComms(m) # {}, FreshPointers(m) # {},
           NEW c \in InUse(m) \cup {Null}
    PROVE  LET n == DupUnlessNull(m, c)
               d == Duplicated(m, c)
           IN  /\ Sound(n)
               /\ Agree(m, n, InUse(m))
               /\ \/ c = Null /\ d = Null /\ n.live = m.live
                  \/ /\ c # Null /\ d \in Allocatable \ m.live /\ n.live = m.live \cup {d}
                     /\ Content(n, d) = Content(m, c)
<1>1. CASE c = Null
    BY <1>1 DEF DupUnlessNull, Duplicated, Agree
<1>2. CASE c # Null
    BY <1>2, DupFacts, NewCommFacts DEF DupUnlessNull, Duplicated
<1> QED BY <1>1, <1>2

\* Move assignment's and the destructor's part.
LEMMA DisconnectUnlessNullFacts ==
    ASSUME NEW m, Sound(m), NEW c \in m.live \cup {Null}
    PROVE  LET n == DisconnectUnlessNull(m, c)
           IN  Sound(n) /\ n.live = m.live \ {c} /\ Agree(m, n, InUse(m) \ {c})
<1>1. CASE c = Null
  <2>1. c \notin m.live
    BY <1>1, HandleKinds DEF Sound, MPIState, Comms
  <2> QED BY <1>1, <2>1 DEF DisconnectUnlessNull, Agree
<1>2. CASE c # Null
    BY <1>2, DisconnectFacts DEF DisconnectUnlessNull
<1> QED BY <1>1, <1>2
-----------------------------------------------------------------------------
(* Objects and the communicators they hold.                                *)

\* Every allocated communicator is held, no communicator is held twice, and only
\* communicators in use are held.
Owns(f, live) ==
    /\ f \in [Objects -> Comms \cup {Null, NoObject}]
    /\ \A c \in live : \E h \in Objects : f[h] = c
    /\ \A h, g \in Objects : f[h] \in Comms /\ f[h] = f[g] => h = g
    /\ \A h \in Objects : f[h] \in Comms => f[h] \in live \cup {World, Self}

\* An object without a communicator may receive a new one.
LEMMA OwnsGive ==
    ASSUME NEW f, NEW live \in SUBSET Allocatable, Owns(f, live),
           NEW h \in Objects, f[h] \notin Comms, NEW c \in Allocatable \ live,
           NEW e, e = [f EXCEPT ![h] = c]
    PROVE  Owns(e, live \cup {c})
<1>1. c \in Comms /\ c \notin live \cup {World, Self} /\ live \subseteq Comms
    BY HandleKinds DEF Comms
<1>2. e \in [Objects -> Comms \cup {Null, NoObject}]
    BY <1>1 DEF Owns
<1>3. \A g \in Objects : e[g] = IF g = h THEN c ELSE f[g]
    BY DEF Owns
<1>4. \A g \in Objects : f[g] # c
    BY <1>1 DEF Owns
<1>5. \A d \in live \cup {c} : \E g \in Objects : e[g] = d
    BY <1>1, <1>3 DEF Owns
<1>6. \A k, g \in Objects : e[k] \in Comms /\ e[k] = e[g] => k = g
    BY <1>3, <1>4 DEF Owns
<1>7. \A g \in Objects : e[g] \in Comms => e[g] \in (live \cup {c}) \cup {World, Self}
    BY <1>3 DEF Owns
<1> QED BY <1>2, <1>5, <1>6, <1>7 DEF Owns

\* An object may lose its communicator with the communicator's release.
LEMMA OwnsTake ==
    ASSUME NEW f, NEW live \in SUBSET Allocatable, Owns(f, live),
           NEW h \in Objects, NEW x \in {Null, NoObject},
           NEW e, e = [f EXCEPT ![h] = x]
    PROVE  Owns(e, live \ {f[h]})
<1>1. x \notin Comms /\ live \subseteq Comms
    BY HandleKinds DEF Comms
<1>2. e \in [Objects -> Comms \cup {Null, NoObject}]
    BY DEF Owns
<1>3. \A g \in Objects : e[g] = IF g = h THEN x ELSE f[g]
    BY DEF Owns
<1>4. \A d \in live \ {f[h]} : \E g \in Objects : e[g] = d
    BY <1>3 DEF Owns
<1>5. \A k, g \in Objects : e[k] \in Comms /\ e[k] = e[g] => k = g
    BY <1>1, <1>3 DEF Owns
<1>6. \A g \in Objects : e[g] \in Comms => e[g] \in (live \ {f[h]}) \cup {World, Self}
    BY <1>1, <1>3 DEF Owns
<1> QED BY <1>2, <1>4, <1>5, <1>6 DEF Owns

\* An object without a communicator may receive that of another.
LEMMA OwnsMove ==
    ASSUME NEW f, NEW live \in SUBSET Allocatable, Owns(f, live),
           NEW h \in Objects, f[h] \notin Comms, NEW g \in Objects, f[g] # NoObject, h # g,
           NEW e, e = [f EXCEPT ![h] = f[g], ![g] = Null]
    PROVE  Owns(e, live)
<1>1. Null \notin Comms /\ live \subseteq Comms
    BY HandleKinds DEF Comms
<1>2. e \in [Objects -> Comms \cup {Null, NoObject}]
    BY DEF Owns
<1>3. \A k \in Objects : e[k] = IF k = g THEN Null ELSE IF k = h THEN f[g] ELSE f[k]
    BY DEF Owns
<1>4. \A d \in live : \E k \in Objects : e[k] = d
    BY <1>1, <1>3 DEF Owns
<1>5. \A j, k \in Objects : e[j] \in Comms /\ e[j] = e[k] => j = k
    BY <1>1, <1>3 DEF Owns
<1>6. \A k \in Objects : e[k] \in Comms => e[k] \in live \cup {World, Self}
    BY <1>1, <1>3 DEF Owns
<1> QED BY <1>2, <1>4, <1>5, <1>6 DEF Owns
-----------------------------------------------------------------------------
(* The invariant and the values of the objects.                            *)

CInv == Sound(mpi) /\ Owns(impl, mpi.live) /\ aborted \in BOOLEAN

\* What follows at once from the invariant.
LEMMA Handles ==
    ASSUME CInv
    PROVE  /\ mpi.live \in SUBSET Allocatable
           /\ \A h \in Objects : impl[h] \in Comms \cup {Null, NoObject}
           /\ \A h \in Objects : impl[h] \in Comms => impl[h] \in InUse(mpi)
           /\ \A h, g \in Objects : impl[h] \in Comms /\ impl[h] = impl[g] => h = g
BY DEF CInv, Owns, Sound, MPIState, InUse

\* The content of a communicator is neither of the two special values.
LEMMA ContentIsValue ==
    ASSUME NEW m, Sound(m), NEW c \in Comms
    PROVE  /\ Content(m, c) \in Contents
           /\ Content(m, c) # EmptyValue /\ Content(m, c) # NoValue
           /\ ValueOf(m, c) = Content(m, c)
<1>1. m.group[c] \in Groups /\ m.attr[c] \in {NoAttr} \cup Pointers
    BY DEF Sound, MPIState
<1>2. m.attr[c] # NoAttr => m.value[m.attr[c]] \in AttrValues
    BY <1>1 DEF Sound, MPIState
<1>3. Content(m, c) \in Contents
    BY <1>1, <1>2 DEF Content, Contents
<1>4. Content(m, c) # EmptyValue /\ Content(m, c) # NoValue
  <2>1. Content(m, c).group \in Groups
    BY <1>1 DEF Content
  <2>2. EmptyValue.group \notin Groups /\ NoValue.group \notin Groups
    BY DEF EmptyValue, NoValue, Groups
  <2> QED BY <2>1, <2>2
<1> QED BY <1>3, <1>4, HandleKinds DEF ValueOf

\* The special values stand for the special handles.
LEMMA SpecialValues ==
    ASSUME CInv, NEW h \in Objects
    PROVE  /\ ObjectValues[h] = ValueOf(mpi, impl[h])
           /\ impl[h] = NoObject <=> ObjectValues[h] = NoValue
           /\ impl[h] = Null <=> ObjectValues[h] = EmptyValue
           /\ impl[h] \in Comms => ObjectValues[h] = Content(mpi, impl[h])
<1>1. ObjectValues[h] = ValueOf(mpi, impl[h])
    BY DEF ObjectValues
<1>2. EmptyValue # NoValue
  <2>1. EmptyValue.group # NoValue.group
    BY DEF EmptyValue, NoValue
  <2> QED BY <2>1
<1>3. CASE impl[h] \in Comms
    BY <1>1, <1>3, ContentIsValue, HandleKinds DEF CInv
<1>4. CASE impl[h] \in {Null, NoObject}
    BY <1>1, <1>2, <1>4, HandleKinds DEF ValueOf
<1> QED BY <1>3, <1>4, Handles

\* An object keeps its value when it keeps its handle and the library keeps the
\* content of what it holds.
LEMMA ValueKept ==
    ASSUME CInv, NEW m, NEW T, Agree(mpi, m, T),
           NEW h \in Objects, impl[h] \in Comms => impl[h] \in T
    PROVE  ValueOf(m, impl[h]) = ObjectValues[h]
<1>1. CASE impl[h] \in Comms
    BY <1>1, Handles, SpecialValues, HandleKinds DEF ValueOf, Agree
<1>2. CASE impl[h] \in {Null, NoObject}
    BY <1>2, SpecialValues, HandleKinds DEF ValueOf
<1> QED BY <1>1, <1>2, Handles

\* One object has a new value when the others keep theirs.
LEMMA OneNewValue ==
    ASSUME NEW h \in Objects, \A k \in Objects : k # h => ValueOf(mpi', impl'[k]) = ObjectValues[k]
    PROVE  ObjectValues' = [ObjectValues EXCEPT ![h] = ValueOf(mpi', impl'[h])]
<1>1. ObjectValues' = [k \in Objects |-> ValueOf(mpi', impl'[k])]
    BY DEF ObjectValues, ValueOf, Content
<1>2. ObjectValues = [k \in Objects |-> ObjectValues[k]]
    BY DEF ObjectValues
<1> QED BY <1>1, <1>2
-----------------------------------------------------------------------------
(* The steps: each keeps the invariant and maps to an abstract step.       *)

\* Construction: an object is born with null or with a new communicator.
LEMMA Receives ==
    ASSUME CInv, NEW h \in Objects, impl[h] = NoObject, NEW d, NEW n,
           Sound(n), Agree(mpi, n, InUse(mpi)),
           \/ d = Null /\ n.live = mpi.live
           \/ d \in Allocatable \ mpi.live /\ n.live = mpi.live \cup {d},
           impl' = [impl EXCEPT ![h] = d], mpi' = n, aborted' = aborted
    PROVE  CInv' /\ ObjectValues' = [ObjectValues EXCEPT ![h] = ValueOf(n, d)]
<1>1. /\ mpi.live \in SUBSET Allocatable /\ Owns(impl, mpi.live)
      /\ impl[h] \notin Comms /\ mpi.live \ {impl[h]} = mpi.live
    BY Handles, HandleKinds DEF CInv, Comms
<1>2. Owns(impl', n.live)
  <2>1. CASE d = Null /\ n.live = mpi.live
    <3>1. d \in {Null, NoObject}
      BY <2>1
    <3>2. Owns(impl', mpi.live \ {impl[h]})
      BY <1>1, <3>1, OwnsTake
    <3> QED BY <1>1, <2>1, <3>2
  <2>2. CASE d \in Allocatable \ mpi.live /\ n.live = mpi.live \cup {d}
    <3>1. Owns(impl', mpi.live \cup {d})
      BY <1>1, <2>2, OwnsGive
    <3> QED BY <2>2, <3>1
  <2> QED BY <2>1, <2>2
<1>3. \A k \in Objects : impl'[k] = IF k = h THEN d ELSE impl[k]
    BY <1>1 DEF Owns
<1>4. ASSUME NEW k \in Objects, k # h PROVE ValueOf(mpi', impl'[k]) = ObjectValues[k]
  <2>1. impl[k] \in Comms => impl[k] \in InUse(mpi)
    BY Handles
  <2>2. ValueOf(n, impl[k]) = ObjectValues[k]
    BY <2>1, ValueKept
  <2> QED BY <1>3, <1>4, <2>2
<1>5. ObjectValues' = [ObjectValues EXCEPT ![h] = ValueOf(mpi', impl'[h])]
    BY <1>4, OneNewValue
<1>6. CInv'
    BY <1>2 DEF CInv
<1> QED BY <1>3, <1>5, <1>6

\* Mutation: the content of what one object holds changes.
LEMMA Changes ==
    ASSUME CInv, NEW h \in Objects, impl[h] \in Comms, NEW n,
           Sound(n), n.live = mpi.live, Agree(mpi, n, InUse(mpi) \ {impl[h]}),
           impl' = impl, mpi' = n, aborted' = aborted
    PROVE  CInv' /\ ObjectValues' = [ObjectValues EXCEPT ![h] = Content(n, impl[h])]
<1>1. ASSUME NEW k \in Objects, k # h PROVE ValueOf(mpi', impl'[k]) = ObjectValues[k]
  <2>1. impl[k] \in Comms => impl[k] \in InUse(mpi) \ {impl[h]}
    BY <1>1, Handles
  <2>2. ValueOf(n, impl[k]) = ObjectValues[k]
    BY <2>1, ValueKept
  <2> QED BY <2>2
<1>2. ObjectValues' = [ObjectValues EXCEPT ![h] = ValueOf(mpi', impl'[h])]
    BY <1>1, OneNewValue
<1>3. ValueOf(mpi', impl'[h]) = Content(n, impl[h])
    BY HandleKinds DEF ValueOf
<1>4. CInv'
    BY DEF CInv
<1> QED BY <1>2, <1>3, <1>4

\* Destruction: an object is gone with what it held, or leaves a predefined
\* communicator behind.
LEMMA Destroys ==
    ASSUME CInv, NEW h \in Objects, Destroy(h)
    PROVE  CInv' /\ ObjectValues' = [ObjectValues EXCEPT ![h] = NoValue]
<1>1. /\ impl[h] # NoObject /\ impl' = [impl EXCEPT ![h] = NoObject]
      /\ mpi' = IF impl[h] \in {Null, World, Self} THEN mpi ELSE Disconnect(mpi, impl[h])
      /\ aborted' = aborted
    BY DEF Destroy, Alive
<1>2. mpi.live \in SUBSET Allocatable /\ Owns(impl, mpi.live) /\ Sound(mpi)
    BY Handles DEF CInv
<1>3. Sound(mpi') /\ mpi'.live = mpi.live \ {impl[h]} /\ Agree(mpi, mpi', InUse(mpi) \ {impl[h]})
  <2>1. CASE impl[h] \in {Null, World, Self}
    <3>1. mpi.live \ {impl[h]} = mpi.live
      BY <1>2, <2>1, HandleKinds DEF Comms
    <3> QED BY <1>1, <1>2, <2>1, <3>1 DEF Agree
  <2>2. CASE impl[h] \notin {Null, World, Self}
    <3>1. impl[h] \in mpi.live
      BY <1>1, <2>2, Handles DEF InUse
    <3> QED BY <1>1, <1>2, <2>2, <3>1, DisconnectFacts
  <2> QED BY <2>1, <2>2
<1>4. Owns(impl', mpi'.live)
  <2>1. Owns(impl', mpi.live \ {impl[h]})
    BY <1>1, <1>2, OwnsTake
  <2> QED BY <1>3, <2>1
<1>5. \A k \in Objects : impl'[k] = IF k = h THEN NoObject ELSE impl[k]
    BY <1>1, <1>2 DEF Owns
<1>6. ASSUME NEW k \in Objects, k # h PROVE ValueOf(mpi', impl'[k]) = ObjectValues[k]
  <2>1. CASE impl[k] = impl[h]
    <3>1. impl[k] = Null
      BY <1>1, <1>6, <2>1, Handles
    <3> QED BY <1>5, <1>6, <3>1, SpecialValues, HandleKinds DEF ValueOf
  <2>2. CASE impl[k] # impl[h]
    <3>1. impl[k] \in Comms => impl[k] \in InUse(mpi) \ {impl[h]}
      BY <2>2, Handles
    <3>2. ValueOf(mpi', impl[k]) = ObjectValues[k]
      BY <1>3, <3>1, ValueKept
    <3> QED BY <1>5, <1>6, <3>2
  <2> QED BY <2>1, <2>2
<1>7. ObjectValues' = [ObjectValues EXCEPT ![h] = ValueOf(mpi', impl'[h])]
    BY <1>6, OneNewValue
<1>8. ValueOf(mpi', impl'[h]) = NoValue
    BY <1>5, HandleKinds DEF ValueOf
<1> QED BY <1>1, <1>3, <1>4, <1>7, <1>8 DEF CInv

\* Move construction and move assignment to another object: the target's
\* communicator is released, the source's changes hands.
LEMMA Transfers ==
    ASSUME CInv, NEW h \in Objects, NEW g \in Objects, h # g, impl[g] # NoObject,
           impl[h] \in mpi.live \cup {Null, NoObject}, NEW n,
           Sound(n), n.live = mpi.live \ {impl[h]}, Agree(mpi, n, InUse(mpi) \ {impl[h]}),
           impl' = [impl EXCEPT ![h] = impl[g], ![g] = Null],
           mpi' = n, aborted' = aborted
    PROVE  CInv' /\ ObjectValues' = [ObjectValues EXCEPT ![h] = ObjectValues[g],
                                                         ![g] = EmptyValue]
<1> DEFINE f == [impl EXCEPT ![h] = Null]
<1>1. mpi.live \in SUBSET Allocatable /\ Owns(impl, mpi.live)
    BY Handles DEF CInv
<1>2. Owns(f, mpi.live \ {impl[h]})
    BY <1>1, OwnsTake
<1>3. \A k \in Objects : f[k] = IF k = h THEN Null ELSE impl[k]
    BY <1>1 DEF Owns
<1>4. impl' = [f EXCEPT ![h] = f[g], ![g] = Null]
    BY <1>1 DEF Owns
<1>5. Owns(impl', n.live)
  <2>1. f[h] \notin Comms /\ f[g] # NoObject /\ n.live \in SUBSET Allocatable
    BY <1>1, <1>3, HandleKinds
  <2> HIDE DEF f
  <2> QED BY <1>2, <1>4, <2>1, OwnsMove
<1>6. \A k \in Objects :
        impl'[k] = IF k = g THEN Null ELSE IF k = h THEN impl[g] ELSE impl[k]
    BY <1>1 DEF Owns
<1>7. ASSUME NEW k \in Objects, k # h PROVE ValueOf(n, impl[k]) = ObjectValues[k]
  <2>1. impl[k] \in Comms => impl[k] \in InUse(mpi) \ {impl[h]}
    BY <1>7, Handles
  <2> QED BY <2>1, ValueKept
<1>8. ValueOf(n, Null) = EmptyValue
    BY HandleKinds DEF ValueOf
<1>9. ObjectValues' = [k \in Objects |-> ValueOf(mpi', impl'[k])]
    BY DEF ObjectValues, ValueOf, Content
<1>10. \A k \in Objects : ObjectValues'[k] =
          IF k = g THEN EmptyValue ELSE IF k = h THEN ObjectValues[g] ELSE ObjectValues[k]
  <2> SUFFICES ASSUME NEW k \in Objects
               PROVE  ObjectValues'[k] = IF k = g THEN EmptyValue
                                         ELSE IF k = h THEN ObjectValues[g] ELSE ObjectValues[k]
    OBVIOUS
  <2>1. ObjectValues'[k] = ValueOf(n, impl'[k])
    BY <1>9
  <2>2. ValueOf(n, impl[g]) = ObjectValues[g]
    BY <1>7
  <2> QED BY <1>6, <1>7, <1>8, <2>1, <2>2
<1>11. ObjectValues = [k \in Objects |-> ObjectValues[k]]
    BY DEF ObjectValues
<1>12. ObjectValues' = [ObjectValues EXCEPT ![h] = ObjectValues[g], ![g] = EmptyValue]
  <2> DEFINE V == ObjectValues
             W == ObjectValues'
  <2>1. W = [k \in Objects |-> W[k]]
    BY <1>9
  <2> HIDE DEF V, W
  <2> QED BY <1>10, <1>11, <2>1 DEF V, W
<1> QED BY <1>5, <1>12 DEF CInv

\* Move assignment of an object to itself leaves it null.
LEMMA SelfMoves ==
    ASSUME CInv, NEW h \in Objects, MoveAssign(h, h)
    PROVE  CInv' /\ ObjectValues' = [ObjectValues EXCEPT ![h] = EmptyValue]
<1>1. /\ impl[h] # NoObject /\ impl[h] \notin {World, Self}
      /\ impl' = [impl EXCEPT ![h] = Null]
      /\ mpi' = DisconnectUnlessNull(mpi, impl[h]) /\ aborted' = aborted
    BY DEF MoveAssign, Alive, RefusesDisconnect
<1>2. mpi.live \in SUBSET Allocatable /\ Owns(impl, mpi.live) /\ Sound(mpi)
    BY Handles DEF CInv
<1>3. impl[h] \in mpi.live \cup {Null}
    BY <1>1, Handles DEF InUse
<1>4. Sound(mpi') /\ mpi'.live = mpi.live \ {impl[h]} /\ Agree(mpi, mpi', InUse(mpi) \ {impl[h]})
    BY <1>1, <1>2, <1>3, DisconnectUnlessNullFacts
<1>5. Owns(impl', mpi'.live)
  <2>1. Owns(impl', mpi.live \ {impl[h]})
    BY <1>1, <1>2, OwnsTake
  <2> QED BY <1>4, <2>1
<1>6. \A k \in Objects : impl'[k] = IF k = h THEN Null ELSE impl[k]
    BY <1>1, <1>2 DEF Owns
<1>7. ASSUME NEW k \in Objects, k # h PROVE ValueOf(mpi', impl'[k]) = ObjectValues[k]
  <2>1. impl[k] \in Comms => impl[k] \in InUse(mpi) \ {impl[h]}
    BY <1>7, Handles
  <2>2. ValueOf(mpi', impl[k]) = ObjectValues[k]
    BY <1>4, <2>1, ValueKept
  <2> QED BY <1>6, <1>7, <2>2
<1>8. ObjectValues' = [ObjectValues EXCEPT ![h] = ValueOf(mpi', impl'[h])]
    BY <1>7, OneNewValue
<1>9. ValueOf(mpi', impl'[h]) = EmptyValue
    BY <1>6, HandleKinds DEF ValueOf
<1> QED BY <1>1, <1>4, <1>5, <1>8, <1>9 DEF CInv

\* Copy assignment: the source is duplicated, then the target released.
LEMMA CopyAssigns ==
    ASSUME CInv, NEW h \in Objects, NEW g \in Objects, CopyAssign(h, g)
    PROVE  CInv' /\ ObjectValues' = [ObjectValues EXCEPT ![h] = ObjectValues[g]]
<1> DEFINE m == DupUnlessNull(mpi, impl[g])
           d == Duplicated(mpi, impl[g])
<1>1. /\ impl[h] \notin {NoObject, World, Self} /\ impl[g] # NoObject
      /\ impl' = [impl EXCEPT ![h] = d]
      /\ mpi' = DisconnectUnlessNull(m, impl[h]) /\ aborted' = aborted
      /\ FreshComms(mpi) # {} /\ FreshPointers(mpi) # {}
    BY DEF CopyAssign, Alive, Room, RefusesDisconnect
<1>2. mpi.live \in SUBSET Allocatable /\ Owns(impl, mpi.live) /\ Sound(mpi)
    BY Handles DEF CInv
<1>3. impl[g] \in InUse(mpi) \cup {Null} /\ impl[h] \in mpi.live \cup {Null}
    BY <1>1, Handles DEF InUse
<1>4. /\ Sound(m) /\ Agree(mpi, m, InUse(mpi))
      /\ \/ impl[g] = Null /\ d = Null /\ m.live = mpi.live
         \/ /\ impl[g] # Null /\ d \in Allocatable \ mpi.live /\ m.live = mpi.live \cup {d}
            /\ Content(m, d) = Content(mpi, impl[g])
    BY <1>1, <1>2, <1>3, DupUnlessNullFacts
<1> HIDE DEF m, d
<1>5. /\ Sound(mpi') /\ mpi'.live = m.live \ {impl[h]}
      /\ Agree(m, mpi', InUse(m) \ {impl[h]})
  <2>1. impl[h] \in m.live \cup {Null}
    BY <1>3, <1>4
  <2> QED BY <1>1, <1>4, <2>1, DisconnectUnlessNullFacts
<1>6. Agree(mpi, mpi', InUse(mpi) \ {impl[h]})
    BY <1>4, <1>5 DEF Agree, InUse
<1>7. d # impl[h] \/ d = Null
    BY <1>3, <1>4
<1>8. Owns(impl', mpi'.live)
  <2> DEFINE f == [impl EXCEPT ![h] = Null]
  <2>1. Owns(f, mpi.live \ {impl[h]})
    BY <1>2, OwnsTake
  <2>2. impl' = [f EXCEPT ![h] = d] /\ f[h] = Null
    BY <1>1, <1>2 DEF Owns
  <2>3. CASE d = Null
    <3>1. impl' = f /\ mpi'.live = mpi.live \ {impl[h]}
      BY <1>1, <1>4, <1>5, <2>3, HandleKinds DEF Comms
    <3> QED BY <2>1, <3>1
  <2>4. CASE d # Null
    <3>1. d \in Allocatable \ (mpi.live \ {impl[h]}) /\ mpi.live \ {impl[h]} \in SUBSET Allocatable
      BY <1>2, <1>4, <2>4
    <3>2. f[h] \notin Comms
      BY <2>2, HandleKinds
    <3> HIDE DEF f
    <3>3. Owns(impl', (mpi.live \ {impl[h]}) \cup {d})
      BY <2>1, <2>2, <3>1, <3>2, OwnsGive
    <3>4. mpi'.live = (mpi.live \ {impl[h]}) \cup {d}
      BY <1>4, <1>5, <1>7, <2>4
    <3> QED BY <3>3, <3>4
  <2> QED BY <2>3, <2>4
<1>9. \A k \in Objects : impl'[k] = IF k = h THEN d ELSE impl[k]
    BY <1>1, <1>2 DEF Owns
<1>10. ASSUME NEW k \in Objects, k # h PROVE ValueOf(mpi', impl'[k]) = ObjectValues[k]
  <2>1. impl[k] \in Comms => impl[k] \in InUse(mpi) \ {impl[h]}
    BY <1>10, Handles
  <2>2. ValueOf(mpi', impl[k]) = ObjectValues[k]
    BY <1>6, <2>1, ValueKept
  <2> QED BY <1>9, <1>10, <2>2
<1>11. ObjectValues' = [ObjectValues EXCEPT ![h] = ValueOf(mpi', impl'[h])]
    BY <1>10, OneNewValue
<1>12. ValueOf(mpi', d) = ObjectValues[g]
  <2>1. CASE d = Null
    <3>1. impl[g] = Null
      BY <1>4, <2>1, HandleKinds DEF Comms
    <3> QED BY <2>1, <3>1, SpecialValues, HandleKinds DEF ValueOf
  <2>2. CASE d # Null
    <3>1. /\ impl[g] \in Comms /\ d \in Comms /\ d \in InUse(m) \ {impl[h]}
          /\ Content(m, d) = Content(mpi, impl[g])
      BY <1>2, <1>3, <1>4, <1>7, <2>2 DEF Comms, InUse
    <3>2. Content(mpi', d) = Content(mpi, impl[g])
      BY <1>5, <3>1 DEF Agree
    <3> QED BY <1>5, <3>1, <3>2, SpecialValues, ContentIsValue
  <2> QED BY <2>1, <2>2
<1>13. CInv'
    BY <1>1, <1>5, <1>8 DEF CInv
<1> QED BY <1>9, <1>11, <1>12, <1>13
-----------------------------------------------------------------------------
(* The actions of Next.                                                    *)

\* Construction from nothing, by copying and by the communicator's operations.
LEMMA ConstructsStep ==
    ASSUME CInv, NEW h \in Own, Constructs(h)
    PROVE  CInv' /\ Abstract!Next
<1>1. h \in Objects
    BY DEF Own
<1>2. /\ Sound(mpi) /\ Agree(mpi, mpi, InUse(mpi))
      /\ mpi.live \in SUBSET Allocatable
      /\ impl[h] = NoObject => ~Abstract!Alive(h)
    BY <1>1, Handles, SpecialValues DEF CInv, Agree, Abstract!Alive
<1>3. ValueOf(mpi, Null) = EmptyValue
    BY HandleKinds DEF ValueOf
<1>4. CASE impl[h] = NoObject /\ impl' = [impl EXCEPT ![h] = Null] /\ UNCHANGED <<mpi, aborted>>
  <2>1. CInv' /\ ObjectValues' = [ObjectValues EXCEPT ![h] = EmptyValue]
    BY <1>1, <1>2, <1>3, <1>4, Receives
  <2>2. Abstract!Construct(h, EmptyValue)
    BY <1>2, <1>4, <2>1 DEF Abstract!Construct
  <2> QED BY <1>1, <2>1, <2>2 DEF Abstract!Next
<1>5. ASSUME NEW g \in Objects, Copy(h, g) PROVE CInv' /\ Abstract!Next
  <2> DEFINE n == DupUnlessNull(mpi, impl[g])
             d == Duplicated(mpi, impl[g])
  <2>1. /\ impl[h] = NoObject /\ impl[g] # NoObject
        /\ impl' = [impl EXCEPT ![h] = d] /\ mpi' = n /\ aborted' = aborted
        /\ FreshComms(mpi) # {} /\ FreshPointers(mpi) # {}
    BY <1>5 DEF Copy, Alive, Room
  <2>2. impl[g] \in InUse(mpi) \cup {Null}
    BY <2>1, Handles
  <2>3. /\ Sound(n) /\ Agree(mpi, n, InUse(mpi))
        /\ \/ impl[g] = Null /\ d = Null /\ n.live = mpi.live
           \/ /\ impl[g] # Null /\ d \in Allocatable \ mpi.live /\ n.live = mpi.live \cup {d}
              /\ Content(n, d) = Content(mpi, impl[g])
    BY <1>2, <2>1, <2>2, DupUnlessNullFacts
  <2> HIDE DEF n, d
  <2>4. CInv' /\ ObjectValues' = [ObjectValues EXCEPT ![h] = ValueOf(n, d)]
    BY <1>1, <2>1, <2>3, Receives
  <2>5. ValueOf(n, d) = ObjectValues[g]
    <3>1. CASE impl[g] = Null
      BY <2>3, <3>1, SpecialValues, HandleKinds DEF ValueOf
    <3>2. CASE impl[g] # Null
      <4>1. d \in Comms /\ impl[g] \in Comms
        BY <1>2, <2>2, <2>3, <3>2 DEF Comms, InUse
      <4> QED BY <2>3, <3>2, <4>1, SpecialValues, ContentIsValue
    <3> QED BY <3>1, <3>2
  <2>6. Abstract!Alive(g)
    BY <2>1, SpecialValues DEF Abstract!Alive
  <2>7. Abstract!Copy(h, g)
    BY <1>2, <2>1, <2>4, <2>5, <2>6 DEF Abstract!Copy
  <2> QED BY <1>1, <2>4, <2>7 DEF Abstract!Next
<1>6. ASSUME NEW g \in Objects, Duplicate(h, g) PROVE CInv' /\ Abstract!Next
  <2>1. impl[g] # Null /\ impl[g] # NoObject
    BY <1>6 DEF Duplicate, Alive
  <2>2. Copy(h, g)
    BY <1>6, <2>1 DEF Duplicate, Copy, Duplicated, DupUnlessNull
  <2> QED BY <1>5, <2>2
<1>7. ASSUME NEW g \in Objects, NEW v \in AttrValues, Split(h, g, v)
      PROVE  CInv' /\ Abstract!Next
  <2> DEFINE e == Create(mpi, "part")
             n == Store(e, NewComm(mpi), v)
             d == NewComm(mpi)
  <2>1. /\ impl[h] = NoObject /\ impl' = [impl EXCEPT ![h] = d] /\ mpi' = n
        /\ aborted' = aborted /\ FreshComms(mpi) # {} /\ FreshPointers(mpi) # {}
    BY <1>7 DEF Split, Alive, Room
  <2>2. /\ Sound(e) /\ e.live = mpi.live \cup {d} /\ e.heap = mpi.heap
        /\ e.attr[d] = NoAttr /\ e.group[d] = "part" /\ Agree(mpi, e, InUse(mpi))
    <3>1. "part" \in Groups
      BY DEF Groups
    <3> QED BY <1>2, <2>1, <3>1, CreateFacts
  <2>3. d \in Allocatable /\ d \notin mpi.live
    BY <2>1, NewCommFacts
  <2>4. FreshPointers(e) # {} /\ d \in InUse(e)
    BY <2>1, <2>2 DEF FreshPointers, InUse
  <2>5. /\ Sound(n) /\ n.live = e.live /\ Agree(e, n, InUse(e) \ {d})
        /\ Content(n, d) = [group |-> "part", attr |-> {v}]
    <3> HIDE DEF e, d
    <3> QED BY <2>2, <2>4, StoreFacts DEF d
  <2> HIDE DEF e, n, d
  <2>6. Agree(mpi, n, InUse(mpi))
    <3>1. InUse(mpi) \subseteq InUse(e) \ {d}
      BY <2>2, <2>3, HandleKinds DEF InUse
    <3> QED BY <2>2, <2>5, <3>1 DEF Agree
  <2>7. CInv' /\ ObjectValues' = [ObjectValues EXCEPT ![h] = ValueOf(n, d)]
    BY <1>1, <2>1, <2>2, <2>3, <2>5, <2>6, Receives
  <2>8. ValueOf(n, d) \in MadeContents
    BY <2>3, <2>5, ContentIsValue DEF Comms, MadeContents
  <2>9. Abstract!Construct(h, ValueOf(n, d))
    BY <1>2, <2>1, <2>7, <2>8 DEF Abstract!Construct
  <2> QED BY <1>1, <2>7, <2>8, <2>9 DEF Abstract!Next
<1>8. ASSUME NEW g \in Own, Move(h, g) PROVE CInv' /\ Abstract!Next
  <2>1. /\ impl[h] = NoObject /\ impl[g] # NoObject /\ g \in Objects /\ h # g
        /\ impl' = [impl EXCEPT ![h] = impl[g], ![g] = Null]
        /\ mpi' = mpi /\ aborted' = aborted
    BY <1>8 DEF Move, Alive, Own
  <2>2. mpi.live = mpi.live \ {impl[h]} /\ Agree(mpi, mpi, InUse(mpi) \ {impl[h]})
    BY <1>2, <2>1, HandleKinds DEF Agree, Comms
  <2>3. CInv' /\ ObjectValues' = [ObjectValues EXCEPT ![h] = ObjectValues[g], ![g] = EmptyValue]
    BY <1>1, <1>2, <2>1, <2>2, Transfers
  <2>4. Abstract!Move(h, g)
    BY <1>2, <2>1, <2>3, SpecialValues DEF Abstract!Move, Abstract!Alive
  <2> QED BY <1>1, <2>1, <2>3, <2>4 DEF Abstract!Next
<1> QED BY <1>4, <1>5, <1>6, <1>7, <1>8 DEF Constructs, Default, SplitUndefined, Alive

\* Assignment.
LEMMA AssignsStep ==
    ASSUME CInv, NEW h \in Own, Assigns(h)
    PROVE  CInv' /\ Abstract!Next
<1>1. h \in Objects
    BY DEF Own
<1>2. ASSUME NEW g \in Objects, CopyAssign(h, g) PROVE CInv' /\ Abstract!Next
  <2>1. CInv' /\ ObjectValues' = [ObjectValues EXCEPT ![h] = ObjectValues[g]]
    BY <1>1, <1>2, CopyAssigns
  <2>2. Abstract!Alive(h) /\ Abstract!Alive(g)
    BY <1>1, <1>2, SpecialValues DEF CopyAssign, Alive, Abstract!Alive
  <2>3. Abstract!CopyAssign(h, g)
    BY <2>1, <2>2 DEF Abstract!CopyAssign
  <2> QED BY <1>1, <2>1, <2>3 DEF Abstract!Next
<1>3. ASSUME NEW g \in Own, MoveAssign(h, g) PROVE CInv' /\ Abstract!Next
  <2>1. g \in Objects
    BY DEF Own
  <2>2. Abstract!Alive(h) /\ Abstract!Alive(g)
    BY <1>1, <1>3, <2>1, SpecialValues DEF MoveAssign, Alive, Abstract!Alive
  <2>3. CInv' /\ ObjectValues' = [ObjectValues EXCEPT ![h] = ObjectValues[g], ![g] = EmptyValue]
    <3>1. CASE h = g
      <4>1. CInv' /\ ObjectValues' = [ObjectValues EXCEPT ![h] = EmptyValue]
        BY <1>1, <1>3, <3>1, SelfMoves
      <4>2. [ObjectValues EXCEPT ![h] = EmptyValue]
              = [ObjectValues EXCEPT ![h] = ObjectValues[h], ![h] = EmptyValue]
        BY <1>1 DEF ObjectValues
      <4> QED BY <3>1, <4>1, <4>2
    <3>2. CASE h # g
      <4>1. /\ impl[h] \notin {NoObject, World, Self} /\ impl[g] # NoObject
            /\ impl' = [impl EXCEPT ![h] = impl[g], ![g] = Null]
            /\ mpi' = DisconnectUnlessNull(mpi, impl[h]) /\ aborted' = aborted
        BY <1>3, <3>2 DEF MoveAssign, Alive, RefusesDisconnect
      <4>2. impl[h] \in mpi.live \cup {Null}
        BY <1>1, <4>1, Handles DEF InUse
      <4>3. /\ Sound(mpi') /\ mpi'.live = mpi.live \ {impl[h]}
            /\ Agree(mpi, mpi', InUse(mpi) \ {impl[h]})
        BY <4>1, <4>2, DisconnectUnlessNullFacts DEF CInv
      <4> QED BY <1>1, <2>1, <3>2, <4>1, <4>2, <4>3, Transfers
    <3> QED BY <3>1, <3>2
  <2>4. Abstract!MoveAssign(h, g)
    BY <2>2, <2>3 DEF Abstract!MoveAssign
  <2> QED BY <1>1, <2>1, <2>3, <2>4 DEF Abstract!Next
<1> QED BY <1>2, <1>3 DEF Assigns

\* Destruction.
LEMMA DestroyStep ==
    ASSUME CInv, NEW h \in Own, Destroy(h)
    PROVE  CInv' /\ Abstract!Next
<1>1. h \in Objects
    BY DEF Own
<1>2. CInv' /\ ObjectValues' = [ObjectValues EXCEPT ![h] = NoValue]
    BY <1>1, Destroys
<1>3. Abstract!Alive(h)
    BY <1>1, SpecialValues DEF Destroy, Alive, Abstract!Alive
<1>4. Abstract!Destroy(h)
    BY <1>2, <1>3 DEF Abstract!Destroy
<1> QED BY <1>1, <1>2, <1>4 DEF Abstract!Next

\* Attributes: whatever happens to that of one communicator shows in one object.
LEMMA AttributesStep ==
    ASSUME CInv, NEW h \in Objects, Attributes(h)
    PROVE  CInv' /\ Abstract!Next
<1>1. Sound(mpi)
    BY DEF CInv
<1>2. impl[h] # NoObject /\ impl[h] # Null /\ impl' = impl /\ aborted' = aborted
    BY DEF Attributes, SetAttribute, Attribute, DeleteAttribute, Alive
<1>3. impl[h] \in InUse(mpi) /\ impl[h] \in Comms
    BY <1>2, Handles
<1>4. /\ Sound(mpi') /\ mpi'.live = mpi.live /\ mpi'.group = mpi.group
      /\ Agree(mpi, mpi', InUse(mpi) \ {impl[h]})
  <2> DEFINE c == impl[h]
             e == Drop(mpi, c)
  <2>1. /\ Sound(e) /\ e.live = mpi.live /\ e.group = mpi.group
        /\ e.heap \subseteq mpi.heap /\ e.attr[c] = NoAttr
        /\ Agree(mpi, e, InUse(mpi) \ {c}) /\ c \in InUse(e)
    BY <1>1, <1>3, DropFacts DEF InUse
  <2>2. ASSUME NEW v \in AttrValues, SetAttribute(h, v)
        PROVE  /\ Sound(mpi') /\ mpi'.live = mpi.live /\ mpi'.group = mpi.group
               /\ Agree(mpi, mpi', InUse(mpi) \ {c})
    <3>1. mpi' = Store(e, c, v) /\ FreshPointers(mpi) # {}
      BY <2>2 DEF SetAttribute, Room
    <3>2. FreshPointers(e) # {}
      BY <2>1, <3>1 DEF FreshPointers
    <3> HIDE DEF e, c
    <3>3. /\ Sound(mpi') /\ mpi'.live = e.live /\ mpi'.group = e.group
          /\ Agree(e, mpi', InUse(e) \ {c})
      BY <2>1, <3>1, <3>2, StoreFacts
    <3> QED BY <2>1, <3>3 DEF Agree, InUse
  <2>3. ASSUME NEW v \in AttrValues, Attribute(h, v), mpi.attr[c] = NoAttr
        PROVE  /\ Sound(mpi') /\ mpi'.live = mpi.live /\ mpi'.group = mpi.group
               /\ Agree(mpi, mpi', InUse(mpi) \ {c})
    <3>1. mpi' = Store(mpi, c, v) /\ FreshPointers(mpi) # {}
      BY <2>3 DEF Attribute, Room
    <3> QED BY <1>1, <1>3, <2>3, <3>1, StoreFacts
  <2>4. ASSUME NEW v \in AttrValues, Attribute(h, v), mpi.attr[c] # NoAttr
        PROVE  /\ Sound(mpi') /\ mpi'.live = mpi.live /\ mpi'.group = mpi.group
               /\ Agree(mpi, mpi', InUse(mpi) \ {c})
    <3> DEFINE p == mpi.attr[c]
    <3>1. mpi \in MPIState /\ mpi' = [mpi EXCEPT !.value[p] = v]
      BY <1>1, <2>4 DEF Attribute, Sound
    <3>2. p \in Pointers /\ \A d \in Comms \ {c} : mpi.attr[d] # p
      BY <1>1, <1>3, <2>4, <3>1 DEF MPIState, Sound
    <3>3. /\ mpi' \in MPIState /\ mpi'.live = mpi.live /\ mpi'.heap = mpi.heap
          /\ mpi'.attr = mpi.attr /\ mpi'.group = mpi.group
          /\ mpi'.value = [mpi.value EXCEPT ![p] = v]
      BY <3>1, <3>2 DEF MPIState
    <3>4. Sound(mpi')
      BY <1>1, <3>3 DEF Sound, InUse
    <3>5. ASSUME NEW d \in InUse(mpi) \ {c} PROVE Content(mpi, d) = Content(mpi', d)
      <4>1. mpi.attr[d] # p /\ (mpi.attr[d] # NoAttr => mpi.attr[d] \in Pointers)
        BY <1>1, <3>1, <3>2 DEF MPIState, InUse, Comms
      <4>2. mpi.attr[d] # NoAttr => mpi'.value[mpi.attr[d]] = mpi.value[mpi.attr[d]]
        BY <3>1, <3>2, <3>3, <4>1 DEF MPIState
      <4> QED BY <3>3, <4>2 DEF Content
    <3> QED BY <3>3, <3>4, <3>5 DEF Agree
  <2>5. ASSUME DeleteAttribute(h)
        PROVE  /\ Sound(mpi') /\ mpi'.live = mpi.live /\ mpi'.group = mpi.group
               /\ Agree(mpi, mpi', InUse(mpi) \ {c})
    BY <2>1, <2>5 DEF DeleteAttribute
  <2> QED BY <2>2, <2>3, <2>4, <2>5 DEF Attributes
<1>5. CInv' /\ ObjectValues' = [ObjectValues EXCEPT ![h] = Content(mpi', impl[h])]
    BY <1>2, <1>3, <1>4, Changes
<1>6. Content(mpi', impl[h]) \in Contents
    BY <1>3, <1>4, ContentIsValue
<1>7. Abstract!Alive(h)
    BY <1>2, SpecialValues DEF Abstract!Alive
<1>8. <<ObjectValues[h], Content(mpi', impl[h])>> \in AttributeChanges
  <2>1. ObjectValues[h] = Content(mpi, impl[h]) /\ Content(mpi, impl[h]) \in Contents
    BY <1>1, <1>3, SpecialValues, ContentIsValue
  <2>2. Content(mpi, impl[h]).group = Content(mpi', impl[h]).group
    BY <1>4 DEF Content
  <2> QED BY <1>6, <2>1, <2>2 DEF AttributeChanges
<1>9. Abstract!Mutate(h, Content(mpi', impl[h]))
    BY <1>5, <1>7, <1>8 DEF Abstract!Mutate
<1> QED BY <1>5, <1>6, <1>9 DEF Abstract!Next
-----------------------------------------------------------------------------
(* The theorems.                                                           *)

\* The inductive invariant holds of the world instance and the empty objects.
LEMMA InvInit == Init => CInv
<1> SUFFICES ASSUME Init PROVE CInv
    OBVIOUS
<1>1. Sound(mpi)
  <2>1. mpi \in MPIState
    BY AnyValueFact, HandleKinds DEF Init, MPIState, Groups
  <2>2. mpi.heap = {} /\ \A c \in Comms : mpi.attr[c] = NoAttr
    BY DEF Init
  <2> QED BY <2>1, <2>2, HandleKinds DEF Sound
<1>2. Owns(impl, mpi.live)
  <2>1. /\ impl = [h \in Objects |-> IF h = Instance THEN World ELSE NoObject]
        /\ mpi.live = {}
    BY DEF Init
  <2>2. World \in Comms /\ NoObject \notin Comms
    BY HandleKinds DEF Comms
  <2> QED BY <2>1, <2>2 DEF Owns
<1> QED BY <1>1, <1>2 DEF Init, CInv

\* Every member function keeps the inductive invariant and acts on the values of
\* the objects as ValueSemantics allows.
LEMMA StepFacts == CInv /\ [Next]_vars => CInv' /\ [Abstract!Next]_ObjectValues
<1> SUFFICES ASSUME CInv, [Next]_vars PROVE CInv' /\ [Abstract!Next]_ObjectValues
    OBVIOUS
<1>1. CASE Next
    BY <1>1, ConstructsStep, AssignsStep, DestroyStep, AttributesStep DEF Next
<1>2. CASE UNCHANGED vars
  <2>1. CInv'
    BY <1>2 DEF vars, CInv
  <2>2. UNCHANGED ObjectValues
    BY <1>2 DEF vars, ObjectValues
  <2> QED BY <2>1, <2>2
<1> QED BY <1>1, <1>2

\* The library stays sound and every communicator has its owner.
THEOREM CommunicatorInvariant == Spec => []CInv
BY InvInit, StepFacts, PTL DEF Spec

\* Handles have their types, and no object holds a released communicator.
THEOREM TypeOKHolds == Spec => []TypeOK
<1>1. CInv => TypeOK
  <2> SUFFICES ASSUME CInv PROVE TypeOK
    OBVIOUS
  <2>1. ASSUME NEW h \in Objects, impl[h] \in Allocatable PROVE impl[h] \in mpi.live
    BY <2>1, Handles, HandleKinds DEF Comms, InUse
  <2> QED BY <2>1 DEF TypeOK, CInv, Sound, Owns
<1> QED BY <1>1, CommunicatorInvariant, PTL

\* No communicator leaks, none is held by two objects (communicator.hpp:299).
THEOREM OneOwnerHolds == Spec => []OneOwner
<1>1. CInv => OneOwner
  <2> SUFFICES ASSUME CInv, NEW c \in mpi.live
               PROVE  \E h \in Objects : impl[h] = c /\ \A g \in Objects : impl[g] = c => g = h
    BY DEF OneOwner
  <2>1. c \in Comms
    BY Handles DEF Comms
  <2>2. PICK h \in Objects : impl[h] = c
    BY DEF CInv, Owns
  <2> QED BY <2>1, <2>2, Handles
<1> QED BY <1>1, CommunicatorInvariant, PTL

\* No attribute object leaks, none belongs to two communicators (communicator.hpp:412).
THEOREM AttributesOwnedHolds == Spec => []AttributesOwned
<1>1. CInv => AttributesOwned
  <2> SUFFICES ASSUME CInv PROVE AttributesOwned
    OBVIOUS
  <2>1. Sound(mpi) /\ mpi.live \cup {World, Self} \subseteq Comms /\ mpi \in MPIState
    BY Handles DEF CInv, Comms, Sound
  <2>2. \A c, d \in mpi.live \cup {World, Self} :
          mpi.attr[c] = mpi.attr[d] /\ mpi.attr[c] # NoAttr => c = d
    BY <2>1 DEF Sound
  <2>3. mpi.heap = {mpi.attr[c] : c \in mpi.live \cup {World, Self}} \ {NoAttr}
    <3>1. ASSUME NEW p \in mpi.heap
          PROVE  p \in {mpi.attr[c] : c \in mpi.live \cup {World, Self}} \ {NoAttr}
      <4>1. p \in Pointers /\ p # NoAttr
        BY <2>1, HandleKinds DEF MPIState
      <4>2. PICK c \in Comms : mpi.attr[c] = p
        BY <2>1, <4>1 DEF Sound
      <4>3. c \in mpi.live \cup {World, Self}
        BY <2>1, <4>1, <4>2 DEF Sound, InUse
      <4> QED BY <4>1, <4>2, <4>3
    <3>2. ASSUME NEW c \in mpi.live \cup {World, Self}, mpi.attr[c] # NoAttr
          PROVE  mpi.attr[c] \in mpi.heap
      BY <2>1, <3>2 DEF Sound, MPIState
    <3> QED BY <3>1, <3>2
  <2> QED BY <2>2, <2>3 DEF AttributesOwned
<1> QED BY <1>1, CommunicatorInvariant, PTL

\* Communicators and attributes have one owner each.
THEOREM OwnershipHolds == Spec => []Ownership
<1>1. OneOwner /\ AttributesOwned => Ownership
  BY DEF Ownership
<1> QED BY <1>1, OneOwnerHolds, AttributesOwnedHolds, PTL

\* Communicators have value semantics: copies are independent, moves leave null
\* behind, mutations stay where they are made (README.md:173).
THEOREM ValueSemanticsRefinement == Spec => HasValueSemantics
<1>1. CInv => Abstract!Init
  <2> SUFFICES ASSUME CInv PROVE Abstract!Init
    OBVIOUS
  <2>1. ASSUME NEW h \in Objects PROVE ObjectValues[h] \in Contents \cup {EmptyValue, NoValue}
    <3>1. CASE impl[h] \in Comms
      BY <3>1, SpecialValues, ContentIsValue DEF CInv
    <3>2. CASE impl[h] \in {Null, NoObject}
      BY <3>2, SpecialValues
    <3> QED BY <3>1, <3>2, Handles
  <2>2. ObjectValues = [h \in Objects |-> ObjectValues[h]]
    BY DEF ObjectValues
  <2> QED BY <2>1, <2>2 DEF Abstract!Init
<1> QED BY <1>1, InvInit, StepFacts, PTL DEF Spec, HasValueSemantics, Abstract!Spec
-----------------------------------------------------------------------------
(***************************************************************************)
(* Request.                                                                *)
(***************************************************************************)

\* What is not allocated is as MPI left it, and what is has a buffer.
Slots ==
    \A r \in Waiting!Requests :
        /\ op[r].state = "free" => op[r] = Waiting!Free
        /\ op[r].state # "free" => op[r].buffer \in Buffers

\* A request has one holder at most.
Single == \A h, k \in Posters : handle[h] \in Waiting!Requests /\ handle[h] = handle[k] => h = k

\* A request has a holder unless the call under way will free it.
Kept ==
    \A r \in Waiting!Requests :
        op[r].state # "free" /\ (r \in awaited => op[r].persistent /\ r \notin dropped)
          => \E h \in Posters : handle[h] = r

\* The call under way waits for allocated requests, and frees what nobody holds.
Pending ==
    /\ \A r \in awaited : op[r].state # "free"
    /\ \A h \in Posters : handle[h] \notin dropped

\* The program's record of each object.
Record ==
    \A h \in Posters :
        /\ handle[h] \in Waiting!Requests /\ Waiting!Active(handle[h]) => uses[h] = op[handle[h]].buffer
        /\ ~(handle[h] \in Waiting!Requests /\ Waiting!Active(handle[h])) => uses[h] = NoBuffer

OneUse ==
    \A r, s \in Waiting!Requests : Waiting!Active(r) /\ Waiting!Active(s) /\ op[r].buffer = op[s].buffer => r = s

AtEnd == scope = "left" => awaited = {} /\ \A h \in Posters : handle[h] = Waiting!NoObject

RInv ==
    /\ Waiting!TypeOK /\ Slots /\ Single /\ Kept /\ Pending /\ Record /\ OneUse
    /\ CallsDefined /\ AtEnd
-----------------------------------------------------------------------------
\* The special values are special.
LEMMA RequestHandles ==
    /\ Waiting!Null \notin Waiting!Requests /\ Waiting!NoObject \notin Waiting!Requests
    /\ NoBuffer \notin Buffers
BY BufferAssumption, RequestAssumption DEF Waiting!Null, Waiting!NoObject, Waiting!Requests

\* When no call is under way, what is active is held and recorded.
LEMMA Recorded ==
    ASSUME RInv, awaited = {}, NEW r \in Waiting!Requests, Waiting!Active(r)
    PROVE  \E h \in Posters : handle[h] = r /\ uses[h] = op[r].buffer
<1>1. op[r].state # "free"
  BY DEF Waiting!Active
<1>2. PICK h \in Posters : handle[h] = r
  BY <1>1 DEF RInv, Kept
<1> QED BY <1>2 DEF RInv, Record

\* The peers take part.
LEMMA CompleteKeeps ==
    ASSUME RInv, NEW r \in Waiting!Requests, Waiting!Complete(r)
    PROVE  RInv'
<1>1. /\ op[r].state = "active" /\ op' = [op EXCEPT ![r].state = "complete"]
      /\ handle' = handle /\ awaited' = awaited /\ dropped' = dropped
      /\ uses' = uses /\ outcome' = outcome /\ scope' = scope
  BY DEF Waiting!Complete
<1>2. Waiting!TypeOK
  BY DEF RInv
<1>3. op \in [Waiting!Requests -> Waiting!Ops] /\ op[r] \in Waiting!Ops
  BY <1>2 DEF Waiting!TypeOK
<1>4. /\ op' \in [Waiting!Requests -> Waiting!Ops]
      /\ op'[r].state = "complete" /\ op'[r].persistent = op[r].persistent
      /\ op'[r].buffer = op[r].buffer
      /\ \A s \in Waiting!Requests : s # r => op'[s] = op[s]
  <2>1. op'[r] = [op[r] EXCEPT !.state = "complete"] /\ op'[r] \in Waiting!Ops
    BY <1>1, <1>3 DEF Waiting!Ops
  <2> QED BY <2>1, <1>1, <1>3 DEF Waiting!Ops
<1>5. /\ \A s \in Waiting!Requests : op'[s].state = "free" <=> op[s].state = "free"
      /\ \A s \in Waiting!Requests : Waiting!Active(s)' <=> Waiting!Active(s)
      /\ \A s \in Waiting!Requests : op'[s].buffer = op[s].buffer /\ op'[s].persistent = op[s].persistent
      /\ \A s \in Waiting!Requests : op'[s].state = "free" => op'[s] = op[s]
  BY <1>1, <1>4 DEF Waiting!Active
<1>6. Waiting!TypeOK'
  BY <1>1, <1>2, <1>4, <1>5 DEF Waiting!TypeOK
<1>7. Slots' /\ Single' /\ Kept'
  BY <1>1, <1>5 DEF RInv, Slots, Single, Kept
<1>8. Pending'
  BY <1>1, <1>2, <1>5 DEF RInv, Pending, Waiting!TypeOK
<1>9. Record' /\ OneUse'
  <2>1. OneUse'
    BY <1>5 DEF RInv, OneUse
  <2>2. Record'
    BY <1>1, <1>5 DEF RInv, Record, Waiting!Active
  <2> QED BY <2>1, <2>2
<1>10. CallsDefined' /\ AtEnd'
  BY <1>1 DEF RInv, CallsDefined, Waiting!CallsDefined, AtEnd
<1> QED BY <1>6, <1>7, <1>8, <1>9, <1>10 DEF RInv

\* A new request o takes the place of the one that h held, if it held one.
LEMMA NewKeeps ==
    ASSUME RInv, Waiting!Ready, Waiting!FreshRequests # {}, NEW h \in Posters, NEW o \in Waiting!Ops,
           o.state # "free", o.buffer \in Buffers,
           o.state \in {"active", "complete"} => \A k \in Posters : uses[k] # o.buffer,
           op' = [op EXCEPT ![Waiting!NewRequest] = o],
           handle' = [handle EXCEPT ![h] = Waiting!NewRequest],
           uses' = [uses EXCEPT ![h] = IF o.state \in {"active", "complete"}
                                       THEN o.buffer ELSE NoBuffer],
           Waiting!Release(h), outcome' = outcome, scope' = scope
    PROVE  RInv'
<1>1. PICK r \in Waiting!Requests : r = Waiting!NewRequest /\ op[r].state = "free"
  BY DEF Waiting!NewRequest, Waiting!FreshRequests
<1>2. Waiting!TypeOK /\ awaited = {} /\ scope = "open"
  BY DEF RInv, Waiting!Ready
<1>3. /\ handle \in [Posters -> Waiting!Requests \cup {Waiting!Null, Waiting!NoObject}] /\ op \in [Waiting!Requests -> Waiting!Ops]
      /\ uses \in [Posters -> Buffers \cup {NoBuffer}]
  BY <1>2 DEF Waiting!TypeOK
<1>4. /\ handle'[h] = r /\ \A k \in Posters : k # h => handle'[k] = handle[k] /\ uses'[k] = uses[k]
      /\ op'[r] = o /\ \A s \in Waiting!Requests : s # r => op'[s] = op[s]
      /\ uses'[h] = IF o.state \in {"active", "complete"} THEN o.buffer ELSE NoBuffer
  BY <1>1, <1>3
<1>5. \A k \in Posters : handle[k] # r
  BY <1>1, <1>2 DEF Waiting!TypeOK
<1>6. awaited' = {handle[h]} \cap Waiting!Requests /\ dropped' = {handle[h]} \cap Waiting!Requests
  BY DEF Waiting!Release, Waiting!HeldBy
<1>7. Waiting!TypeOK'
  <2>1. handle' \in [Posters -> Waiting!Requests \cup {Waiting!Null, Waiting!NoObject}] /\ op' \in [Waiting!Requests -> Waiting!Ops]
    BY <1>1, <1>3
  <2>2. uses' \in [Posters -> Buffers \cup {NoBuffer}]
    BY <1>3
  <2>3. \A k \in Posters : handle'[k] \in Waiting!Requests => op'[handle'[k]].state # "free"
    BY <1>2, <1>4, <1>5 DEF Waiting!TypeOK
  <2> QED BY <2>1, <2>2, <2>3, <1>2, <1>6 DEF Waiting!TypeOK
<1>8. Slots' /\ Single'
  <2>1. Slots'
    BY <1>4 DEF RInv, Slots
  <2>2. Single'
    BY <1>4, <1>5 DEF RInv, Single
  <2> QED BY <2>1, <2>2
<1>9. Kept'
  <2>1. ASSUME NEW s \in Waiting!Requests, op'[s].state # "free",
               s \in awaited' => op'[s].persistent /\ s \notin dropped'
        PROVE  \E k \in Posters : handle'[k] = s
    <3>1. CASE s = r
      BY <3>1, <1>4
    <3>2. CASE s # r
      <4>1. PICK k \in Posters : handle[k] = s
        BY <2>1, <3>2, <1>2, <1>4 DEF RInv, Kept
      <4>2. k # h
        BY <2>1, <4>1, <1>6
      <4> QED BY <4>1, <4>2, <1>4
    <3> QED BY <3>1, <3>2
  <2> QED BY <2>1 DEF Kept
<1>10. Pending'
  <2>1. \A s \in awaited' : s # r /\ op'[s].state # "free"
    BY <1>2, <1>4, <1>5, <1>6 DEF Waiting!TypeOK
  <2>2. \A k \in Posters : handle'[k] \notin dropped'
    BY <1>4, <1>5, <1>6 DEF RInv, Single
  <2> QED BY <2>1, <2>2 DEF Pending
<1>11. Record'
  <2>1. ASSUME NEW k \in Posters
        PROVE  /\ handle'[k] \in Waiting!Requests /\ op'[handle'[k]].state \in {"active", "complete"}
                     => uses'[k] = op'[handle'[k]].buffer
               /\ ~(handle'[k] \in Waiting!Requests /\ op'[handle'[k]].state \in {"active", "complete"})
                     => uses'[k] = NoBuffer
    <3>1. CASE k = h
      BY <3>1, <1>4
    <3>2. CASE k # h
      BY <3>2, <1>4, <1>5 DEF RInv, Record, Waiting!Active
    <3> QED BY <3>1, <3>2
  <2> QED BY <2>1 DEF Record, Waiting!Active
<1>12. OneUse'
  <2>1. ASSUME NEW s \in Waiting!Requests, s # r, op'[s].state \in {"active", "complete"},
               o.state \in {"active", "complete"}
        PROVE  op'[s].buffer # o.buffer
    <3>1. \E k \in Posters : uses[k] = op[s].buffer
      BY <2>1, <1>2, <1>4, Recorded DEF Waiting!Active
    <3> QED BY <2>1, <3>1, <1>4
  <2>2. \A s, t \in Waiting!Requests : s # r /\ t # r /\ op'[s].state \in {"active", "complete"}
            /\ op'[t].state \in {"active", "complete"} /\ op'[s].buffer = op'[t].buffer => s = t
    BY <1>4 DEF RInv, OneUse, Waiting!Active
  <2> QED BY <2>1, <2>2, <1>4 DEF OneUse, Waiting!Active
<1>13. CallsDefined' /\ AtEnd'
  BY <1>2 DEF RInv, CallsDefined, Waiting!CallsDefined, AtEnd
<1> QED BY <1>7, <1>8, <1>9, <1>10, <1>11, <1>12, <1>13 DEF RInv

\* An operation is posted.
LEMMA PostKeeps ==
    ASSUME RInv, NEW h \in Posters, NEW b \in Buffers, Waiting!Post(h, b)
    PROVE  RInv'
<1>1. PICK o : o = [state |-> "active", persistent |-> FALSE, buffer |-> b]
  OBVIOUS
<1>2. o \in Waiting!Ops /\ o.state = "active" /\ o.buffer = b
  BY <1>1 DEF Waiting!Ops
<1>3. /\ Waiting!Ready /\ Waiting!FreshRequests # {} /\ \A k \in Posters : uses[k] # b
      /\ op' = [op EXCEPT ![Waiting!NewRequest] = o] /\ handle' = [handle EXCEPT ![h] = Waiting!NewRequest]
      /\ uses' = [uses EXCEPT ![h] = b] /\ Waiting!Release(h) /\ outcome' = outcome /\ scope' = scope
  BY <1>1 DEF Waiting!Post
<1>4. uses' = [uses EXCEPT ![h] = IF o.state \in {"active", "complete"} THEN o.buffer ELSE NoBuffer]
  BY <1>2, <1>3
<1> QED BY <1>2, <1>3, <1>4, NewKeeps

\* A persistent request is made.
LEMMA PostPersistentKeeps ==
    ASSUME RInv, NEW h \in Posters, NEW b \in Buffers, Waiting!PostPersistent(h, b)
    PROVE  RInv'
<1>1. PICK o : o = [state |-> "inactive", persistent |-> TRUE, buffer |-> b]
  OBVIOUS
<1>2. o \in Waiting!Ops /\ o.state = "inactive" /\ o.buffer = b
  BY <1>1 DEF Waiting!Ops
<1>3. /\ Waiting!Ready /\ Waiting!FreshRequests # {}
      /\ op' = [op EXCEPT ![Waiting!NewRequest] = o] /\ handle' = [handle EXCEPT ![h] = Waiting!NewRequest]
      /\ uses' = [uses EXCEPT ![h] = NoBuffer] /\ Waiting!Release(h) /\ outcome' = outcome /\ scope' = scope
  BY <1>1 DEF Waiting!PostPersistent
<1>4. uses' = [uses EXCEPT ![h] = IF o.state \in {"active", "complete"} THEN o.buffer ELSE NoBuffer]
  BY <1>2, <1>3
<1> QED BY <1>2, <1>3, <1>4, NewKeeps

\* A persistent request is started.
LEMMA StartKeeps ==
    ASSUME RInv, NEW h \in Posters, Waiting!Start(h)
    PROVE  RInv'
<1>1. PICK r \in Waiting!Requests : r = handle[h] /\ op[r].state = "inactive"
  BY DEF Waiting!Start, Waiting!Holds
<1>2. /\ awaited = {} /\ scope = "open" /\ \A k \in Posters : uses[k] # op[r].buffer
      /\ op' = [op EXCEPT ![r].state = "active"] /\ uses' = [uses EXCEPT ![h] = op[r].buffer]
      /\ handle' = handle /\ awaited' = awaited /\ dropped' = dropped
      /\ outcome' = outcome /\ scope' = scope
  BY <1>1 DEF Waiting!Start, Waiting!Ready
<1>3. Waiting!TypeOK
  BY DEF RInv
<1>4. op \in [Waiting!Requests -> Waiting!Ops] /\ op[r] \in Waiting!Ops /\ uses \in [Posters -> Buffers \cup {NoBuffer}]
  BY <1>3 DEF Waiting!TypeOK
<1>5. /\ op' \in [Waiting!Requests -> Waiting!Ops]
      /\ op'[r].state = "active" /\ op'[r].persistent = op[r].persistent
      /\ op'[r].buffer = op[r].buffer
      /\ \A s \in Waiting!Requests : s # r => op'[s] = op[s]
  <2>1. op'[r] = [op[r] EXCEPT !.state = "active"] /\ op'[r] \in Waiting!Ops
    BY <1>2, <1>4 DEF Waiting!Ops
  <2> QED BY <2>1, <1>2, <1>4 DEF Waiting!Ops
<1>6. /\ op[r].buffer \in Buffers
      /\ \A k \in Posters : k # h => uses'[k] = uses[k] /\ handle[k] # r
      /\ uses'[h] = op[r].buffer
  BY <1>1, <1>2, <1>4 DEF RInv, Slots, Single
<1>7. Waiting!TypeOK'
  <2>1. \A k \in Posters : handle'[k] \in Waiting!Requests => op'[handle'[k]].state # "free"
    BY <1>2, <1>3, <1>5 DEF Waiting!TypeOK
  <2>2. uses' \in [Posters -> Buffers \cup {NoBuffer}]
    BY <1>2, <1>4, <1>6
  <2> QED BY <2>1, <2>2, <1>2, <1>3, <1>5 DEF Waiting!TypeOK
<1>8. Slots' /\ Single'
  BY <1>2, <1>5, <1>6 DEF RInv, Slots, Single
<1>9. Kept' /\ Pending'
  <2>1. Kept'
    BY <1>1, <1>2, <1>5 DEF RInv, Kept
  <2>2. Pending'
    BY <1>2 DEF RInv, Pending
  <2> QED BY <2>1, <2>2
<1>10. Record'
  <2>1. ASSUME NEW k \in Posters
        PROVE  /\ handle'[k] \in Waiting!Requests /\ op'[handle'[k]].state \in {"active", "complete"}
                     => uses'[k] = op'[handle'[k]].buffer
               /\ ~(handle'[k] \in Waiting!Requests /\ op'[handle'[k]].state \in {"active", "complete"})
                     => uses'[k] = NoBuffer
    <3>1. CASE k = h
      BY <3>1, <1>1, <1>2, <1>5, <1>6
    <3>2. CASE k # h
      BY <3>2, <1>2, <1>5, <1>6 DEF RInv, Record, Waiting!Active
    <3> QED BY <3>1, <3>2
  <2> QED BY <2>1 DEF Record, Waiting!Active
<1>11. OneUse'
  <2>1. ASSUME NEW s \in Waiting!Requests, s # r, op'[s].state \in {"active", "complete"}
        PROVE  op'[s].buffer # op[r].buffer
    <3>1. \E k \in Posters : uses[k] = op[s].buffer
      BY <2>1, <1>2, <1>5, Recorded DEF Waiting!Active
    <3> QED BY <2>1, <3>1, <1>2, <1>5
  <2>2. \A s, t \in Waiting!Requests : s # r /\ t # r /\ op'[s].state \in {"active", "complete"}
            /\ op'[t].state \in {"active", "complete"} /\ op'[s].buffer = op'[t].buffer => s = t
    BY <1>5 DEF RInv, OneUse, Waiting!Active
  <2> QED BY <2>1, <2>2, <1>5 DEF OneUse, Waiting!Active
<1>12. CallsDefined' /\ AtEnd'
  BY <1>2 DEF RInv, CallsDefined, Waiting!CallsDefined, AtEnd
<1> QED BY <1>7, <1>8, <1>9, <1>10, <1>11, <1>12 DEF RInv

\* An object takes another's request.
LEMMA MoveKeeps ==
    ASSUME RInv, NEW h \in Posters, NEW g \in Posters, Waiting!Move(h, g)
    PROVE  RInv'
<1>1. /\ awaited = {} /\ scope = "open" /\ h # g
      /\ handle' = [handle EXCEPT ![h] = handle[g], ![g] = Waiting!Null]
      /\ uses' = [uses EXCEPT ![h] = uses[g], ![g] = NoBuffer]
      /\ awaited' = {handle[h]} \cap Waiting!Requests /\ dropped' = {handle[h]} \cap Waiting!Requests
      /\ op' = op /\ outcome' = outcome /\ scope' = scope
  BY DEF Waiting!Move, Waiting!Ready, Waiting!Release, Waiting!HeldBy
<1>2. Waiting!TypeOK
  BY DEF RInv
<1>3. /\ handle'[h] = handle[g] /\ handle'[g] = Waiting!Null
      /\ uses'[h] = uses[g] /\ uses'[g] = NoBuffer
      /\ \A k \in Posters : k # h /\ k # g => handle'[k] = handle[k] /\ uses'[k] = uses[k]
  BY <1>1, <1>2 DEF Waiting!TypeOK
<1>4. Waiting!TypeOK'
  <2>1. /\ handle' \in [Posters -> Waiting!Requests \cup {Waiting!Null, Waiting!NoObject}]
        /\ uses' \in [Posters -> Buffers \cup {NoBuffer}]
    BY <1>1, <1>2 DEF Waiting!TypeOK
  <2>2. \A k \in Posters : handle'[k] \in Waiting!Requests => op[handle'[k]].state # "free"
    BY <1>2, <1>3, RequestHandles DEF Waiting!TypeOK
  <2> QED BY <2>1, <2>2, <1>1, <1>2 DEF Waiting!TypeOK
<1>5. Slots' /\ Single'
  <2>1. Slots'
    BY <1>1 DEF RInv, Slots
  <2>2. Single'
    BY <1>3, RequestHandles DEF RInv, Single
  <2> QED BY <2>1, <2>2
<1>6. Kept'
  <2>1. ASSUME NEW s \in Waiting!Requests, op[s].state # "free",
               s \in awaited' => op[s].persistent /\ s \notin dropped'
        PROVE  \E k \in Posters : handle'[k] = s
    <3>1. PICK k \in Posters : handle[k] = s
      BY <2>1, <1>1 DEF RInv, Kept
    <3>2. k # h
      BY <2>1, <3>1, <1>1
    <3> QED BY <3>1, <3>2, <1>3
  <2> QED BY <2>1, <1>1 DEF Kept
<1>7. Pending'
  <2>1. \A s \in awaited' : op[s].state # "free"
    BY <1>1, <1>2 DEF Waiting!TypeOK
  <2>2. ASSUME NEW k \in Posters, handle'[k] = handle[h], handle[h] \in Waiting!Requests
        PROVE  FALSE
    <3>1. CASE k = h
      BY <2>2, <3>1, <1>1, <1>3 DEF RInv, Single
    <3>2. CASE k = g
      BY <2>2, <3>2, <1>3, RequestHandles
    <3>3. CASE k # h /\ k # g
      BY <2>2, <3>3, <1>3 DEF RInv, Single
    <3> QED BY <3>1, <3>2, <3>3
  <2>3. \A k \in Posters : handle'[k] \notin dropped'
    <3>1. ASSUME NEW k \in Posters, handle'[k] \in dropped'
          PROVE  handle'[k] = handle[h] /\ handle[h] \in Waiting!Requests
      BY <3>1, <1>1
    <3> QED BY <3>1, <2>2
  <2> QED BY <2>1, <2>3, <1>1 DEF Pending
<1>8. Record'
  <2>1. \A k \in Posters :
           /\ handle[k] \in Waiting!Requests /\ op[handle[k]].state \in {"active", "complete"}
                 => uses[k] = op[handle[k]].buffer
           /\ ~(handle[k] \in Waiting!Requests /\ op[handle[k]].state \in {"active", "complete"})
                 => uses[k] = NoBuffer
    BY DEF RInv, Record, Waiting!Active
  <2>2. ASSUME NEW k \in Posters
        PROVE  /\ handle'[k] \in Waiting!Requests /\ op[handle'[k]].state \in {"active", "complete"}
                     => uses'[k] = op[handle'[k]].buffer
               /\ ~(handle'[k] \in Waiting!Requests /\ op[handle'[k]].state \in {"active", "complete"})
                     => uses'[k] = NoBuffer
    <3>1. CASE k = h
      BY <1>3, <2>1, <3>1
    <3>2. CASE k = g
      BY <1>3, <2>1, <3>2, RequestHandles
    <3>3. CASE k # h /\ k # g
      BY <1>3, <2>1, <3>3
    <3> QED BY <3>1, <3>2, <3>3
  <2> QED BY <1>1, <2>2 DEF Record, Waiting!Active
<1>9. OneUse' /\ CallsDefined' /\ AtEnd'
  BY <1>1 DEF RInv, OneUse, CallsDefined, Waiting!CallsDefined, AtEnd, Waiting!Active
<1> QED BY <1>4, <1>5, <1>6, <1>7, <1>8, <1>9 DEF RInv

\* Two objects swap their requests.
LEMMA SwapKeeps ==
    ASSUME RInv, NEW h \in Posters, NEW g \in Posters, Waiting!Swap(h, g)
    PROVE  RInv'
<1>1. /\ awaited = {} /\ scope = "open"
      /\ handle' = [handle EXCEPT ![h] = handle[g], ![g] = handle[h]]
      /\ uses' = [uses EXCEPT ![h] = uses[g], ![g] = uses[h]]
      /\ op' = op /\ awaited' = awaited /\ dropped' = dropped
      /\ outcome' = outcome /\ scope' = scope
  BY DEF Waiting!Swap, Waiting!Ready
<1>2. Waiting!TypeOK
  BY DEF RInv
<1>3. /\ handle'[h] = handle[g] /\ handle'[g] = handle[h]
      /\ uses'[h] = uses[g] /\ uses'[g] = uses[h]
      /\ \A k \in Posters : k # h /\ k # g => handle'[k] = handle[k] /\ uses'[k] = uses[k]
  BY <1>1, <1>2 DEF Waiting!TypeOK
<1>4. Waiting!TypeOK'
  <2>1. /\ handle' \in [Posters -> Waiting!Requests \cup {Waiting!Null, Waiting!NoObject}]
        /\ uses' \in [Posters -> Buffers \cup {NoBuffer}]
    BY <1>1, <1>2 DEF Waiting!TypeOK
  <2>2. \A k \in Posters : handle'[k] \in Waiting!Requests => op[handle'[k]].state # "free"
    BY <1>2, <1>3 DEF Waiting!TypeOK
  <2> QED BY <2>1, <2>2, <1>1, <1>2 DEF Waiting!TypeOK
<1>5. Slots' /\ Single'
  <2>1. Slots'
    BY <1>1 DEF RInv, Slots
  <2>2. Single'
    BY <1>3 DEF RInv, Single
  <2> QED BY <2>1, <2>2
<1>6. Kept' /\ Pending'
  <2>1. ASSUME NEW r \in Waiting!Requests, NEW k \in Posters, handle[k] = r
        PROVE  \E l \in Posters : handle'[l] = r
    <3>1. CASE k = h
      BY <2>1, <3>1, <1>3
    <3>2. CASE k = g
      BY <2>1, <3>2, <1>3
    <3>3. CASE k # h /\ k # g
      BY <2>1, <3>3, <1>3
    <3> QED BY <3>1, <3>2, <3>3
  <2>2. Kept'
    <3>1. ASSUME NEW r \in Waiting!Requests, op[r].state # "free"
          PROVE  \E l \in Posters : handle'[l] = r
      BY <2>1, <3>1, <1>1 DEF RInv, Kept
    <3> QED BY <3>1, <1>1 DEF Kept
  <2>3. Pending'
    <3>1. awaited' = {} /\ dropped' = {}
      BY <1>1, <1>2 DEF Waiting!TypeOK
    <3> QED BY <3>1 DEF Pending
  <2> QED BY <2>2, <2>3
<1>7. Record'
  <2>1. \A k \in Posters :
           /\ handle[k] \in Waiting!Requests /\ op[handle[k]].state \in {"active", "complete"}
                 => uses[k] = op[handle[k]].buffer
           /\ ~(handle[k] \in Waiting!Requests /\ op[handle[k]].state \in {"active", "complete"})
                 => uses[k] = NoBuffer
    BY DEF RInv, Record, Waiting!Active
  <2>2. ASSUME NEW k \in Posters
        PROVE  /\ handle'[k] \in Waiting!Requests /\ op[handle'[k]].state \in {"active", "complete"}
                     => uses'[k] = op[handle'[k]].buffer
               /\ ~(handle'[k] \in Waiting!Requests /\ op[handle'[k]].state \in {"active", "complete"})
                     => uses'[k] = NoBuffer
    <3>1. CASE k = h
      BY <1>3, <2>1, <3>1
    <3>2. CASE k = g
      BY <1>3, <2>1, <3>2
    <3>3. CASE k # h /\ k # g
      BY <1>3, <2>1, <3>3
    <3> QED BY <3>1, <3>2, <3>3
  <2> QED BY <1>1, <2>2 DEF Record, Waiting!Active
<1>8. OneUse' /\ CallsDefined' /\ AtEnd'
  BY <1>1 DEF RInv, OneUse, CallsDefined, Waiting!CallsDefined, AtEnd, Waiting!Active
<1> QED BY <1>4, <1>5, <1>6, <1>7, <1>8 DEF RInv

\* A call waits for requests W that are held.
LEMMA WaitForKeeps ==
    ASSUME RInv, Waiting!Ready, NEW W \in SUBSET Waiting!Requests,
           \A r \in W : \E h \in Posters : handle[h] = r,
           awaited' = W, handle' = handle, op' = op, dropped' = dropped, uses' = uses,
           outcome' = outcome, scope' = scope
    PROVE  RInv'
<1>1. Waiting!TypeOK /\ awaited = {} /\ scope = "open" /\ dropped = {}
  BY DEF RInv, Waiting!Ready, Waiting!TypeOK
<1>2. Waiting!TypeOK'
  BY <1>1 DEF Waiting!TypeOK
<1>3. Slots' /\ Single' /\ Kept'
  BY <1>1 DEF RInv, Slots, Single, Kept
<1>4. Pending'
  BY <1>1 DEF Pending, Waiting!TypeOK
<1>5. Record' /\ OneUse' /\ CallsDefined' /\ AtEnd'
  BY <1>1 DEF RInv, Record, OneUse, Waiting!Active, CallsDefined, Waiting!CallsDefined, AtEnd
<1> QED BY <1>2, <1>3, <1>4, <1>5 DEF RInv

LEMMA WaitKeeps ==
    ASSUME RInv, NEW h \in Posters, Waiting!Wait(h)
    PROVE  RInv'
BY WaitForKeeps DEF Waiting!Wait, Waiting!HeldBy

LEMMA WaitAllKeeps ==
    ASSUME RInv, Waiting!WaitAll
    PROVE  RInv'
BY WaitForKeeps DEF Waiting!WaitAll, Waiting!HeldBy

\* The handles of objects S are taken out of them and waited for.
LEMMA WaitArgsKeeps ==
    ASSUME RInv, NEW S \in SUBSET Posters, Waiting!WaitArgs(S)
    PROVE  RInv'
<1>1. /\ awaited = {} /\ scope = "open"
      /\ \A h \in S : handle[h] \in Waiting!Requests => ~op[handle[h]].persistent
      /\ awaited' \subseteq Waiting!Requests
      /\ \A r \in Waiting!Requests : r \in awaited' <=> \E h \in S : handle[h] = r
      /\ handle' = [h \in Posters |-> IF h \in S THEN Waiting!Null ELSE handle[h]]
      /\ uses' = [h \in Posters |-> IF h \in S THEN NoBuffer ELSE uses[h]]
      /\ op' = op /\ dropped' = dropped /\ outcome' = outcome /\ scope' = scope
  BY DEF Waiting!WaitArgs, Waiting!Ready, Waiting!HeldBy, Waiting!Strike
<1>2. Waiting!TypeOK /\ dropped = {}
  BY <1>1 DEF RInv, Waiting!TypeOK
<1>3. Waiting!TypeOK'
  <2>1. /\ handle' \in [Posters -> Waiting!Requests \cup {Waiting!Null, Waiting!NoObject}]
        /\ uses' \in [Posters -> Buffers \cup {NoBuffer}]
    BY <1>1, <1>2 DEF Waiting!TypeOK
  <2>2. \A k \in Posters : handle'[k] \in Waiting!Requests => op[handle'[k]].state # "free"
    BY <1>1, <1>2, RequestHandles DEF Waiting!TypeOK
  <2> QED BY <2>1, <2>2, <1>1, <1>2 DEF Waiting!TypeOK
<1>4. Slots' /\ Single'
  BY <1>1, RequestHandles DEF RInv, Slots, Single
<1>5. Kept'
  <2>1. ASSUME NEW s \in Waiting!Requests, op[s].state # "free", s \notin awaited'
        PROVE  \E k \in Posters : handle'[k] = s
    <3>1. PICK k \in Posters : handle[k] = s
      BY <2>1, <1>1 DEF RInv, Kept
    <3> QED BY <2>1, <3>1, <1>1
  <2>2. \A s \in awaited' : ~op[s].persistent
    BY <1>1
  <2> QED BY <2>1, <2>2, <1>1 DEF Kept
<1>6. Pending'
  <2>1. \A s \in awaited' : op[s].state # "free"
    BY <1>1, <1>2 DEF Waiting!TypeOK
  <2> QED BY <2>1, <1>1, <1>2 DEF Pending
<1>7. Record'
  BY <1>1, RequestHandles DEF RInv, Record, Waiting!Active
<1>8. OneUse' /\ CallsDefined' /\ AtEnd'
  BY <1>1 DEF RInv, OneUse, CallsDefined, Waiting!CallsDefined, AtEnd, Waiting!Active
<1> QED BY <1>3, <1>4, <1>5, <1>6, <1>7, <1>8 DEF RInv

\* The call returns.
LEMMA ReturnKeeps ==
    ASSUME RInv, Waiting!Return
    PROVE  RInv'
<1>1. /\ \A r \in awaited : op[r].state \in {"complete", "inactive"}
      /\ op' = [r \in Waiting!Requests |-> IF r \in dropped THEN Waiting!Free
                                           ELSE IF r \in awaited THEN Waiting!Collected(op[r]) ELSE op[r]]
      /\ handle' = [h \in Posters |-> IF handle[h] \in awaited THEN Waiting!Handle(handle[h]) ELSE handle[h]]
      /\ uses' = [h \in Posters |-> IF handle[h] \in awaited THEN NoBuffer ELSE uses[h]]
      /\ awaited # {} /\ awaited' = {} /\ dropped' = {}
      /\ outcome' = outcome /\ scope' = scope
  BY DEF Waiting!Return, Waiting!Done, Waiting!Strike
<1>2. /\ Waiting!TypeOK /\ awaited \subseteq Waiting!Requests /\ dropped \subseteq awaited
      /\ op \in [Waiting!Requests -> Waiting!Ops]
  BY DEF RInv, Waiting!TypeOK
<1>3. ASSUME NEW r \in Waiting!Requests
      PROVE  /\ op'[r] \in Waiting!Ops
             /\ r \notin awaited => op'[r] = op[r]
             /\ r \in awaited /\ op[r].persistent /\ r \notin dropped =>
                   /\ op'[r].state = "inactive" /\ op'[r].buffer = op[r].buffer
                   /\ op'[r].persistent
             /\ r \in awaited /\ ~(op[r].persistent /\ r \notin dropped) => op'[r] = Waiting!Free
  <2>1. op[r] \in Waiting!Ops /\ Waiting!Free \in Waiting!Ops
    BY <1>2 DEF Waiting!Free, Waiting!Ops
  <2>2. PICK o : o = [op[r] EXCEPT !.state = "inactive"]
    OBVIOUS
  <2>3. o \in Waiting!Ops /\ o.state = "inactive" /\ o.buffer = op[r].buffer /\ o.persistent = op[r].persistent
    BY <2>1, <2>2 DEF Waiting!Ops
  <2>4. op'[r] = IF r \in dropped THEN Waiting!Free
                 ELSE IF r \in awaited THEN (IF op[r].persistent THEN o ELSE Waiting!Free) ELSE op[r]
    BY <1>1, <2>2 DEF Waiting!Collected
  <2> QED BY <2>1, <2>3, <2>4, <1>2
<1>4. ASSUME NEW h \in Posters, handle[h] \in awaited
      PROVE  /\ op[handle[h]].persistent => handle'[h] = handle[h]
             /\ ~op[handle[h]].persistent => handle'[h] = Waiting!Null
             /\ uses'[h] = NoBuffer /\ handle[h] \notin dropped /\ handle[h] \in Waiting!Requests
  BY <1>1, <1>2, <1>4 DEF Waiting!Handle, RInv, Pending
<1>5. ASSUME NEW h \in Posters, handle[h] \notin awaited
      PROVE  handle'[h] = handle[h] /\ uses'[h] = uses[h]
  BY <1>1, <1>5
<1>6. Waiting!Free.state = "free"
  BY DEF Waiting!Free
<1>7. ASSUME NEW h \in Posters, handle'[h] \in Waiting!Requests
      PROVE  /\ handle'[h] = handle[h] /\ op'[handle[h]].state # "free"
             /\ handle[h] \in awaited => op'[handle[h]].state = "inactive"
             /\ handle[h] \notin awaited => op'[handle[h]] = op[handle[h]]
  <2>1. CASE handle[h] \in awaited
    BY <2>1, <1>3, <1>4, <1>7, RequestHandles
  <2>2. CASE handle[h] \notin awaited
    BY <2>2, <1>2, <1>3, <1>5, <1>7 DEF Waiting!TypeOK
  <2> QED BY <2>1, <2>2
<1>8. Waiting!TypeOK'
  <2>1. op' \in [Waiting!Requests -> Waiting!Ops]
    BY <1>1, <1>3
  <2>2. handle' \in [Posters -> Waiting!Requests \cup {Waiting!Null, Waiting!NoObject}]
    BY <1>1, <1>2 DEF Waiting!TypeOK, Waiting!Handle
  <2>3. uses' \in [Posters -> Buffers \cup {NoBuffer}]
    BY <1>1, <1>2 DEF Waiting!TypeOK
  <2> QED BY <2>1, <2>2, <2>3, <1>1, <1>2, <1>7 DEF Waiting!TypeOK
<1>9. Slots'
  <2>1. ASSUME NEW r \in Waiting!Requests
        PROVE  /\ op'[r].state = "free" => op'[r] = Waiting!Free
               /\ op'[r].state # "free" => op'[r].buffer \in Buffers
    <3>1. CASE r \in awaited
      BY <3>1, <1>3, <1>6 DEF RInv, Slots, Pending
    <3>2. CASE r \notin awaited
      BY <3>2, <1>3 DEF RInv, Slots
    <3> QED BY <3>1, <3>2
  <2> QED BY <2>1 DEF Slots
<1>10. Single'
  BY <1>7 DEF RInv, Single
<1>11. Kept' /\ Pending'
  <2>1. ASSUME NEW r \in Waiting!Requests, op'[r].state # "free"
        PROVE  \E h \in Posters : handle'[h] = r
    <3>1. op[r].state # "free" /\ (r \in awaited => op[r].persistent /\ r \notin dropped)
      BY <2>1, <1>3, <1>6 DEF RInv, Pending
    <3>2. PICK h \in Posters : handle[h] = r
      BY <3>1 DEF RInv, Kept
    <3> QED BY <3>1, <3>2, <1>4, <1>5
  <2>2. Kept'
    BY <2>1 DEF Kept
  <2> QED BY <2>2, <1>1 DEF Pending
<1>12. Record'
  <2>1. ASSUME NEW h \in Posters
        PROVE  /\ handle'[h] \in Waiting!Requests /\ op'[handle'[h]].state \in {"active", "complete"}
                     => uses'[h] = op'[handle'[h]].buffer
               /\ ~(handle'[h] \in Waiting!Requests /\ op'[handle'[h]].state \in {"active", "complete"})
                     => uses'[h] = NoBuffer
    <3>1. CASE handle[h] \in awaited
      BY <3>1, <1>4, <1>7
    <3>2. CASE handle[h] \notin awaited
      <4>1. handle'[h] = handle[h] /\ uses'[h] = uses[h]
        BY <3>2, <1>5
      <4>2. handle[h] \in Waiting!Requests => op'[handle[h]] = op[handle[h]]
        BY <3>2, <1>3
      <4> QED BY <4>1, <4>2 DEF RInv, Record, Waiting!Active
    <3> QED BY <3>1, <3>2
  <2> QED BY <2>1 DEF Record, Waiting!Active
<1>13. OneUse'
  <2>1. \A r \in Waiting!Requests : op'[r].state \in {"active", "complete"} => op'[r] = op[r]
    BY <1>3, <1>6
  <2> QED BY <2>1 DEF RInv, OneUse, Waiting!Active
<1>14. CallsDefined' /\ AtEnd'
  BY <1>1 DEF RInv, CallsDefined, Waiting!CallsDefined, AtEnd
<1> QED BY <1>8, <1>9, <1>10, <1>11, <1>12, <1>13, <1>14 DEF RInv

\* The completed requests of objects S are collected and struck off.
LEMMA CollectionKeeps ==
    ASSUME RInv, Waiting!Ready, NEW S \in SUBSET Waiting!Completed, Waiting!Collect(S),
           uses' = [h \in Posters |-> IF h \in S THEN NoBuffer ELSE uses[h]],
           awaited' = awaited, dropped' = dropped, outcome' = outcome, scope' = scope
    PROVE  RInv'
<1>1. /\ awaited = {} /\ scope = "open"
      /\ op' = [r \in Waiting!Requests |-> IF \E h \in S : handle[h] = r THEN Waiting!Collected(op[r]) ELSE op[r]]
      /\ handle' = [h \in Posters |-> IF h \in S THEN Waiting!Handle(handle[h]) ELSE handle[h]]
      /\ \A h \in S : h \in Posters /\ handle[h] \in Waiting!Requests /\ op[handle[h]].state = "complete"
  BY DEF Waiting!Ready, Waiting!Collect, Waiting!Completed, Waiting!Holds
<1>2. Waiting!TypeOK /\ op \in [Waiting!Requests -> Waiting!Ops] /\ dropped = {}
  BY <1>1 DEF RInv, Waiting!TypeOK
<1>3. ASSUME NEW r \in Waiting!Requests
      PROVE  /\ op'[r] \in Waiting!Ops
             /\ ~(\E h \in S : handle[h] = r) => op'[r] = op[r]
             /\ (\E h \in S : handle[h] = r) /\ op[r].persistent =>
                   op'[r].state = "inactive" /\ op'[r].buffer = op[r].buffer
             /\ (\E h \in S : handle[h] = r) /\ ~op[r].persistent => op'[r] = Waiting!Free
  <2>1. op[r] \in Waiting!Ops /\ Waiting!Free \in Waiting!Ops
    BY <1>2 DEF Waiting!Free, Waiting!Ops
  <2>2. PICK o : o = [op[r] EXCEPT !.state = "inactive"]
    OBVIOUS
  <2>3. o \in Waiting!Ops /\ o.state = "inactive" /\ o.buffer = op[r].buffer
    BY <2>1, <2>2 DEF Waiting!Ops
  <2>4. op'[r] = IF \E h \in S : handle[h] = r
                 THEN (IF op[r].persistent THEN o ELSE Waiting!Free) ELSE op[r]
    BY <1>1, <2>2 DEF Waiting!Collected
  <2> QED BY <2>1, <2>3, <2>4
<1>4. ASSUME NEW h \in Posters, h \in S
      PROVE  /\ op[handle[h]].persistent => handle'[h] = handle[h]
             /\ ~op[handle[h]].persistent => handle'[h] = Waiting!Null
             /\ uses'[h] = NoBuffer
  BY <1>1, <1>4 DEF Waiting!Handle
<1>5. ASSUME NEW h \in Posters, h \notin S
      PROVE  /\ handle'[h] = handle[h] /\ uses'[h] = uses[h]
             /\ handle[h] \in Waiting!Requests => op'[handle[h]] = op[handle[h]]
  <2>1. handle'[h] = handle[h] /\ uses'[h] = uses[h]
    BY <1>1, <1>5
  <2>2. handle[h] \in Waiting!Requests => ~(\E k \in S : handle[k] = handle[h])
    BY <1>1, <1>5 DEF RInv, Single
  <2> QED BY <2>1, <2>2, <1>3
<1>6. Waiting!Free.state = "free"
  BY DEF Waiting!Free
<1>7. ASSUME NEW h \in Posters, handle'[h] \in Waiting!Requests
      PROVE  /\ handle'[h] = handle[h] /\ op'[handle[h]].state # "free"
             /\ h \in S => op'[handle[h]].state = "inactive"
  <2>1. CASE h \in S
    BY <2>1, <1>1, <1>3, <1>4, <1>7, RequestHandles
  <2>2. CASE h \notin S
    BY <2>2, <1>2, <1>5, <1>7 DEF Waiting!TypeOK
  <2> QED BY <2>1, <2>2
<1>8. Waiting!TypeOK'
  <2>1. op' \in [Waiting!Requests -> Waiting!Ops]
    BY <1>1, <1>3
  <2>2. handle' \in [Posters -> Waiting!Requests \cup {Waiting!Null, Waiting!NoObject}]
    BY <1>1, <1>2 DEF Waiting!TypeOK, Waiting!Handle
  <2>3. uses' \in [Posters -> Buffers \cup {NoBuffer}]
    BY <1>2 DEF Waiting!TypeOK
  <2> QED BY <2>1, <2>2, <2>3, <1>2, <1>7 DEF Waiting!TypeOK
<1>9. Slots'
  <2>1. ASSUME NEW r \in Waiting!Requests
        PROVE  /\ op'[r].state = "free" => op'[r] = Waiting!Free
               /\ op'[r].state # "free" => op'[r].buffer \in Buffers
    <3>1. CASE \E h \in S : handle[h] = r
      <4>1. op[r].state = "complete" /\ op[r].buffer \in Buffers
        BY <3>1, <1>1 DEF RInv, Slots
      <4> QED BY <4>1, <3>1, <1>3, <1>6
    <3>2. CASE ~(\E h \in S : handle[h] = r)
      BY <3>2, <1>3 DEF RInv, Slots
    <3> QED BY <3>1, <3>2
  <2> QED BY <2>1 DEF Slots
<1>10. Single'
  BY <1>7 DEF RInv, Single
<1>11. Kept' /\ Pending'
  <2>1. ASSUME NEW r \in Waiting!Requests, op'[r].state # "free"
        PROVE  \E h \in Posters : handle'[h] = r
    <3>1. CASE \E h \in S : handle[h] = r
      <4>1. PICK h \in S : handle[h] = r
        BY <3>1
      <4>2. op[r].persistent
        BY <2>1, <3>1, <1>3, <1>6
      <4> QED BY <4>1, <4>2, <1>1, <1>4
    <3>2. CASE ~(\E h \in S : handle[h] = r)
      <4>1. op[r].state # "free"
        BY <2>1, <3>2, <1>3
      <4>2. PICK h \in Posters : handle[h] = r
        BY <4>1, <1>1 DEF RInv, Kept
      <4> QED BY <3>2, <4>2, <1>5
    <3> QED BY <3>1, <3>2
  <2>2. Kept'
    BY <2>1 DEF Kept
  <2> QED BY <2>2, <1>1, <1>2 DEF Pending
<1>12. Record'
  <2>1. ASSUME NEW h \in Posters
        PROVE  /\ handle'[h] \in Waiting!Requests /\ op'[handle'[h]].state \in {"active", "complete"}
                     => uses'[h] = op'[handle'[h]].buffer
               /\ ~(handle'[h] \in Waiting!Requests /\ op'[handle'[h]].state \in {"active", "complete"})
                     => uses'[h] = NoBuffer
    <3>1. CASE h \in S
      BY <3>1, <1>4, <1>7
    <3>2. CASE h \notin S
      BY <3>2, <1>5 DEF RInv, Record, Waiting!Active
    <3> QED BY <3>1, <3>2
  <2> QED BY <2>1 DEF Record, Waiting!Active
<1>13. OneUse'
  <2>1. \A r \in Waiting!Requests : op'[r].state \in {"active", "complete"} => op'[r] = op[r]
    BY <1>3, <1>6
  <2> QED BY <2>1 DEF RInv, OneUse, Waiting!Active
<1>14. CallsDefined' /\ AtEnd'
  BY <1>1 DEF RInv, CallsDefined, Waiting!CallsDefined, AtEnd
<1> QED BY <1>8, <1>9, <1>10, <1>11, <1>12, <1>13, <1>14 DEF RInv

\* A program that asks by its record asks while something is under way.
LEMMA AsksWell ==
    ASSUME RInv, Waiting!Believes
    PROVE  Waiting!SomeActive
<1>1. PICK h \in Posters : uses[h] # NoBuffer
  BY DEF Waiting!Believes
<1>2. handle[h] \in Waiting!Requests /\ Waiting!Active(handle[h])
  BY <1>1 DEF RInv, Record
<1> QED BY <1>2 DEF Waiting!SomeActive, Waiting!HeldBy

\* Waiting for any or some, or asking for those that completed.
LEMMA SomeKeeps ==
    ASSUME RInv, Waiting!WaitAny \/ Waiting!WaitSome \/ Waiting!CompletedSome
    PROVE  RInv'
<1>1. Waiting!Asks
  BY DEF Waiting!WaitAny, Waiting!WaitSome, Waiting!CompletedSome
<1>2. /\ Waiting!Ready /\ awaited' = awaited /\ dropped' = dropped /\ scope' = scope /\ Waiting!SomeActive
  BY <1>1, AsksWell DEF Waiting!Asks
<1>3. PICK S \in SUBSET Waiting!Completed : Waiting!Collect(S) /\ Waiting!Strike(S) /\ outcome' = outcome
  <2>1. CASE Waiting!WaitAny
    <3>1. PICK h \in Waiting!Completed : Waiting!Collect({h}) /\ Waiting!Strike({h}) /\ UNCHANGED outcome
      BY <2>1, <1>2 DEF Waiting!WaitAny
    <3>2. {h} \in SUBSET Waiting!Completed
      OBVIOUS
    <3> QED BY <3>1, <3>2
  <2>2. CASE Waiting!WaitSome \/ Waiting!CompletedSome
    <3>1. Waiting!Collect(Waiting!Completed) /\ Waiting!Strike(Waiting!Completed) /\ UNCHANGED outcome
      BY <2>2, <1>2 DEF Waiting!WaitSome, Waiting!CompletedSome
    <3> QED BY <3>1
  <2> QED BY <2>1, <2>2
<1>4. uses' = [h \in Posters |-> IF h \in S THEN NoBuffer ELSE uses[h]]
  BY <1>3 DEF Waiting!Strike
<1> QED BY <1>2, <1>3, <1>4, CollectionKeeps

\* test_some collects as completed_some does: the objects that became invalid
\* are those whose requests completed.
LEMMA TestKeeps ==
    ASSUME RInv, Waiting!TestSome
    PROVE  RInv'
<1>1. /\ Waiting!Ready /\ awaited' = awaited /\ dropped' = dropped /\ scope' = scope
      /\ Waiting!Collect(Waiting!Completed) /\ outcome' = outcome
      /\ uses' = [h \in Posters |-> IF handle'[h] = Waiting!Null THEN NoBuffer ELSE uses[h]]
      /\ \A h \in Posters : handle[h] \in Waiting!Requests => ~op[handle[h]].persistent
  BY DEF Waiting!TestSome, Waiting!Asks, Waiting!Strike, Waiting!HeldBy
<1>2. handle' = [h \in Posters |-> IF h \in Waiting!Completed THEN Waiting!Handle(handle[h]) ELSE handle[h]]
  BY <1>1 DEF Waiting!Collect
<1>3. ASSUME NEW h \in Posters
      PROVE  (IF handle'[h] = Waiting!Null THEN NoBuffer ELSE uses[h])
             = (IF h \in Waiting!Completed THEN NoBuffer ELSE uses[h])
  <2>1. CASE h \in Waiting!Completed
    <3>1. handle'[h] = Waiting!Null
      BY <2>1, <1>1, <1>2 DEF Waiting!Completed, Waiting!Holds, Waiting!Handle
    <3> QED BY <2>1, <3>1
  <2>2. CASE h \notin Waiting!Completed
    <3>1. handle'[h] = handle[h] /\ (handle[h] = Waiting!Null => uses[h] = NoBuffer)
      BY <2>2, <1>2, RequestHandles DEF RInv, Record
    <3> QED BY <2>2, <3>1
  <2> QED BY <2>1, <2>2
<1>4. uses' = [h \in Posters |-> IF h \in Waiting!Completed THEN NoBuffer ELSE uses[h]]
  BY <1>1, <1>3
<1>5. PICK S \in SUBSET Waiting!Completed : S = Waiting!Completed
  OBVIOUS
<1> QED BY <1>1, <1>4, <1>5, CollectionKeeps

\* An object is destroyed.
LEMMA DestroyKeeps ==
    ASSUME RInv, NEW h \in Posters, Waiting!Destroy(h)
    PROVE  RInv'
<1>1. /\ awaited = {} /\ scope = "leaving" /\ handle' = [handle EXCEPT ![h] = Waiting!NoObject]
      /\ uses' = [uses EXCEPT ![h] = NoBuffer]
      /\ awaited' = {handle[h]} \cap Waiting!Requests /\ dropped' = {handle[h]} \cap Waiting!Requests
      /\ op' = op /\ outcome' = outcome /\ scope' = scope
  BY DEF Waiting!Destroy, Waiting!Release, Waiting!HeldBy
<1>2. Waiting!TypeOK
  BY DEF RInv
<1>3. /\ handle'[h] = Waiting!NoObject /\ uses'[h] = NoBuffer
      /\ \A k \in Posters : k # h => handle'[k] = handle[k] /\ uses'[k] = uses[k]
  BY <1>1, <1>2 DEF Waiting!TypeOK
<1>4. Waiting!TypeOK'
  <2>1. /\ handle' \in [Posters -> Waiting!Requests \cup {Waiting!Null, Waiting!NoObject}]
        /\ uses' \in [Posters -> Buffers \cup {NoBuffer}]
    BY <1>1, <1>2 DEF Waiting!TypeOK
  <2>2. \A k \in Posters : handle'[k] \in Waiting!Requests => op[handle'[k]].state # "free"
    BY <1>2, <1>3, RequestHandles DEF Waiting!TypeOK
  <2> QED BY <2>1, <2>2, <1>1, <1>2 DEF Waiting!TypeOK
<1>5. Slots' /\ Single'
  <2>1. Slots'
    BY <1>1 DEF RInv, Slots
  <2>2. Single'
    BY <1>3, RequestHandles DEF RInv, Single
  <2> QED BY <2>1, <2>2
<1>6. Kept'
  <2>1. ASSUME NEW s \in Waiting!Requests, op[s].state # "free",
               s \in awaited' => op[s].persistent /\ s \notin dropped'
        PROVE  \E k \in Posters : handle'[k] = s
    <3>1. PICK k \in Posters : handle[k] = s
      BY <2>1, <1>1 DEF RInv, Kept
    <3>2. k # h
      BY <2>1, <3>1, <1>1
    <3> QED BY <3>1, <3>2, <1>3
  <2> QED BY <2>1, <1>1 DEF Kept
<1>7. Pending'
  <2>1. \A s \in awaited' : op[s].state # "free"
    BY <1>1, <1>2 DEF Waiting!TypeOK
  <2>2. ASSUME NEW k \in Posters, handle'[k] = handle[h], handle[h] \in Waiting!Requests
        PROVE  FALSE
    <3>1. CASE k = h
      BY <2>2, <3>1, <1>3, RequestHandles
    <3>2. CASE k # h
      BY <2>2, <3>2, <1>3 DEF RInv, Single
    <3> QED BY <3>1, <3>2
  <2>3. \A k \in Posters : handle'[k] \notin dropped'
    <3>1. ASSUME NEW k \in Posters, handle'[k] \in dropped'
          PROVE  handle'[k] = handle[h] /\ handle[h] \in Waiting!Requests
      BY <3>1, <1>1
    <3> QED BY <3>1, <2>2
  <2> QED BY <2>1, <2>3, <1>1 DEF Pending
<1>8. Record'
  BY <1>1, <1>3, RequestHandles DEF RInv, Record, Waiting!Active
<1>9. OneUse' /\ CallsDefined' /\ AtEnd'
  BY <1>1 DEF RInv, OneUse, CallsDefined, Waiting!CallsDefined, AtEnd, Waiting!Active
<1> QED BY <1>4, <1>5, <1>6, <1>7, <1>8, <1>9 DEF RInv

\* The scope is left, and its buffers are destroyed when its objects are.
LEMMA ScopeKeeps ==
    ASSUME RInv, Waiting!Leave \/ Waiting!DestroyBuffers \/ UNCHANGED Waiting!vars
    PROVE  RInv'
<1>1. /\ handle' = handle /\ op' = op /\ awaited' = awaited /\ dropped' = dropped
      /\ uses' = uses /\ outcome' = outcome /\ scope' \in {scope, "leaving", "left"}
      /\ scope' = "left" /\ scope # "left" => awaited = {} /\ \A h \in Posters : handle[h] = Waiting!NoObject
  BY DEF Waiting!Leave, Waiting!DestroyBuffers, Waiting!vars
<1>2. Waiting!TypeOK'
  BY <1>1 DEF RInv, Waiting!TypeOK
<1>3. Slots' /\ Single' /\ Kept' /\ Pending'
  BY <1>1 DEF RInv, Slots, Single, Kept, Pending
<1>4. Record' /\ OneUse' /\ CallsDefined'
  BY <1>1 DEF RInv, Record, OneUse, Waiting!Active, CallsDefined, Waiting!CallsDefined
<1>5. AtEnd'
  BY <1>1 DEF RInv, AtEnd
<1> QED BY <1>2, <1>3, <1>4, <1>5 DEF RInv
-----------------------------------------------------------------------------
\* A scope with no requests.
LEMMA RequestInit == Waiting!Init => RInv
<1> SUFFICES ASSUME Waiting!Init PROVE RInv
  OBVIOUS
<1>1. Waiting!Free \in Waiting!Ops /\ Waiting!Free.state = "free"
  BY DEF Waiting!Free, Waiting!Ops
<1>2. /\ \A r \in Waiting!Requests : op[r] = Waiting!Free
      /\ \A h \in Posters : handle[h] = Waiting!Null /\ uses[h] = NoBuffer
  BY DEF Waiting!Init
<1>3. Waiting!TypeOK
  BY <1>1, <1>2, RequestHandles DEF Waiting!Init, Waiting!TypeOK
<1>4. Slots /\ Single /\ Kept
  BY <1>1, <1>2, RequestHandles DEF Slots, Single, Kept
<1>5. Pending /\ Record /\ OneUse
  BY <1>1, <1>2, RequestHandles DEF Waiting!Init, Pending, Record, OneUse, Waiting!Active
<1>6. CallsDefined /\ AtEnd
  BY DEF Waiting!Init, CallsDefined, Waiting!CallsDefined, AtEnd
<1> QED BY <1>3, <1>4, <1>5, <1>6 DEF RInv

\* Every step keeps the invariant.
LEMMA RequestStep == RInv /\ [Waiting!Next]_(Waiting!vars) => RInv'
<1> SUFFICES ASSUME RInv, [Waiting!Next]_(Waiting!vars) PROVE RInv'
  OBVIOUS
<1>1. ASSUME NEW r \in Waiting!Requests, Waiting!Complete(r)
      PROVE  RInv'
  BY <1>1, CompleteKeeps
<1>2. ASSUME NEW h \in Posters, Waiting!Construction(h)
      PROVE  RInv'
  BY <1>2, PostKeeps, PostPersistentKeeps, MoveKeeps, SwapKeeps DEF Waiting!Construction
<1>3. ASSUME NEW h \in Posters, Waiting!Start(h) \/ Waiting!Wait(h) \/ Waiting!Destroy(h)
      PROVE  RInv'
  BY <1>3, StartKeeps, WaitKeeps, DestroyKeeps
<1>4. ASSUME Waiting!WaitAll \/ (\E S \in SUBSET Posters : Waiting!WaitArgs(S)) \/ Waiting!Return
      PROVE  RInv'
  BY <1>4, WaitAllKeeps, WaitArgsKeeps, ReturnKeeps
<1>5. CASE Waiting!WaitAny \/ Waiting!WaitSome \/ Waiting!CompletedSome \/ Waiting!TestSome
  BY <1>5, SomeKeeps, TestKeeps
<1>6. CASE Waiting!Leave \/ Waiting!DestroyBuffers \/ Waiting!Over \/ UNCHANGED Waiting!vars
  BY <1>6, ScopeKeeps DEF Waiting!Over
<1> QED BY <1>1, <1>2, <1>3, <1>4, <1>5, <1>6 DEF Waiting!Next

\* In every reachable state the objects, the requests MPI allocated and the
\* program's record agree.
THEOREM RequestInvariant == Waiting!Spec => []RInv
<1>1. Waiting!Init => RInv
  BY RequestInit
<1>2. RInv /\ [Waiting!Next]_(Waiting!vars) => RInv'
  BY RequestStep
<1> QED BY <1>1, <1>2, PTL DEF Waiting!Spec

\* Every allocated request has one holder, or the call under way frees it: none
\* leaks and none is freed twice.
THEOREM RequestOneHolder == Waiting!Spec => []OneHolder
<1>1. RInv => OneHolder
  <2> SUFFICES ASSUME RInv, NEW r \in Waiting!Requests
               PROVE  /\ op[r].state # "free" /\ r \notin awaited
                            => \E h \in Posters : Waiting!Holders(r) = {h}
                      /\ r \in dropped => Waiting!Holders(r) = {}
                      /\ op[r].state = "free" => Waiting!Holders(r) = {}
    BY DEF OneHolder, Waiting!OneHolder
  <2>1. ASSUME op[r].state # "free", r \notin awaited
        PROVE  \E h \in Posters : Waiting!Holders(r) = {h}
    <3>1. PICK h \in Posters : handle[h] = r
      BY <2>1 DEF RInv, Kept
    <3>2. Waiting!Holders(r) = {h}
      BY <3>1 DEF RInv, Single, Waiting!Holders
    <3> QED BY <3>2
  <2>2. r \in dropped => Waiting!Holders(r) = {}
    BY DEF RInv, Pending, Waiting!Holders
  <2>3. op[r].state = "free" => Waiting!Holders(r) = {}
    BY DEF RInv, Waiting!TypeOK, Waiting!Holders
  <2> QED BY <2>1, <2>2, <2>3
<1> QED BY <1>1, RequestInvariant, PTL

\* No buffer is in use when the scope is left, and no two operations use one.
THEOREM RequestBuffers == Waiting!Spec => []BuffersQuiet
<1>1. RInv => BuffersQuiet
  <2> SUFFICES ASSUME RInv PROVE BuffersQuiet
    OBVIOUS
  <2>1. ASSUME scope = "left", NEW r \in Waiting!Requests
        PROVE  op[r] = Waiting!Free
    <3>1. awaited = {} /\ \A h \in Posters : handle[h] # r
      BY <2>1, RequestHandles DEF RInv, AtEnd
    <3>2. op[r].state = "free"
      BY <3>1 DEF RInv, Kept
    <3> QED BY <3>2 DEF RInv, Slots
  <2> QED BY <2>1 DEF RInv, OneUse, BuffersQuiet, Waiting!BuffersQuiet
<1> QED BY <1>1, RequestInvariant, PTL

\* A program that counts what it collected never asks in vain.
THEOREM RequestCalls == Waiting!Spec => []CallsDefined
<1>1. RInv => CallsDefined
  BY DEF RInv
<1> QED BY <1>1, RequestInvariant, PTL
-----------------------------------------------------------------------------
(***************************************************************************)
(* Ostream.                                                                *)
(***************************************************************************)

\* The number of texts of rank r that the root has taken: one for each round it
\* printed, and one of the round it collects.
Taken(r) == Len(output) + (IF pc[Printing!Root] = "collecting" /\ r < Len(messages) THEN 1 ELSE 0)

\* What the root has done.
AtRoot ==
    /\ pc[Printing!Root] \in {"writing", "closed"} => flushes[Printing!Root] = Len(output) /\ messages = <<>>
    /\ pc[Printing!Root] = "collecting" =>
          flushes[Printing!Root] = Len(output) /\ Len(messages) >= 1 /\ flushes[Printing!Root] < Len(script)
    /\ pc[Printing!Root] = "barrier" => flushes[Printing!Root] + 1 = Len(output) /\ messages = <<>>

\* The other ranks do not collect, and a rank in a flush has one to make.
AtRanks ==
    \A r \in Printing!Ranks :
        /\ r # Printing!Root => pc[r] # "collecting"
        /\ pc[r] = "barrier" => flushes[r] < Len(script)

\* No rank is past a barrier that another has not come to.
Together == \A r, q \in Printing!Ranks : flushes[r] <= Printing!Arrived(q)

\* On its way from a rank is the text of the first round whose text was not taken.
OnTheWay ==
    \A r \in Printing!Ranks :
        /\ r = Printing!Root => net[r] = <<>>
        /\ r # Printing!Root => /\ Len(net[r]) = Printing!Arrived(r) - Taken(r)
                                /\ net[r] # <<>> => net[r][1] = script[Taken(r) + 1][r]

\* What is collected belongs to the round after those that were printed.
Collected == \A i \in 1 .. Len(messages) : messages[i] = script[Len(output) + 1][i-1]

\* The flags of the root tell what the output says.
Flags ==
    /\ doing_table <=> Printing!TableOpen(Len(output) + 1)
    /\ doing_formatting <=> Len(output) > 0 /\ output[Len(output)].style # "raw"

OInv ==
    /\ Printing!TypeOK /\ AtRoot /\ AtRanks /\ Together /\ OnTheWay /\ Collected
    /\ RoundIntact /\ Flags /\ LayoutFollowsOutput
-----------------------------------------------------------------------------
\* The numbers are numbers, and the root's flushes are the rounds printed.
LEMMA Numbers ==
    ASSUME OInv
    PROVE  /\ Printing!Root \in Printing!Ranks /\ Len(output) \in Nat /\ Len(messages) \in 0 .. N
           /\ Len(script) \in Nat /\ Len(output) <= Len(script)
           /\ Printing!Arrived(Printing!Root) = Len(output)
           /\ \A r \in Printing!Ranks : r \in Nat /\ flushes[r] \in Nat /\ Printing!Arrived(r) \in Nat
           /\ \A r \in Printing!Ranks : Taken(r) \in Nat /\ Len(output) <= Taken(r)
           /\ \A r \in Printing!Ranks : net[r] \in Seq(Printing!Texts) /\ Len(net[r]) \in Nat
<1>1. Printing!TypeOK /\ AtRoot
  BY DEF OInv
<1>2. Printing!Root \in Printing!Ranks
  BY RanksAssumption DEF Printing!Root, Printing!Ranks
<1>3. Len(output) \in Nat /\ Len(messages) \in 0 .. N /\ Len(script) \in Nat
  <2>1. output \in Seq([texts: Seq(Printing!Texts), style: Printing!Styles, blank: 0 .. 2, header: BOOLEAN])
    BY <1>1 DEF Printing!TypeOK
  <2>2. messages \in Seq(Printing!Texts) /\ Len(messages) <= N
    BY <1>1 DEF Printing!TypeOK
  <2>3. script \in Seq([Printing!Ranks -> Printing!Texts])
    BY <1>1, ScriptAssumption DEF Printing!TypeOK
  <2>4. Len(messages) \in Nat /\ Len(script) \in Nat /\ Len(output) \in Nat
    BY <2>1, <2>2, <2>3, LenProperties
  <2> QED BY <2>2, <2>4, RanksAssumption
<1>4. \A r \in Printing!Ranks : r \in Nat /\ flushes[r] \in Nat /\ Printing!Arrived(r) \in Nat
  BY <1>1, <1>3 DEF Printing!TypeOK, Printing!Ranks, Printing!Arrived
<1>5. \A r \in Printing!Ranks : Taken(r) \in Nat /\ Len(output) <= Taken(r)
  BY <1>3 DEF Taken
<1>6. \A r \in Printing!Ranks : net[r] \in Seq(Printing!Texts) /\ Len(net[r]) \in Nat
  BY <1>1, LenProperties DEF Printing!TypeOK
<1>7. Printing!Arrived(Printing!Root) = Len(output) /\ Len(output) <= Len(script)
  <2>1. pc[Printing!Root] \in {"writing", "collecting", "barrier", "closed"} /\ flushes[Printing!Root] \in 0 .. Len(script)
    BY <1>1, <1>2 DEF Printing!TypeOK
  <2>2. CASE pc[Printing!Root] = "barrier"
    <3>1. flushes[Printing!Root] < Len(script)
      BY <1>2, <2>2 DEF OInv, AtRanks
    <3> QED BY <1>1, <1>3, <2>1, <2>2, <3>1 DEF AtRoot, Printing!Arrived
  <2>3. CASE pc[Printing!Root] # "barrier"
    BY <1>1, <1>3, <2>1, <2>3 DEF AtRoot, Printing!Arrived
  <2> QED BY <2>2, <2>3
<1> QED BY <1>2, <1>3, <1>4, <1>5, <1>6, <1>7

\* A rank that writes has no text on its way: all that it sent was printed.
LEMMA WriterIsQuiet ==
    ASSUME OInv, NEW r \in Printing!Ranks, r # Printing!Root, pc[r] = "writing"
    PROVE  net[r] = <<>> /\ flushes[r] = Len(output) /\ Taken(r) = Len(output)
<1>1. Printing!Arrived(r) = flushes[r]
  BY Numbers DEF Printing!Arrived
<1>2. flushes[r] <= Len(output)
  BY Numbers DEF OInv, Together
<1>3. Len(net[r]) = flushes[r] - Taken(r)
  BY <1>1 DEF OInv, OnTheWay
<1>4. Len(net[r]) = 0 /\ flushes[r] = Len(output) /\ Taken(r) = Len(output)
  BY <1>2, <1>3, Numbers
<1>5. net[r] = <<>>
  BY <1>4, Numbers, EmptySeq
<1> QED BY <1>4, <1>5
-----------------------------------------------------------------------------
(* Every step keeps the invariant.                                         *)

\* The send of a rank keeps the invariant.
LEMMA SendKeeps ==
    ASSUME OInv, NEW r \in Printing!Ranks, Printing!Send(r)
    PROVE  OInv'
<1>1. /\ r # Printing!Root /\ pc[r] = "writing" /\ flushes[r] < Len(script)
      /\ net' = [net EXCEPT ![r] = Append(@, Printing!Buffer(r))] /\ pc' = [pc EXCEPT ![r] = "barrier"]
      /\ script' = script /\ flushes' = flushes /\ messages' = messages /\ output' = output
      /\ doing_table' = doing_table /\ doing_formatting' = doing_formatting
  BY DEF Printing!Send, Printing!MoreToFlush
<1>2. Printing!TypeOK
  BY DEF OInv
<1>3. net[r] = <<>> /\ flushes[r] = Len(output) /\ Taken(r) = Len(output)
  BY <1>1, WriterIsQuiet
<1>4. Printing!Buffer(r) \in Printing!Texts /\ Printing!Buffer(r) = script[Len(output) + 1][r]
  <2>1. script \in Seq([Printing!Ranks -> Printing!Texts]) /\ flushes[r] + 1 \in 1 .. Len(script)
    BY <1>1, <1>2, ScriptAssumption, Numbers DEF Printing!TypeOK
  <2>2. script[flushes[r] + 1] \in [Printing!Ranks -> Printing!Texts]
    BY <2>1, ElementOfSeq
  <2> QED BY <2>2, <1>3 DEF Printing!Buffer
<1>5. /\ net'[r] = <<Printing!Buffer(r)>> /\ Len(net'[r]) = 1 /\ net'[r][1] = Printing!Buffer(r)
      /\ \A q \in Printing!Ranks : q # r => net'[q] = net[q]
      /\ pc'[r] = "barrier" /\ \A q \in Printing!Ranks : q # r => pc'[q] = pc[q]
      /\ net' \in [Printing!Ranks -> Seq(Printing!Texts)]
  <2>1. net \in [Printing!Ranks -> Seq(Printing!Texts)] /\ pc \in [Printing!Ranks -> {"writing", "collecting", "barrier", "closed"}]
    BY <1>2 DEF Printing!TypeOK
  <2>2. net'[r] = Append(<<>>, Printing!Buffer(r))
    BY <1>1, <1>3, <2>1
  <2>3. Append(<<>>, Printing!Buffer(r)) = <<Printing!Buffer(r)>>
    OBVIOUS
  <2>4. <<Printing!Buffer(r)>> \in Seq(Printing!Texts) /\ Len(<<Printing!Buffer(r)>>) = 1 /\ <<Printing!Buffer(r)>>[1] = Printing!Buffer(r)
    BY <1>4
  <2>5. /\ \A q \in Printing!Ranks : q # r => net'[q] = net[q]
        /\ pc'[r] = "barrier" /\ \A q \in Printing!Ranks : q # r => pc'[q] = pc[q]
    BY <1>1, <2>1
  <2>6. net' \in [Printing!Ranks -> Seq(Printing!Texts)]
    <3>1. net' = [net EXCEPT ![r] = <<Printing!Buffer(r)>>]
      BY <1>1, <1>3, <2>1, <2>3
    <3> QED BY <2>1, <2>4, <3>1
  <2> QED BY <2>2, <2>3, <2>4, <2>5, <2>6
<1>6. Printing!TypeOK'
  <2>0. \A q \in Printing!Ranks : Len(net[q]) <= 1
    BY <1>2 DEF Printing!TypeOK
  <2>1. ASSUME NEW q \in Printing!Ranks
        PROVE  Len(net'[q]) <= 1
    <3>1. CASE q = r
      BY <3>1, <1>5
    <3>2. CASE q # r
      BY <3>2, <2>0, <1>5
    <3> QED BY <3>1, <3>2
  <2> QED BY <2>1, <1>1, <1>2, <1>5 DEF Printing!TypeOK
<1>7. pc'[Printing!Root] = pc[Printing!Root]
  BY <1>1, <1>5, Numbers
<1>8. AtRoot' /\ AtRanks'
  <2>1. AtRoot'
    BY <1>1, <1>7 DEF OInv, AtRoot
  <2>2. AtRanks'
    BY <1>1, <1>5 DEF OInv, AtRanks
  <2> QED BY <2>1, <2>2
<1>9. /\ Printing!Arrived(r)' = Printing!Arrived(r) + 1 /\ \A q \in Printing!Ranks : q # r => Printing!Arrived(q)' = Printing!Arrived(q)
      /\ \A q \in Printing!Ranks : Taken(q)' = Taken(q)
  <2>1. Printing!Arrived(r) = flushes[r] /\ Printing!Arrived(r)' = flushes[r] + 1
    BY <1>1, <1>5, Numbers DEF Printing!Arrived
  <2>2. \A q \in Printing!Ranks : q # r => Printing!Arrived(q)' = Printing!Arrived(q)
    BY <1>1, <1>5 DEF Printing!Arrived
  <2>3. \A q \in Printing!Ranks : Taken(q)' = Taken(q)
    BY <1>1, <1>7 DEF Taken
  <2> QED BY <2>1, <2>2, <2>3
<1>10. Together'
  <2>1. ASSUME NEW p \in Printing!Ranks, NEW q \in Printing!Ranks
        PROVE  flushes[p] <= Printing!Arrived(q)'
    <3>1. flushes[p] <= Printing!Arrived(q) /\ Printing!Arrived(q) \in Nat /\ flushes[p] \in Nat
      BY Numbers DEF OInv, Together
    <3>2. CASE q = r
      <4>1. flushes[p] <= Printing!Arrived(r) + 1
        BY <3>1, <3>2
      <4> QED BY <4>1, <3>2, <1>9
    <3>3. CASE q # r
      BY <3>1, <3>3, <1>9
    <3> QED BY <3>2, <3>3
  <2> QED BY <2>1, <1>1 DEF Together
<1>11. OnTheWay'
  <2>1. ASSUME NEW q \in Printing!Ranks, q # Printing!Root
        PROVE  /\ Len(net'[q]) = Printing!Arrived(q)' - Taken(q)
               /\ net'[q] # <<>> => net'[q][1] = script[Taken(q) + 1][q]
    <3>1. CASE q = r
      <4>1. Printing!Arrived(r) = flushes[r]
        BY <1>1, Numbers DEF Printing!Arrived
      <4>2. Len(net'[r]) = Printing!Arrived(r)' - Taken(r)
        BY <4>1, <1>3, <1>5, <1>9, Numbers
      <4> QED BY <3>1, <4>2, <1>3, <1>4, <1>5
    <3>2. CASE q # r
      BY <2>1, <3>2, <1>5, <1>9 DEF OInv, OnTheWay
    <3> QED BY <3>1, <3>2
  <2>2. net'[Printing!Root] = <<>>
    BY <1>1, <1>5, Numbers DEF OInv, OnTheWay
  <2> QED BY <2>1, <2>2, <1>1, <1>9 DEF OnTheWay
<1>12. Collected' /\ RoundIntact' /\ Flags' /\ LayoutFollowsOutput'
  <2>1. \A k : Printing!TableOpen(k)' = Printing!TableOpen(k)
    BY <1>1 DEF Printing!TableOpen
  <2>2. Flags' /\ LayoutFollowsOutput'
    BY <2>1, <1>1 DEF OInv, Flags, LayoutFollowsOutput, Printing!LayoutFollowsOutput
  <2>3. Collected' /\ RoundIntact'
    BY <1>1 DEF OInv, Collected, RoundIntact, Printing!RoundIntact
  <2> QED BY <2>2, <2>3
<1> QED BY <1>6, <1>8, <1>10, <1>11, <1>12 DEF OInv

\* The root's own text is the first of its round.
LEMMA StartCollectingKeeps ==
    ASSUME OInv, Printing!StartCollecting
    PROVE  OInv'
<1>1. /\ pc[Printing!Root] = "writing" /\ flushes[Printing!Root] < Len(script)
      /\ messages' = <<Printing!Buffer(Printing!Root)>> /\ pc' = [pc EXCEPT ![Printing!Root] = "collecting"]
      /\ script' = script /\ flushes' = flushes /\ net' = net /\ output' = output
      /\ doing_table' = doing_table /\ doing_formatting' = doing_formatting
  BY DEF Printing!StartCollecting, Printing!MoreToFlush
<1>2. Printing!TypeOK /\ Printing!Root \in Printing!Ranks
  BY Numbers DEF OInv
<1>3. flushes[Printing!Root] = Len(output) /\ messages = <<>>
  BY <1>1 DEF OInv, AtRoot
<1>4. Printing!Buffer(Printing!Root) \in Printing!Texts /\ Printing!Buffer(Printing!Root) = script[Len(output) + 1][Printing!Root]
  <2>1. script \in Seq([Printing!Ranks -> Printing!Texts]) /\ flushes[Printing!Root] + 1 \in 1 .. Len(script)
    BY <1>1, <1>2, ScriptAssumption, Numbers DEF Printing!TypeOK
  <2>2. script[flushes[Printing!Root] + 1] \in [Printing!Ranks -> Printing!Texts]
    BY <2>1, ElementOfSeq
  <2> QED BY <2>2, <1>2, <1>3 DEF Printing!Buffer
<1>5. /\ messages' \in Seq(Printing!Texts) /\ Len(messages') = 1 /\ messages'[1] = Printing!Buffer(Printing!Root)
      /\ pc'[Printing!Root] = "collecting" /\ \A q \in Printing!Ranks : q # Printing!Root => pc'[q] = pc[q]
  <2>1. pc \in [Printing!Ranks -> {"writing", "collecting", "barrier", "closed"}]
    BY <1>2 DEF Printing!TypeOK
  <2> QED BY <2>1, <1>1, <1>2, <1>4
<1>6. Printing!TypeOK'
  <2>1. Len(messages') <= N
    BY <1>5, RanksAssumption
  <2> QED BY <2>1, <1>1, <1>2, <1>5 DEF Printing!TypeOK
<1>7. AtRoot' /\ AtRanks'
  <2>1. AtRoot'
    BY <1>1, <1>3, <1>5 DEF AtRoot
  <2>2. AtRanks'
    BY <1>1, <1>5 DEF OInv, AtRanks
  <2> QED BY <2>1, <2>2
<1>8. \A q \in Printing!Ranks : Printing!Arrived(q)' = Printing!Arrived(q) /\ (q # Printing!Root => Taken(q)' = Taken(q))
  <2>1. \A q \in Printing!Ranks : Printing!Arrived(q)' = Printing!Arrived(q)
    BY <1>1, <1>5 DEF Printing!Arrived
  <2>2. ASSUME NEW q \in Printing!Ranks, q # Printing!Root
        PROVE  Taken(q)' = Taken(q)
    <3>1. ~(q < Len(messages'))
      BY <2>2, <1>5, Numbers DEF Printing!Root
    <3> QED BY <3>1, <1>1, <1>5 DEF Taken
  <2> QED BY <2>1, <2>2
<1>9. Together' /\ OnTheWay'
  BY <1>1, <1>8 DEF OInv, Together, OnTheWay
<1>10. Collected'
  <2>1. ASSUME NEW i \in 1 .. Len(messages')
        PROVE  messages'[i] = script[Len(output) + 1][i-1]
    <3>1. i = 1 /\ i - 1 = Printing!Root
      BY <1>5 DEF Printing!Root
    <3> QED BY <3>1, <1>4, <1>5
  <2> QED BY <2>1, <1>1 DEF Collected
<1>11. RoundIntact' /\ Flags' /\ LayoutFollowsOutput'
  <2>1. \A k : Printing!TableOpen(k)' = Printing!TableOpen(k)
    BY <1>1 DEF Printing!TableOpen
  <2>2. Flags' /\ LayoutFollowsOutput'
    BY <2>1, <1>1 DEF OInv, Flags, LayoutFollowsOutput, Printing!LayoutFollowsOutput
  <2>3. RoundIntact'
    BY <1>1 DEF OInv, RoundIntact, Printing!RoundIntact
  <2> QED BY <2>2, <2>3
<1> QED BY <1>6, <1>7, <1>9, <1>10, <1>11 DEF OInv

\* The next rank's text joins the round.
LEMMA CollectKeeps ==
    ASSUME OInv, Printing!Collect
    PROVE  OInv'
<1>0. PICK i : i = Len(messages)
  OBVIOUS
<1>1. /\ pc[Printing!Root] = "collecting" /\ i < N /\ net[i] # <<>>
      /\ messages' = Append(messages, Head(net[i])) /\ net' = [net EXCEPT ![i] = Tail(@)]
      /\ script' = script /\ pc' = pc /\ flushes' = flushes /\ output' = output
      /\ doing_table' = doing_table /\ doing_formatting' = doing_formatting
  BY <1>0 DEF Printing!Collect
<1>2. Printing!TypeOK
  BY DEF OInv
<1>3. i \in Printing!Ranks /\ i \in Nat /\ i >= 1 /\ i # Printing!Root
  <2>1. i \in 0 .. N /\ i >= 1
    BY <1>0, <1>1, Numbers DEF OInv, AtRoot
  <2> QED BY <2>1, <1>1, RanksAssumption DEF Printing!Ranks, Printing!Root
<1>4. Taken(i) = Len(output)
  BY <1>0, <1>3 DEF Taken
<1>5. /\ net[i] \in Seq(Printing!Texts) /\ Len(net[i]) = 1 /\ Head(net[i]) = net[i][1]
      /\ Head(net[i]) \in Printing!Texts /\ Tail(net[i]) = <<>>
  <2>1. net[i] \in Seq(Printing!Texts) /\ Len(net[i]) \in Nat /\ Len(net[i]) <= 1
    BY <1>2, <1>3, Numbers DEF Printing!TypeOK
  <2>2. Len(net[i]) # 0
    BY <2>1, <1>1, EmptySeq
  <2>3. Len(net[i]) = 1
    <3>1. \A n \in Nat : n # 0 /\ n <= 1 => n = 1
      OBVIOUS
    <3> QED BY <2>1, <2>2, <3>1
  <2>4. Head(net[i]) = net[i][1] /\ net[i][1] \in Printing!Texts
    BY <2>1, <2>3, <1>1, ElementOfSeq
  <2>5. Tail(net[i]) \in Seq(Printing!Texts) /\ Len(Tail(net[i])) = 0
    BY <2>1, <2>3, <1>1, HeadTailProperties
  <2>6. Tail(net[i]) = <<>>
    BY <2>5, EmptySeq
  <2> QED BY <2>1, <2>3, <2>4, <2>6
<1>6. Head(net[i]) = script[Len(output) + 1][i]
  BY <1>1, <1>3, <1>4, <1>5 DEF OInv, OnTheWay
<1>7. /\ messages \in Seq(Printing!Texts) /\ messages' \in Seq(Printing!Texts) /\ Len(messages') = i + 1
      /\ \A j \in 1 .. i : messages'[j] = messages[j]
      /\ messages'[i + 1] = Head(net[i])
  <2>1. messages \in Seq(Printing!Texts)
    BY <1>2 DEF Printing!TypeOK
  <2> QED BY <2>1, <1>0, <1>1, <1>5, AppendProperties
<1>8. /\ net'[i] = <<>> /\ Len(net'[i]) = 0 /\ \A q \in Printing!Ranks : q # i => net'[q] = net[q]
      /\ net' \in [Printing!Ranks -> Seq(Printing!Texts)]
  <2>1. net \in [Printing!Ranks -> Seq(Printing!Texts)]
    BY <1>2 DEF Printing!TypeOK
  <2>2. <<>> \in Seq(Printing!Texts) /\ Len(<<>>) = 0
    BY EmptySeq
  <2>3. net' = [net EXCEPT ![i] = <<>>]
    BY <2>1, <1>1, <1>3, <1>5
  <2> QED BY <2>1, <2>2, <2>3, <1>3
<1>9. Printing!TypeOK'
  <2>1. ASSUME NEW q \in Printing!Ranks
        PROVE  Len(net'[q]) <= 1
    <3>1. CASE q = i
      BY <3>1, <1>8
    <3>2. CASE q # i
      BY <3>2, <1>2, <1>8 DEF Printing!TypeOK
    <3> QED BY <3>1, <3>2
  <2>2. Len(messages') <= N
    BY <1>1, <1>3, <1>7, RanksAssumption
  <2> QED BY <2>1, <2>2, <1>1, <1>2, <1>7, <1>8 DEF Printing!TypeOK
<1>10. AtRoot' /\ AtRanks'
  <2>1. Len(messages') >= 1
    BY <1>3, <1>7
  <2>2. AtRoot'
    BY <2>1, <1>1 DEF OInv, AtRoot
  <2>3. AtRanks'
    BY <1>1 DEF OInv, AtRanks
  <2> QED BY <2>2, <2>3
<1>11. /\ \A q \in Printing!Ranks : Printing!Arrived(q)' = Printing!Arrived(q)
       /\ Taken(i)' = Len(output) + 1
       /\ \A q \in Printing!Ranks : q # i => Taken(q)' = Taken(q)
  <2>1. \A q \in Printing!Ranks : Printing!Arrived(q)' = Printing!Arrived(q)
    BY <1>1 DEF Printing!Arrived
  <2>2. Taken(i)' = Len(output) + 1
    BY <1>1, <1>3, <1>7 DEF Taken
  <2>3. ASSUME NEW q \in Printing!Ranks, q # i
        PROVE  Taken(q)' = Taken(q)
    <3>1. q < Len(messages') <=> q < Len(messages)
      <4>1. q \in Nat
        BY Numbers
      <4> QED BY <4>1, <2>3, <1>0, <1>3, <1>7
    <3> QED BY <3>1, <1>1 DEF Taken
  <2> QED BY <2>1, <2>2, <2>3
<1>12. Together'
  BY <1>1, <1>11 DEF OInv, Together
<1>13. OnTheWay'
  <2>1. ASSUME NEW q \in Printing!Ranks, q # Printing!Root
        PROVE  /\ Len(net'[q]) = Printing!Arrived(q) - Taken(q)'
               /\ net'[q] # <<>> => net'[q][1] = script[Taken(q)' + 1][q]
    <3>1. CASE q = i
      <4>1. Len(net[i]) = Printing!Arrived(i) - Len(output)
        BY <1>3, <1>4 DEF OInv, OnTheWay
      <4>2. Printing!Arrived(i) = Len(output) + 1
        <5>1. Printing!Arrived(i) \in Nat /\ Len(output) \in Nat /\ 1 = Printing!Arrived(i) - Len(output)
          BY <4>1, <1>3, <1>5, Numbers
        <5> QED BY <5>1
      <4>3. 0 = Printing!Arrived(i) - (Len(output) + 1)
        BY <4>2, Numbers
      <4> QED BY <3>1, <4>3, <1>8, <1>11
    <3>2. CASE q # i
      BY <2>1, <3>2, <1>8, <1>11 DEF OInv, OnTheWay
    <3> QED BY <3>1, <3>2
  <2>2. net'[Printing!Root] = <<>>
    BY <1>3, <1>8, Numbers DEF OInv, OnTheWay
  <2> QED BY <2>1, <2>2, <1>1, <1>11 DEF OnTheWay
<1>14. Collected'
  <2>1. ASSUME NEW j \in 1 .. Len(messages')
        PROVE  messages'[j] = script[Len(output) + 1][j-1]
    <3>1. CASE j = i + 1
      <4>1. j - 1 = i
        BY <3>1, <1>3
      <4> QED BY <3>1, <4>1, <1>6, <1>7
    <3>2. CASE j # i + 1
      <4>1. j \in 1 .. i /\ j \in 1 .. Len(messages)
        BY <3>2, <1>0, <1>3, <1>7
      <4> QED BY <4>1, <1>7 DEF OInv, Collected
    <3> QED BY <3>1, <3>2
  <2> QED BY <2>1, <1>1 DEF Collected
<1>15. RoundIntact' /\ Flags' /\ LayoutFollowsOutput'
  <2>1. \A k : Printing!TableOpen(k)' = Printing!TableOpen(k)
    BY <1>1 DEF Printing!TableOpen
  <2>2. Flags' /\ LayoutFollowsOutput'
    BY <2>1, <1>1 DEF OInv, Flags, LayoutFollowsOutput, Printing!LayoutFollowsOutput
  <2>3. RoundIntact'
    BY <1>1 DEF OInv, RoundIntact, Printing!RoundIntact
  <2> QED BY <2>2, <2>3
<1> QED BY <1>9, <1>10, <1>12, <1>13, <1>14, <1>15 DEF OInv
-----------------------------------------------------------------------------
(* The layout, of any output o.                                            *)

OpenIn(o, k) ==
    \E j \in 1 .. k-1 : o[j].style = "row" /\ \A i \in j+1 .. k-1 : o[i].style # "lines"

LayoutAt(o, k) ==
    LET formatted == o[k].style # "raw"
        begins == k = 1 \/ o[k-1].style = "raw"
        endsTable == o[k].style = "lines" /\ OpenIn(o, k)
    IN  /\ o[k].header <=> o[k].style = "row" /\ ~OpenIn(o, k)
        /\ o[k].blank = (IF formatted /\ begins THEN 1 ELSE 0) + (IF endsTable THEN 1 ELSE 0)

\* A block as the layout asks.
LEMMA LayoutHolds ==
    ASSUME NEW o, NEW k, o[k].header <=> o[k].style = "row" /\ ~OpenIn(o, k),
           o[k].blank = (IF o[k].style # "raw" /\ (k = 1 \/ o[k-1].style = "raw") THEN 1 ELSE 0)
                      + (IF o[k].style = "lines" /\ OpenIn(o, k) THEN 1 ELSE 0)
    PROVE  LayoutAt(o, k)
BY DEF LayoutAt

\* What is said of block k depends on the blocks up to it.
LEMMA LayoutDepends ==
    ASSUME NEW o, NEW p, NEW k \in Nat \ {0}, \A j \in 1 .. k : o[j] = p[j]
    PROVE  (OpenIn(o, k) <=> OpenIn(p, k)) /\ (LayoutAt(o, k) <=> LayoutAt(p, k))
<1>1. OpenIn(o, k) <=> OpenIn(p, k)
  <2>1. \A j \in 1 .. k-1 : o[j] = p[j] /\ \A i \in j+1 .. k-1 : o[i] = p[i]
    OBVIOUS
  <2> QED BY <2>1 DEF OpenIn
<1>2. o[k] = p[k] /\ (k = 1 \/ o[k-1] = p[k-1])
  OBVIOUS
<1> QED BY <1>1, <1>2 DEF LayoutAt

\* Whether a table is open before block k depends on the blocks before it.
LEMMA OpenDepends ==
    ASSUME NEW o, NEW p, NEW k \in Nat \ {0}, \A j \in 1 .. k-1 : o[j] = p[j]
    PROVE  OpenIn(o, k) <=> OpenIn(p, k)
<1>1. \A j \in 1 .. k-1 : o[j] = p[j] /\ \A i \in j+1 .. k-1 : o[i] = p[i]
  OBVIOUS
<1> QED BY <1>1 DEF OpenIn

\* A row opens a table and lines end it.
LEMMA OpenNext ==
    ASSUME NEW o, NEW k \in Nat \ {0}
    PROVE  OpenIn(o, k + 1) <=> o[k].style = "row" \/ (OpenIn(o, k) /\ o[k].style # "lines")
<1>1. ASSUME OpenIn(o, k + 1)
      PROVE  o[k].style = "row" \/ (OpenIn(o, k) /\ o[k].style # "lines")
  <2>1. PICK j \in 1 .. k : o[j].style = "row" /\ \A i \in j+1 .. k : o[i].style # "lines"
    BY <1>1 DEF OpenIn
  <2>2. CASE j = k
    BY <2>1, <2>2
  <2>3. CASE j # k
    <3>1. j \in 1 .. k-1 /\ k \in j+1 .. k /\ \A i \in j+1 .. k-1 : i \in j+1 .. k
      BY <2>3
    <3> QED BY <2>1, <3>1 DEF OpenIn
  <2> QED BY <2>2, <2>3
<1>2. ASSUME o[k].style = "row"
      PROVE  OpenIn(o, k + 1)
  <2>1. k \in 1 .. k /\ \A i \in k+1 .. k : FALSE
    OBVIOUS
  <2> QED BY <1>2, <2>1 DEF OpenIn
<1>3. ASSUME OpenIn(o, k), o[k].style # "lines"
      PROVE  OpenIn(o, k + 1)
  <2>1. PICK j \in 1 .. k-1 : o[j].style = "row" /\ \A i \in j+1 .. k-1 : o[i].style # "lines"
    BY <1>3 DEF OpenIn
  <2>2. j \in 1 .. k /\ \A i \in j+1 .. k : i \in j+1 .. k-1 \/ i = k
    OBVIOUS
  <2> QED BY <1>3, <2>1, <2>2 DEF OpenIn
<1> QED BY <1>1, <1>2, <1>3

\* The root prints a round.
LEMMA PrintKeeps ==
    ASSUME OInv, Printing!PrintRound
    PROVE  OInv'
<1>0. PICK L, style, block :
        /\ L = Len(output) /\ style = Printing!StyleOf(messages)
        /\ block = [texts |-> messages, style |-> style,
                    blank |-> Printing!Blank(style), header |-> Printing!Header(style)]
  OBVIOUS
<1>1. /\ pc[Printing!Root] = "collecting" /\ Len(messages) = N
      /\ output' = Append(output, block) /\ doing_formatting' = (style # "raw")
      /\ doing_table' = CASE style = "lines" -> FALSE
                          [] style = "row"   -> TRUE
                          [] style = "raw"   -> doing_table
      /\ messages' = <<>> /\ pc' = [pc EXCEPT ![Printing!Root] = "barrier"]
      /\ script' = script /\ flushes' = flushes /\ net' = net
  BY <1>0 DEF Printing!PrintRound
<1>2. Printing!TypeOK /\ Printing!Root \in Printing!Ranks
  BY Numbers DEF OInv
<1>3. style \in Printing!Styles /\ style \in {"lines", "row", "raw"}
  BY <1>0 DEF Printing!StyleOf, Printing!Styles
<1>4. flushes[Printing!Root] = L /\ flushes[Printing!Root] < Len(script) /\ L \in Nat
  BY <1>0, <1>1, Numbers DEF OInv, AtRoot
<1>5. messages \in Seq(Printing!Texts) /\ messages = [i \in 1 .. N |-> script[L + 1][i-1]]
  <2>1. messages \in Seq(Printing!Texts)
    BY <1>2 DEF Printing!TypeOK
  <2>2. messages \in [1 .. N -> Printing!Texts]
    BY <2>1, <1>1, LenProperties
  <2>3. \A i \in 1 .. N : messages[i] = script[L + 1][i-1]
    BY <1>0, <1>1 DEF OInv, Collected
  <2> QED BY <2>1, <2>2, <2>3
<1>6. block \in [texts: Seq(Printing!Texts), style: Printing!Styles, blank: 0 .. 2, header: BOOLEAN]
  <2>1. Printing!Blank(style) \in 0 .. 2 /\ Printing!Header(style) \in BOOLEAN
    BY DEF Printing!Blank, Printing!Header
  <2> QED BY <2>1, <1>0, <1>3, <1>5
<1>7. /\ output' \in Seq([texts: Seq(Printing!Texts), style: Printing!Styles, blank: 0 .. 2, header: BOOLEAN])
      /\ Len(output') = L + 1 /\ output'[L + 1] = block
      /\ \A j \in 1 .. L : output'[j] = output[j]
      /\ DOMAIN output = 1 .. L /\ DOMAIN output' = 1 .. L + 1
  <2>1. output \in Seq([texts: Seq(Printing!Texts), style: Printing!Styles, blank: 0 .. 2, header: BOOLEAN])
    BY <1>2 DEF Printing!TypeOK
  <2>2. /\ output' \in Seq([texts: Seq(Printing!Texts), style: Printing!Styles, blank: 0 .. 2, header: BOOLEAN])
        /\ Len(output') = L + 1 /\ output'[L + 1] = block
        /\ \A j \in 1 .. L : output'[j] = output[j]
    BY <2>1, <1>0, <1>1, <1>6, AppendProperties
  <2> QED BY <2>1, <2>2, <1>0, LenProperties
<1>8. pc'[Printing!Root] = "barrier" /\ \A q \in Printing!Ranks : q # Printing!Root => pc'[q] = pc[q]
  <2>1. pc \in [Printing!Ranks -> {"writing", "collecting", "barrier", "closed"}]
    BY <1>2 DEF Printing!TypeOK
  <2> QED BY <2>1, <1>1, <1>2
<1>9. Printing!TypeOK'
  <2>1. messages' \in Seq(Printing!Texts) /\ Len(messages') <= N
    BY <1>1, EmptySeq, RanksAssumption
  <2>2. doing_table' \in BOOLEAN /\ doing_formatting' \in BOOLEAN
    BY <1>1, <1>2, <1>3 DEF Printing!TypeOK
  <2> QED BY <2>1, <2>2, <1>1, <1>2, <1>7 DEF Printing!TypeOK
<1>10. AtRoot' /\ AtRanks'
  <2>1. AtRoot'
    BY <1>1, <1>4, <1>7, <1>8 DEF AtRoot
  <2>2. AtRanks'
    <3>1. \A r \in Printing!Ranks : /\ r # Printing!Root => pc[r] # "collecting"
                                    /\ pc[r] = "barrier" => flushes[r] < Len(script)
      BY DEF OInv, AtRanks
    <3> QED BY <3>1, <1>1, <1>4, <1>8 DEF AtRanks
  <2> QED BY <2>1, <2>2
<1>11. /\ \A q \in Printing!Ranks : Taken(q)' = Taken(q)
       /\ \A q \in Printing!Ranks : q # Printing!Root => Printing!Arrived(q)' = Printing!Arrived(q)
       /\ Printing!Arrived(Printing!Root)' = L + 1 /\ Printing!Arrived(Printing!Root) = L
  <2>1. ASSUME NEW q \in Printing!Ranks
        PROVE  Taken(q)' = Taken(q)
    <3>1. q < N
      BY RanksAssumption DEF Printing!Ranks
    <3>2. Taken(q) = L + 1
      BY <3>1, <1>0, <1>1 DEF Taken
    <3>3. Taken(q)' = L + 1 + 0
      BY <1>7, <1>8 DEF Taken
    <3> QED BY <3>2, <3>3, <1>4
  <2>2. \A q \in Printing!Ranks : q # Printing!Root => Printing!Arrived(q)' = Printing!Arrived(q)
    BY <1>1, <1>8 DEF Printing!Arrived
  <2>3. Printing!Arrived(Printing!Root)' = L + 1 /\ Printing!Arrived(Printing!Root) = L
    BY <1>0, <1>1, <1>4, <1>8, Numbers DEF Printing!Arrived
  <2> QED BY <2>1, <2>2, <2>3
<1>12. Together'
  <2>1. ASSUME NEW p \in Printing!Ranks, NEW q \in Printing!Ranks
        PROVE  flushes[p] <= Printing!Arrived(q)'
    <3>1. flushes[p] <= Printing!Arrived(q) /\ flushes[p] \in Nat
      BY Numbers DEF OInv, Together
    <3>2. CASE q = Printing!Root
      <4>1. flushes[p] <= L + 1
        BY <3>1, <3>2, <1>4, <1>11
      <4> QED BY <4>1, <3>2, <1>11
    <3>3. CASE q # Printing!Root
      BY <3>1, <3>3, <1>11
    <3> QED BY <3>2, <3>3
  <2> QED BY <2>1, <1>1 DEF Together
<1>13. OnTheWay'
  BY <1>1, <1>11 DEF OInv, OnTheWay
<1>14. Collected'
  <2>1. Len(messages') = 0
    BY <1>1, EmptySeq
  <2> QED BY <2>1 DEF Collected
<1>15. RoundIntact'
  <2>1. ASSUME NEW k \in 1 .. L + 1
        PROVE  output'[k].texts = [i \in 1 .. N |-> script[k][i-1]]
    <3>1. CASE k = L + 1
      <4>1. output'[k].texts = messages
        BY <3>1, <1>0, <1>7
      <4> QED BY <3>1, <4>1, <1>5
    <3>2. CASE k # L + 1
      <4>1. k \in 1 .. L
        BY <3>2, <1>4
      <4> QED BY <4>1, <1>7 DEF OInv, RoundIntact, Printing!RoundIntact
    <3> QED BY <3>1, <3>2
  <2> QED BY <2>1, <1>1, <1>7 DEF RoundIntact, Printing!RoundIntact
<1>16. /\ doing_table <=> OpenIn(output, L + 1)
       /\ doing_formatting <=> L > 0 /\ output[L].style # "raw"
       /\ \A k \in 1 .. L : LayoutAt(output, k)
  <2>1. Flags /\ LayoutFollowsOutput
    BY DEF OInv
  <2>2. doing_table <=> OpenIn(output, L + 1)
    BY <2>1, <1>0 DEF Flags, Printing!TableOpen, OpenIn
  <2>3. doing_formatting <=> L > 0 /\ output[L].style # "raw"
    BY <2>1, <1>0 DEF Flags
  <2>4. \A k \in 1 .. L : LayoutAt(output, k)
    BY <2>1, <1>7 DEF LayoutFollowsOutput, Printing!LayoutFollowsOutput, LayoutAt, Printing!TableOpen, OpenIn
  <2> QED BY <2>2, <2>3, <2>4
<1>17. OpenIn(output', L + 1) <=> doing_table
  <2>1. OpenIn(output', L + 1) <=> OpenIn(output, L + 1)
    <3>1. L + 1 \in Nat \ {0} /\ \A j \in 1 .. (L + 1) - 1 : output'[j] = output[j]
      BY <1>4, <1>7
    <3> QED BY <3>1, OpenDepends
  <2> QED BY <2>1, <1>16
<1>18. Flags'
  <2>1. OpenIn(output', L + 1 + 1) <=> style = "row" \/ (doing_table /\ style # "lines")
    <3>1. L + 1 \in Nat \ {0} /\ output'[L + 1].style = style
      BY <1>0, <1>4, <1>7
    <3> QED BY <3>1, <1>17, OpenNext
  <2>2. doing_table' <=> style = "row" \/ (doing_table /\ style # "lines")
    BY <1>1, <1>3
  <2>3. Printing!TableOpen(Len(output) + 1)' <=> OpenIn(output', L + 1 + 1)
    BY <1>7 DEF Printing!TableOpen, OpenIn
  <2>4. doing_formatting' <=> Len(output') > 0 /\ output'[Len(output')].style # "raw"
    <3>1. Len(output') > 0 /\ output'[Len(output')].style = style
      BY <1>0, <1>4, <1>7
    <3>2. doing_formatting' <=> style # "raw"
      BY <1>1
    <3> QED BY <3>1, <3>2
  <2> QED BY <2>1, <2>2, <2>3, <2>4 DEF Flags
<1>19. LayoutFollowsOutput'
  <2>1. ASSUME NEW k \in 1 .. L
        PROVE  LayoutAt(output', k)
    <3>1. k \in Nat \ {0} /\ \A j \in 1 .. k : output'[j] = output[j]
      BY <1>4, <1>7
    <3> QED BY <3>1, <1>16, LayoutDepends
  <2>2. LayoutAt(output', L + 1)
    <3>1. /\ output'[L + 1].style = style /\ output'[L + 1].header = Printing!Header(style)
          /\ output'[L + 1].blank = Printing!Blank(style)
      BY <1>0, <1>7
    <3>2. Printing!Header(style) <=> style = "row" /\ ~OpenIn(output', L + 1)
      BY <1>17 DEF Printing!Header
    <3>3. Printing!Blank(style) = (IF style # "raw" /\ ~doing_formatting THEN 1 ELSE 0)
                                + (IF style = "lines" /\ OpenIn(output', L + 1) THEN 1 ELSE 0)
      <4>1. CASE style = "raw"
        BY <4>1 DEF Printing!Blank
      <4>2. CASE style # "raw"
        BY <4>2, <1>17 DEF Printing!Blank
      <4> QED BY <4>1, <4>2
    <3>4. output'[L + 1].header <=> output'[L + 1].style = "row" /\ ~OpenIn(output', L + 1)
      BY <3>1, <3>2
    <3>5. PICK o, k : o = output' /\ k = L + 1
      OBVIOUS
    <3>6. o[k].header <=> o[k].style = "row" /\ ~OpenIn(o, k)
      BY <3>4, <3>5
    <3>7. o[k].blank = (IF o[k].style # "raw" /\ (k = 1 \/ o[k-1].style = "raw") THEN 1 ELSE 0)
                     + (IF o[k].style = "lines" /\ OpenIn(o, k) THEN 1 ELSE 0)
      <4>1. o[k].style = style /\ o[k].blank = Printing!Blank(style)
        BY <3>1, <3>5
      <4>2. (k = 1 \/ o[k-1].style = "raw") <=> ~doing_formatting
        <5>1. k = L + 1 /\ k - 1 = L
          BY <3>5, <1>4
        <5>2. CASE L = 0
          BY <5>1, <5>2, <1>16
        <5>3. CASE L # 0
          <6>1. L \in 1 .. L /\ L > 0 /\ k # 1
            BY <5>1, <5>3, <1>4
          <6>2. o[L] = output[L]
            BY <6>1, <3>5, <1>7
          <6> QED BY <6>1, <6>2, <5>1, <1>16
        <5> QED BY <5>2, <5>3
      <4>3. OpenIn(o, k) <=> OpenIn(output', L + 1)
        BY <3>5
      <4> QED BY <4>1, <4>2, <4>3, <3>3
    <3>8. LayoutAt(o, k)
      BY <3>6, <3>7, LayoutHolds
    <3> QED BY <3>5, <3>8
  <2>3. \A k \in 1 .. L + 1 : LayoutAt(output', k)
    <3>1. \A k \in 1 .. L + 1 : k \in 1 .. L \/ k = L + 1
      BY <1>4
    <3> QED BY <3>1, <2>1, <2>2
  <2> QED BY <2>3, <1>7 DEF LayoutFollowsOutput, Printing!LayoutFollowsOutput, LayoutAt, Printing!TableOpen, OpenIn
<1> QED BY <1>9, <1>10, <1>12, <1>13, <1>14, <1>15, <1>18, <1>19 DEF OInv

\* A rank leaves the barrier.
LEMMA LeaveKeeps ==
    ASSUME OInv, NEW r \in Printing!Ranks, Printing!LeaveBarrier(r)
    PROVE  OInv'
<1>1. /\ pc[r] = "barrier" /\ \A q \in Printing!Ranks : Printing!Arrived(q) >= Printing!Arrived(r)
      /\ flushes' = [flushes EXCEPT ![r] = @ + 1] /\ pc' = [pc EXCEPT ![r] = "writing"]
      /\ script' = script /\ net' = net /\ messages' = messages /\ output' = output
      /\ doing_table' = doing_table /\ doing_formatting' = doing_formatting
  BY DEF Printing!LeaveBarrier
<1>2. Printing!TypeOK
  BY DEF OInv
<1>3. /\ pc'[r] = "writing" /\ flushes'[r] = flushes[r] + 1
      /\ \A q \in Printing!Ranks : q # r => pc'[q] = pc[q] /\ flushes'[q] = flushes[q]
  BY <1>1, <1>2 DEF Printing!TypeOK
<1>4. flushes[r] < Len(script) /\ flushes[r] \in Nat /\ Len(script) \in Nat
  BY <1>1, Numbers DEF OInv, AtRanks
<1>5. Printing!TypeOK'
  <2>1. flushes' \in [Printing!Ranks -> 0 .. Len(script)]
    BY <1>1, <1>2, <1>4 DEF Printing!TypeOK
  <2>2. pc' \in [Printing!Ranks -> {"writing", "collecting", "barrier", "closed"}]
    BY <1>1, <1>2 DEF Printing!TypeOK
  <2> QED BY <2>1, <2>2, <1>1, <1>2 DEF Printing!TypeOK
<1>6. AtRoot' /\ AtRanks'
  <2>1. AtRoot'
    <3>1. CASE r = Printing!Root
      <4>1. flushes[r] + 1 = Len(output) /\ messages = <<>>
        BY <3>1, <1>1 DEF OInv, AtRoot
      <4> QED BY <3>1, <4>1, <1>1, <1>3 DEF AtRoot
    <3>2. CASE r # Printing!Root
      <4>1. pc'[Printing!Root] = pc[Printing!Root] /\ flushes'[Printing!Root] = flushes[Printing!Root]
        BY <3>2, <1>3, Numbers
      <4> QED BY <4>1, <1>1 DEF OInv, AtRoot
    <3> QED BY <3>1, <3>2
  <2>2. AtRanks'
    <3>1. \A q \in Printing!Ranks : /\ q # Printing!Root => pc[q] # "collecting"
                                    /\ pc[q] = "barrier" => flushes[q] < Len(script)
      BY DEF OInv, AtRanks
    <3> QED BY <3>1, <1>1, <1>3 DEF AtRanks
  <2> QED BY <2>1, <2>2
<1>7. \A q \in Printing!Ranks : Printing!Arrived(q)' = Printing!Arrived(q)
  <2>1. ASSUME NEW q \in Printing!Ranks
        PROVE  Printing!Arrived(q)' = Printing!Arrived(q)
    <3>1. CASE q = r
      BY <3>1, <1>1, <1>3, <1>4 DEF Printing!Arrived
    <3>2. CASE q # r
      BY <3>2, <1>3 DEF Printing!Arrived
    <3> QED BY <3>1, <3>2
  <2> QED BY <2>1
<1>8. \A q \in Printing!Ranks : Taken(q)' = Taken(q)
  <2>1. pc'[Printing!Root] = "collecting" <=> pc[Printing!Root] = "collecting"
    BY <1>1, <1>3, Numbers
  <2> QED BY <2>1, <1>1 DEF Taken
<1>9. Together'
  <2>1. ASSUME NEW p \in Printing!Ranks, NEW q \in Printing!Ranks
        PROVE  flushes'[p] <= Printing!Arrived(q)
    <3>1. CASE p = r
      <4>1. Printing!Arrived(r) = flushes[r] + 1 /\ Printing!Arrived(q) >= Printing!Arrived(r)
        BY <1>1 DEF Printing!Arrived
      <4> QED BY <3>1, <4>1, <1>3, Numbers
    <3>2. CASE p # r
      BY <3>2, <1>3 DEF OInv, Together
    <3> QED BY <3>1, <3>2
  <2> QED BY <2>1, <1>7 DEF Together
<1>10. OnTheWay'
  BY <1>1, <1>7, <1>8 DEF OInv, OnTheWay
<1>11. Collected' /\ RoundIntact'
  BY <1>1 DEF OInv, Collected, RoundIntact, Printing!RoundIntact
<1>12. Flags' /\ LayoutFollowsOutput'
  <2>1. \A k : Printing!TableOpen(k)' = Printing!TableOpen(k)
    BY <1>1 DEF Printing!TableOpen
  <2> QED BY <2>1, <1>1 DEF OInv, Flags, LayoutFollowsOutput, Printing!LayoutFollowsOutput
<1> QED BY <1>5, <1>6, <1>9, <1>10, <1>11, <1>12 DEF OInv

\* A stream is destroyed.
LEMMA CloseKeeps ==
    ASSUME OInv, NEW r \in Printing!Ranks, Printing!Close(r)
    PROVE  OInv'
<1>1. /\ pc[r] = "writing" /\ pc' = [pc EXCEPT ![r] = "closed"]
      /\ flushes' = flushes /\ script' = script /\ net' = net
      /\ messages' = messages /\ output' = output
      /\ doing_table' = doing_table /\ doing_formatting' = doing_formatting
  BY DEF Printing!Close
<1>2. Printing!TypeOK
  BY DEF OInv
<1>3. pc'[r] = "closed" /\ \A q \in Printing!Ranks : q # r => pc'[q] = pc[q]
  BY <1>1, <1>2 DEF Printing!TypeOK
<1>4. Printing!TypeOK'
  BY <1>1, <1>2 DEF Printing!TypeOK
<1>5. AtRoot' /\ AtRanks'
  <2>1. AtRoot'
    <3>1. CASE r = Printing!Root
      BY <3>1, <1>1, <1>3 DEF OInv, AtRoot
    <3>2. CASE r # Printing!Root
      BY <3>2, <1>1, <1>3, Numbers DEF OInv, AtRoot
    <3> QED BY <3>1, <3>2
  <2>2. AtRanks'
    <3>1. \A q \in Printing!Ranks : /\ q # Printing!Root => pc[q] # "collecting"
                                    /\ pc[q] = "barrier" => flushes[q] < Len(script)
      BY DEF OInv, AtRanks
    <3> QED BY <3>1, <1>1, <1>3 DEF AtRanks
  <2> QED BY <2>1, <2>2
<1>6. /\ \A q \in Printing!Ranks : Printing!Arrived(q)' = Printing!Arrived(q)
      /\ \A q \in Printing!Ranks : Taken(q)' = Taken(q)
  <2>1. \A q \in Printing!Ranks : pc'[q] = "barrier" <=> pc[q] = "barrier"
    BY <1>1, <1>3
  <2>2. pc'[Printing!Root] = "collecting" <=> pc[Printing!Root] = "collecting"
    BY <1>1, <1>3, Numbers
  <2>3. \A q \in Printing!Ranks : Printing!Arrived(q)' = Printing!Arrived(q)
    BY <2>1, <1>1 DEF Printing!Arrived
  <2> QED BY <2>2, <2>3, <1>1 DEF Taken
<1>7. Together' /\ OnTheWay'
  BY <1>1, <1>6 DEF OInv, Together, OnTheWay
<1>8. Collected' /\ RoundIntact'
  BY <1>1 DEF OInv, Collected, RoundIntact, Printing!RoundIntact
<1>9. Flags' /\ LayoutFollowsOutput'
  <2>1. \A k : Printing!TableOpen(k)' = Printing!TableOpen(k)
    BY <1>1 DEF Printing!TableOpen
  <2> QED BY <2>1, <1>1 DEF OInv, Flags, LayoutFollowsOutput, Printing!LayoutFollowsOutput
<1> QED BY <1>4, <1>5, <1>7, <1>8, <1>9 DEF OInv
-----------------------------------------------------------------------------
\* The first state: nothing was written.
LEMMA InvariantInit == Printing!Init => OInv
<1> SUFFICES ASSUME Printing!Init PROVE OInv
  OBVIOUS
<1>1. Len(script) \in Nat
  BY ScriptAssumption, LenProperties DEF Printing!Init
<1>2. Printing!Root \in Printing!Ranks /\ \A r \in Printing!Ranks : r \in Nat
  BY RanksAssumption DEF Printing!Root, Printing!Ranks
<1>3. Len(output) = 0 /\ Len(messages) = 0 /\ output = <<>> /\ messages = <<>>
  BY EmptySeq DEF Printing!Init
<1>4. Printing!TypeOK
  <2>1. /\ pc \in [Printing!Ranks -> {"writing", "collecting", "barrier", "closed"}]
        /\ flushes \in [Printing!Ranks -> 0 .. Len(script)]
    BY <1>1 DEF Printing!Init
  <2>2. net \in [Printing!Ranks -> Seq(Printing!Texts)] /\ \A r \in Printing!Ranks : Len(net[r]) <= 1
    BY EmptySeq DEF Printing!Init
  <2>3. messages \in Seq(Printing!Texts) /\ Len(messages) <= N
    BY <1>3, EmptySeq, RanksAssumption
  <2>4. output \in Seq([texts: Seq(Printing!Texts), style: Printing!Styles, blank: 0 .. 2, header: BOOLEAN])
    BY <1>3, EmptySeq
  <2> QED BY <2>1, <2>2, <2>3, <2>4 DEF Printing!Init, Printing!TypeOK
<1>5. AtRoot /\ AtRanks
  BY <1>2, <1>3 DEF Printing!Init, AtRoot, AtRanks
<1>6. \A r \in Printing!Ranks : Printing!Arrived(r) = 0 /\ Taken(r) = 0
  BY <1>2, <1>3 DEF Printing!Init, Printing!Arrived, Taken
<1>7. Together /\ OnTheWay
  BY <1>6, EmptySeq DEF Printing!Init, Together, OnTheWay
<1>8. Collected /\ RoundIntact /\ LayoutFollowsOutput
  BY <1>3 DEF Collected, RoundIntact, Printing!RoundIntact, LayoutFollowsOutput, Printing!LayoutFollowsOutput
<1>9. Flags
  <2>1. ~Printing!TableOpen(Len(output) + 1)
    BY <1>3 DEF Printing!TableOpen
  <2> QED BY <2>1, <1>3 DEF Printing!Init, Flags
<1> QED BY <1>4, <1>5, <1>7, <1>8, <1>9 DEF OInv

\* Every step keeps the invariant.
LEMMA InvariantStep == OInv /\ [Printing!Next]_(Printing!vars) => OInv'
<1> SUFFICES ASSUME OInv, [Printing!Next]_(Printing!vars) PROVE OInv'
  OBVIOUS
<1>1. CASE Printing!StartCollecting
  BY <1>1, StartCollectingKeeps
<1>2. CASE Printing!Collect
  BY <1>2, CollectKeeps
<1>3. CASE Printing!PrintRound
  BY <1>3, PrintKeeps
<1>4. ASSUME NEW r \in Printing!Ranks, Printing!Send(r)
      PROVE  OInv'
  BY <1>4, SendKeeps
<1>5. ASSUME NEW r \in Printing!Ranks, Printing!LeaveBarrier(r)
      PROVE  OInv'
  BY <1>5, LeaveKeeps
<1>6. ASSUME NEW r \in Printing!Ranks, Printing!Close(r)
      PROVE  OInv'
  BY <1>6, CloseKeeps
<1>7. CASE UNCHANGED Printing!vars
  <2>1. /\ script' = script /\ pc' = pc /\ flushes' = flushes /\ net' = net
        /\ messages' = messages /\ output' = output
        /\ doing_table' = doing_table /\ doing_formatting' = doing_formatting
    BY <1>7 DEF Printing!vars
  <2>2. /\ \A q \in Printing!Ranks : Printing!Arrived(q)' = Printing!Arrived(q)
        /\ \A q \in Printing!Ranks : Taken(q)' = Taken(q)
        /\ \A k : Printing!TableOpen(k)' = Printing!TableOpen(k)
    BY <2>1 DEF Printing!Arrived, Taken, Printing!TableOpen
  <2>3. Printing!TypeOK' /\ AtRoot' /\ AtRanks'
    BY <2>1 DEF OInv, Printing!TypeOK, AtRoot, AtRanks
  <2>4. Together' /\ OnTheWay' /\ Collected' /\ RoundIntact'
    BY <2>1, <2>2 DEF OInv, Together, OnTheWay, Collected, RoundIntact, Printing!RoundIntact
  <2>5. Flags' /\ LayoutFollowsOutput'
    BY <2>1, <2>2 DEF OInv, Flags, LayoutFollowsOutput, Printing!LayoutFollowsOutput
  <2> QED BY <2>3, <2>4, <2>5 DEF OInv
<1> QED BY <1>1, <1>2, <1>3, <1>4, <1>5, <1>6, <1>7 DEF Printing!Next, Printing!Closed

\* In every reachable state, for any number of ranks and any texts: the flags
\* and the messages under way are those of the output and of the flushes.
THEOREM OstreamInvariant == Printing!Spec => []OInv
<1>1. Printing!Init => OInv
  BY InvariantInit
<1>2. OInv /\ [Printing!Next]_(Printing!vars) => OInv'
  BY InvariantStep
<1> QED BY <1>1, <1>2, PTL DEF Printing!Spec

\* The variables of the stream and of the network keep their types; at most one
\* text of a rank is under way.
THEOREM OstreamTypes == Printing!Spec => []Printing!TypeOK
<1>1. OInv => Printing!TypeOK
  BY DEF OInv
<1> QED BY <1>1, OstreamInvariant, PTL

\* Each printed block is made of what every rank wrote before that flush, in
\* rank order, whatever the speeds of the ranks.
THEOREM OstreamRounds == Printing!Spec => []RoundIntact
<1>1. OInv => RoundIntact
  BY DEF OInv
<1> QED BY <1>1, OstreamInvariant, PTL

\* A flush that returned at any rank has had its texts printed at the root.
THEOREM OstreamFlush == Printing!Spec => []FlushMeansPrinted
<1>1. OInv => FlushMeansPrinted
  <2> SUFFICES ASSUME OInv PROVE FlushMeansPrinted
    OBVIOUS
  <2>1. Printing!Arrived(Printing!Root) = Len(output) /\ Printing!Root \in Printing!Ranks
    BY Numbers
  <2> QED BY <2>1 DEF OInv, Together, FlushMeansPrinted, Printing!FlushMeansPrinted
<1> QED BY <1>1, OstreamInvariant, PTL

\* Headers and blank lines are where the whole output asks for them, although
\* the root keeps two flags only.
THEOREM OstreamLayout == Printing!Spec => []LayoutFollowsOutput
<1>1. OInv => LayoutFollowsOutput
  BY DEF OInv
<1> QED BY <1>1, OstreamInvariant, PTL
=============================================================================
