---------------------------- MODULE Communicator ----------------------------
(***************************************************************************)
(* mpi3::communicator as an owner (communicator.hpp, basic_communicator    *)
(* .hpp): C++ objects that hold MPI communicators, and the attributes MPI  *)
(* keeps with them.  Copying duplicates, moving transfers, destroying      *)
(* disconnects; MPI calls the keyval's copy and delete functions, which    *)
(* allocate and free the attribute's C++ object.  One process is modelled: *)
(* the calls are collective, and all ranks make the same ones.             *)
(***************************************************************************)
EXTENDS Integers

CONSTANTS
    Objects,      \* names of the program's communicator objects
    Instance,     \* the object behind environment::get_world_instance()
    MaxComms,     \* bound: communicators MPI can allocate
    MaxAttrs,     \* bound: attribute objects alive at once
    AttrValues    \* what the program stores in an attribute

ASSUME ObjectAssumption == Instance \in Objects
ASSUME BoundAssumption == MaxComms \in Nat /\ MaxAttrs \in Nat
ASSUME ValueAssumption == AttrValues # {}

\* Values of the handle impl_: MPI_COMM_NULL, the predefined communicators and
\* those that MPI allocates; NoObject says that no object of that name is alive.
Null == 0
World == -1
Self == -2
NoObject == -3
Allocatable == 1 .. MaxComms
Comms == {World, Self} \cup Allocatable

\* Attribute pointers, and the null pointer of a communicator without the key.
Pointers == 1 .. MaxAttrs
NoAttr == 0

\* Groups: all ranks, this rank, and the ranks of one color of a split.
Groups == {"all", "one", "part"}

VARIABLES
    impl,      \* impl_ of each object
    mpi,       \* the MPI library: its communicators and the attribute objects
    aborted    \* MPI_Abort was called

vars == <<impl, mpi, aborted>>

MPIState == [
    live  : SUBSET Allocatable,            \* allocated communicators
    group : [Comms -> Groups],
    attr  : [Comms -> {NoAttr} \cup Pointers],
    heap  : SUBSET Pointers,               \* attribute objects not deleted
    value : [Pointers -> AttrValues] ]

TypeOK ==
    /\ impl \in [Objects -> Comms \cup {Null, NoObject}]
    /\ \A h \in Objects : impl[h] \in Allocatable => impl[h] \in mpi.live
    /\ mpi \in MPIState
    /\ aborted \in BOOLEAN

AnyValue == CHOOSE v \in AttrValues : TRUE

Init ==
    /\ impl = [h \in Objects |-> IF h = Instance THEN World ELSE NoObject]
    /\ mpi = [live  |-> {},
              group |-> [c \in Comms |-> IF c = Self THEN "one" ELSE "all"],
              attr  |-> [c \in Comms |-> NoAttr],
              heap  |-> {},
              value |-> [p \in Pointers |-> AnyValue]]
    /\ aborted = FALSE
-----------------------------------------------------------------------------
(* The MPI calls, as functions of the library's state.                     *)

FreshComms(m) == Allocatable \ m.live
FreshPointers(m) == Pointers \ m.heap
NewComm(m) == CHOOSE c \in FreshComms(m) : TRUE
NewPointer(m) == CHOOSE p \in FreshPointers(m) : TRUE

\* A communicator of some group and no attributes.
Create(m, group) ==
    [m EXCEPT !.live = @ \cup {NewComm(m)},
              !.group[NewComm(m)] = group,
              !.attr[NewComm(m)] = NoAttr]

\* new T{v}, stored as the attribute of c.
Store(m, c, v) ==
    [m EXCEPT !.heap = @ \cup {NewPointer(m)},
              !.value[NewPointer(m)] = v,
              !.attr[c] = NewPointer(m)]

\* delete_fn on the attribute of c, if it has one; a deleted value is forgotten.
Drop(m, c) ==
    [m EXCEPT !.heap = @ \ {m.attr[c]},
              !.value = [p \in Pointers |-> IF p = m.attr[c] THEN AnyValue ELSE @[p]],
              !.attr[c] = NoAttr]

\* Mutant: a copy_fn that copies the pointer and not the object.
DupSharingAttribute(m, c) ==
    LET created == Create(m, m.group[c])
    IN  [created EXCEPT !.attr[NewComm(m)] = m.attr[c]]

\* MPI_Comm_dup: same group, and copy_fn for an attribute.
Dup(m, c) ==
    LET created == Create(m, m.group[c])
    IN  IF m.attr[c] = NoAttr THEN created
        ELSE Store(created, NewComm(m), m.value[m.attr[c]])

\* MPI_Comm_disconnect of an allocated communicator.
Disconnect(m, c) ==
    LET dropped == Drop(m, c) IN [dropped EXCEPT !.live = @ \ {c}, !.group[c] = "all"]

\* What the copy constructor does for impl_: MPI_Comm_dup unless null.
DupUnlessNull(m, c) == IF c = Null THEN m ELSE Dup(m, c)
Duplicated(m, c) == IF c = Null THEN Null ELSE NewComm(m)

\* Room within the bounds for one more communicator with an attribute.
Room == FreshComms(mpi) # {} /\ FreshPointers(mpi) # {}
-----------------------------------------------------------------------------
(* Construction.                                                           *)

Alive(h) == impl[h] # NoObject

Default(h) ==
    /\ ~Alive(h)
    /\ impl' = [impl EXCEPT ![h] = Null]
    /\ UNCHANGED <<mpi, aborted>>

\* environment::self(): an object that holds MPI_COMM_SELF itself.
ReturnSelf(h) ==
    /\ ~Alive(h)
    /\ impl' = [impl EXCEPT ![h] = Self]
    /\ UNCHANGED <<mpi, aborted>>

\* The copy constructor; environment::world() copies the instance.
Copy(h, g) ==
    /\ ~Alive(h) /\ Alive(g) /\ Room
    /\ impl' = [impl EXCEPT ![h] = Duplicated(mpi, impl[g])]
    /\ mpi' = DupUnlessNull(mpi, impl[g])
    /\ UNCHANGED aborted

\* duplicate(): MPI refuses the null communicator, the call throws.
Duplicate(h, g) ==
    /\ ~Alive(h) /\ Alive(g) /\ impl[g] # Null /\ Room
    /\ impl' = [impl EXCEPT ![h] = NewComm(mpi)]
    /\ mpi' = Dup(mpi, impl[g])
    /\ UNCHANGED aborted

\* split(): a communicator of the ranks of this rank's color, with the color as
\* attribute, or the null communicator where the color is undefined.
Split(h, g, color) ==
    /\ ~Alive(h) /\ Alive(g) /\ impl[g] # Null /\ Room
    /\ impl' = [impl EXCEPT ![h] = NewComm(mpi)]
    /\ mpi' = Store(Create(mpi, "part"), NewComm(mpi), color)
    /\ UNCHANGED aborted
SplitUndefined(h, g) ==
    /\ ~Alive(h) /\ Alive(g) /\ impl[g] # Null
    /\ impl' = [impl EXCEPT ![h] = Null]
    /\ UNCHANGED <<mpi, aborted>>

\* The move constructor exchanges the source's handle for null.
Move(h, g) ==
    /\ ~Alive(h) /\ Alive(g)
    /\ impl' = [impl EXCEPT ![h] = impl[g], ![g] = Null]
    /\ UNCHANGED <<mpi, aborted>>
-----------------------------------------------------------------------------
(* Assignment and destruction.                                             *)

\* MPI_Comm_disconnect refuses the predefined communicators; the exception is
\* caught and the program aborted.
RefusesDisconnect(c) == c \in {World, Self}

DisconnectUnlessNull(m, c) == IF c = Null THEN m ELSE Disconnect(m, c)

\* An assignment to an object that holds a predefined communicator.
AssignAborts(h) ==
    /\ RefusesDisconnect(impl[h])
    /\ aborted' = TRUE
    /\ UNCHANGED <<impl, mpi>>

\* Move assignment disconnects what the target holds, then exchanges; for h = g
\* the exchange takes the null handle that the disconnection left.
MoveAssign(h, g) ==
    /\ Alive(h) /\ Alive(g) /\ ~RefusesDisconnect(impl[h])
    /\ impl' = IF h = g THEN [impl EXCEPT ![h] = Null]
               ELSE [impl EXCEPT ![h] = impl[g], ![g] = Null]
    /\ mpi' = DisconnectUnlessNull(mpi, impl[h])
    /\ UNCHANGED aborted

\* Mutant: the target is released before the source is duplicated.
CopyAssignReleaseFirst(h, g) ==
    /\ Alive(h) /\ Alive(g) /\ ~RefusesDisconnect(impl[h]) /\ Room
    /\ LET released == DisconnectUnlessNull(mpi, impl[h])
       IN  /\ impl' = [impl EXCEPT ![h] = Duplicated(released, impl[g])]
           /\ mpi' = DupUnlessNull(released, impl[g])
    /\ UNCHANGED aborted

\* Copy assignment: a temporary copy of the source is moved into the target.
CopyAssign(h, g) ==
    /\ Alive(h) /\ Alive(g) /\ ~RefusesDisconnect(impl[h]) /\ Room
    /\ impl' = [impl EXCEPT ![h] = Duplicated(mpi, impl[g])]
    /\ mpi' = DisconnectUnlessNull(DupUnlessNull(mpi, impl[g]), impl[h])
    /\ UNCHANGED aborted

\* The destructor leaves null and the predefined communicators alone.
Destroy(h) ==
    /\ Alive(h) /\ h # Instance
    /\ impl' = [impl EXCEPT ![h] = NoObject]
    /\ mpi' = IF impl[h] \in {Null, World, Self} THEN mpi ELSE Disconnect(mpi, impl[h])
    /\ UNCHANGED aborted
-----------------------------------------------------------------------------
(* Attributes under one key, as set_attribute, attribute and               *)
(* delete_attribute give access to them.                                   *)

\* set_attribute: MPI deletes a former value.
SetAttribute(h, v) ==
    /\ Alive(h) /\ impl[h] # Null /\ Room
    /\ mpi' = Store(Drop(mpi, impl[h]), impl[h], v)
    /\ UNCHANGED <<impl, aborted>>

\* attribute(k) = v: the object is created when missing, then assigned through
\* the reference.
Attribute(h, v) ==
    /\ Alive(h) /\ impl[h] # Null /\ Room
    /\ mpi' = IF mpi.attr[impl[h]] = NoAttr THEN Store(mpi, impl[h], v)
              ELSE [mpi EXCEPT !.value[mpi.attr[impl[h]]] = v]
    /\ UNCHANGED <<impl, aborted>>

DeleteAttribute(h) ==
    /\ Alive(h) /\ impl[h] # Null /\ mpi.attr[impl[h]] # NoAttr
    /\ mpi' = Drop(mpi, impl[h])
    /\ UNCHANGED <<impl, aborted>>
-----------------------------------------------------------------------------
\* The program neither destroys nor assigns to the world instance.
Own == Objects \ {Instance}

Constructs(h) ==
    \/ Default(h)
    \/ \E g \in Objects :
          \/ Copy(h, g) \/ Duplicate(h, g) \/ SplitUndefined(h, g)
          \/ \E v \in AttrValues : Split(h, g, v)
    \/ \E g \in Own : Move(h, g)

Assigns(h) ==
    \/ \E g \in Objects : CopyAssign(h, g)
    \/ \E g \in Own : MoveAssign(h, g)

Attributes(h) ==
    (\E v \in AttrValues : SetAttribute(h, v) \/ Attribute(h, v)) \/ DeleteAttribute(h)

Next ==
    /\ ~aborted
    /\ \/ \E h \in Own : Constructs(h) \/ Assigns(h) \/ Destroy(h)
       \/ \E h \in Objects : Attributes(h)

\* Programs that do not call environment::self().
Spec == Init /\ [][Next]_vars

\* Programs that do.
SelfNext == Next \/ (~aborted /\ \E h \in Own : ReturnSelf(h) \/ AssignAborts(h))
SelfSpec == Init /\ [][SelfNext]_vars
-----------------------------------------------------------------------------
(* Properties                                                              *)

\* Each allocated communicator is held by exactly one object: none leaks, none
\* is disconnected twice or used after another object disconnected it.
OneOwner ==
    \A c \in mpi.live :
        \E h \in Objects : impl[h] = c /\ \A g \in Objects : impl[g] = c => g = h

\* The attribute objects on the heap are those that some communicator refers to,
\* each by one: copies do not share them, and none is leaked or deleted twice.
AttributesOwned ==
    LET inUse == mpi.live \cup {World, Self}
    IN  /\ mpi.heap = {mpi.attr[c] : c \in inUse} \ {NoAttr}
        /\ \A c, d \in inUse : mpi.attr[c] = mpi.attr[d] /\ mpi.attr[c] # NoAttr => c = d

\* Over any series of calls, communicators and attributes have one owner each.
Ownership == OneOwner /\ AttributesOwned

\* What a program sees of a communicator: its group and its attribute.
Content(m, c) ==
    [group |-> m.group[c],
     attr  |-> IF m.attr[c] = NoAttr THEN {} ELSE {m.value[m.attr[c]]}]

Contents == [group : Groups, attr : {{}} \cup {{v} : v \in AttrValues}]

\* Besides copies a program makes null objects and, by a split, communicators with
\* their color; it changes the attribute of a communicator, never the group.
MadeContents == [group : {"part"}, attr : {{v} : v \in AttrValues}]
AttributeChanges == {change \in Contents \X Contents : change[1].group = change[2].group}

EmptyValue == [group |-> "none", attr |-> {}]
NoValue == [group |-> "no object", attr |-> {}]

\* The value of an object that holds c.
ValueOf(m, c) ==
    CASE c = NoObject -> NoValue
      [] c = Null     -> EmptyValue
      [] OTHER        -> Content(m, c)

ObjectValues == [h \in Objects |-> ValueOf(mpi, impl[h])]

Abstract == INSTANCE ValueSemantics WITH
    Objects <- Objects,
    Values <- Contents,
    Made <- MadeContents,
    Mutations <- AttributeChanges,
    Empty <- EmptyValue,
    NoObject <- NoValue,
    val <- ObjectValues

\* README, "communicators with value-semantics": objects behave like values; an
\* attribute set through one object is not seen through another.
HasValueSemantics == Abstract!Spec

\* operator==: the same object, or congruent -- not identical -- communicators.
Equal(h, g) ==
    h = g \/ (impl[h] # impl[g] /\ mpi.group[impl[h]] = mpi.group[impl[g]])

\* README: "A communicator and their copies are different entities that compare
\* equal": objects of the same group do.
CopiesCompareEqual ==
    \A h, g \in Objects :
        /\ impl[h] \in Comms /\ impl[g] \in Comms
        /\ mpi.group[impl[h]] = mpi.group[impl[g]]
        => Equal(h, g)

\* Assignment does not abort the program, whatever the target holds.
AssignmentNeverAborts == ~aborted
=============================================================================
