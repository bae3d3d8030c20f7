--------------------------- MODULE ValueSemantics ---------------------------
(***************************************************************************)
(* What a class with value semantics promises of its objects: each has a   *)
(* value of its own, copying copies it, moving leaves the empty value      *)
(* behind, and a mutation of one object is not seen through any other.     *)
(***************************************************************************)
CONSTANTS
    Objects,
    Values,
    Made,        \* the values that objects are made with out of nothing
    Mutations,   \* pairs of values: a mutation leads from the one to the other
    Empty,       \* the value of a default-constructed or moved-from object
    NoObject     \* not a value: no object of this name is alive

VARIABLE val

TypeOK == val \in [Objects -> Values \cup {Empty, NoObject}]

Init == val \in [Objects -> Values \cup {Empty, NoObject}]

Alive(h) == val[h] # NoObject

Construct(h, v) ==
    ~Alive(h) /\ v \in Made \cup {Empty} /\ val' = [val EXCEPT ![h] = v]

Copy(h, g) == ~Alive(h) /\ Alive(g) /\ val' = [val EXCEPT ![h] = val[g]]

Move(h, g) ==
    ~Alive(h) /\ Alive(g) /\ val' = [val EXCEPT ![h] = val[g], ![g] = Empty]

CopyAssign(h, g) == Alive(h) /\ Alive(g) /\ val' = [val EXCEPT ![h] = val[g]]

MoveAssign(h, g) ==
    Alive(h) /\ Alive(g) /\ val' = [val EXCEPT ![h] = val[g], ![g] = Empty]

Mutate(h, v) ==
    Alive(h) /\ <<val[h], v>> \in Mutations /\ val' = [val EXCEPT ![h] = v]

Destroy(h) == Alive(h) /\ val' = [val EXCEPT ![h] = NoObject]

Next ==
    \E h \in Objects :
        \/ \E v \in Made \cup {Empty} : Construct(h, v)
        \/ \E g \in Objects :
              Copy(h, g) \/ Move(h, g) \/ CopyAssign(h, g) \/ MoveAssign(h, g)
        \/ \E v \in Values : Mutate(h, v)
        \/ Destroy(h)

Spec == Init /\ [][Next]_val
=============================================================================
