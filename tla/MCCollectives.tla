----------------------------- MODULE MCCollectives -----------------------------
(***************************************************************************)
(* Collectives for TLC: programs of one call and of two calls, by three    *)
(* ranks with equal and with different numbers of values.                  *)
(***************************************************************************)
EXTENDS Collectives

Call(op, root, n) == [op |-> op, root |-> root, n |-> n]
Equal(k) == [r \in Ranks |-> k]
Uneven == [r \in Ranks |-> (r + 1) % Size]

Rooted == {"broadcast", "reduce", "reduce_in_place", "gather", "gather_package"}
Unrooted == {"barrier", "all_reduce", "all_reduce_in_place", "all_gather", "iall_gather"}

Calls ==
    {Call(op, root, Equal(2)) : op \in Rooted, root \in {0, 1}}
    \cup {Call(op, 0, Equal(2)) : op \in Unrooted}
    \cup {Call(op, 1, Equal(1)) : op \in {"ibroadcast", "igather", "scatter", "gather_package"}}
    \cup {Call("gather_package", 1, Equal(0))}
    \cup {Call("scatter_list", 2, Equal(Size)), Call("all_to_all_in_place", 0, Equal(Size))}
    \cup {Call(op, 0, Uneven) : op \in {"all_gatherv", "all_gatherv_output"}}
    \cup {Call("broadcast_value", root, Uneven) : root \in {0, 1, 2}}
    \cup {Call(op, 0, n) : op \in {"max_element", "max_location", "max_location_other"}, n \in {Uneven, Equal(2)}}
    \cup {Call(op, 0, Uneven) : op \in {"max", "min", "and", "or", "gatherv_told"}}
    \cup {Call("gatherv", root, Uneven) : root \in {0, 1}}
    \cup {Call(op, 1, Equal(1)) : op \in {"reduce_value", "gather_value"}}
    \cup {Call(op, 0, Equal(1)) : op \in {"all_reduce_value", "all_gather_value"}}

\* What the second call may be.
Second == {c \in Calls : c.op \in {"gather_package", "ibroadcast", "broadcast_value", "barrier"}}

MCPrograms == {<<c, d>> : c \in Calls, d \in Second}
=============================================================================
