----------------------------- MODULE MCArchive -----------------------------
(***************************************************************************)
(* Instances of Archive: families of graphs.                               *)
(***************************************************************************)
EXTENDS Archive

Object(at, class, fields) == [at |-> at, class |-> class, fields |-> fields]
Node == <<<<"data", "none">>, <<"pointer", "N">>>>
Layouts(root) ==
    [root |-> root, N |-> Node,
     L |-> <<<<"data", "none">>>>,                               \* a leaf
     E |-> <<<<"data", "none">>, <<"object", "M">>, <<"pointer", "N">>>>,
     M |-> <<<<"data", "none">>>>,                               \* a member of E
     D |-> <<<<"object", "M">>, <<"data", "none">>>>,            \* at the address of its member
     P |-> <<<<"object", "L">>, <<"data", "none">>>>,            \* a plain class
     F |-> <<<<"pointer", "N">>, <<"object", "M">>>>,            \* a pointer before a member
     G |-> <<<<"data", "none">>, <<"element", "L">>, <<"pointer", "G">>>>]  \* with a container

Heap(root, rest) == [root |-> Object(0, "root", root)] @@ rest
Some(root, fields, rest, tracked) ==
    [layout |-> Layouts(root), heap |-> Heap(fields, rest), tracked |-> tracked, plain |-> {"P"}]

Nodes(next) == [a |-> Object(1, "N", <<1, next.a>>), b |-> Object(2, "N", <<2, next.b>>),
                c |-> Object(3, "N", <<3, next.c>>)]
Nexts == [a : {"a", "b", "c", Null}, b : {"a", "b", "c", Null}, c : {"a", "b", Null}]

\* Two pointers into a list of every shape.
Lists ==
    {<<"full", Some(<<<<"pointer", "N">>, <<"pointer", "N">>>>, <<p, q>>, Nodes(next), {"N"})>> :
       p \in {"a", Null}, q \in {"a", "b", "c"}, next \in Nexts}

\* An object by value between two pointers.
Values ==
    {<<"full", Some(<<<<"pointer", "N">>, <<"object", "N">>, <<"pointer", "N">>>>,
                    <<p, "a", q>>, Nodes(next), {"N"})>> :
       p \in {"b", Null}, q \in {"a", "c"}, next \in Nexts}

\* Two elements of a container, and pointers to one of them and to a member of one.  Class M
\* is tracked as well, or only E, or none.
Elements(d, e) ==
    [d |-> Object(4, "E", <<4, "dm", d>>), dm |-> Object(5, "M", <<5>>),
     e |-> Object(6, "E", <<6, "em", e>>), em |-> Object(7, "M", <<7>>),
     a |-> Object(1, "N", <<1, Null>>), b |-> Object(2, "N", <<2, "a">>)]
Containers ==
    {<<"full", Some(<<<<"element", "E">>, <<"element", "E">>, <<"pointer", "E">>, <<"pointer", "M">>>>,
                    <<"d", "e", p, q>>, Elements(x, y), {"N", "E", "M"})>> :
       p \in {"d", "e"}, q \in {"dm", "em"}, x \in {"a", "b"}, y \in {"a", "b", Null}}
    \cup
    {<<"full", Some(<<<<"element", "E">>, <<"element", "E">>, <<"pointer", "E">>>>,
                    <<"d", "e", p>>, Elements(x, y), {"N", "E"})>> :
       p \in {"d", "e"}, x \in {"a", "b"}, y \in {"a", "b", Null}}
    \cup
    {<<"full", Some(<<<<"element", "E">>, <<"element", "E">>, <<"pointer", "N">>>>,
                    <<"d", "e", p>>, Elements(x, y), {"N"})>> :
       p \in {"a", "b"}, x \in {"a", "b"}, y \in {"a", "b", Null}}

\* A variable that is saved twice, and an object whose first member is at its own address.
Twice ==
    {<<"full", Some(<<<<"object", "N">>, <<"object", "N">>, <<"pointer", "N">>>>,
                    <<"a", "a", q>>, Nodes(next), {"N"})>> :
       q \in {"a", "b"}, next \in {n \in Nexts : n.c = Null}}
    \cup
    {<<"full", Some(<<<<"object", "D">>, <<"pointer", "M">>, <<"pointer", "D">>, <<"pointer", "D">>>>,
                    <<"d", p, q, r>>,
                    [d |-> Object(4, "D", <<"dm", 4>>), dm |-> Object(4, "M", <<5>>),
                     e |-> Object(6, "D", <<"em", 6>>), em |-> Object(6, "M", <<7>>)], {"D", "M"})>> :
       p \in {"dm", "em"}, q \in {"d", "e", Null}, r \in {"d", "e"}}

\* What package archives are for: values, and a pointer to a class that comes first.
Leaf(at, x) == Object(at, "L", <<x>>)
Packaged ==
    {<<"package", g>> : g \in {
       \* values of which two were at the same address, as temporary ones are
       Some(<<<<"data", "none">>, <<"object", "L">>, <<"object", "P">>, <<"element", "L">>, <<"element", "L">>>>,
            <<0, "l", "p", "k", "m">>,
            [l |-> Leaf(1, 1), p |-> Object(2, "P", <<"pl", 2>>), pl |-> Leaf(2, 3),
             k |-> Leaf(4, 4), m |-> Leaf(4, 5)], {}),
       \* values of a class that is saved through pointers elsewhere
       Some(<<<<"object", "L">>, <<"element", "L">>>>, <<"l", "k">>,
            [l |-> Leaf(1, 1), k |-> Leaf(2, 2)], {"L"}),
       \* pointers to two objects
       Some(<<<<"pointer", "L">>, <<"data", "none">>, <<"pointer", "L">>>>, <<"l", 3, "k">>,
            [l |-> Leaf(1, 1), k |-> Leaf(2, 2)], {"L"})}}

\* Elements that do not move as a whole, if class M is tracked: the pointer of the first leads
\* to what is displaced, or the members are not found.  Objects that are pointed to and have
\* elements of their own.
Displaced ==
    {<<"full", Some(<<<<"element", "F">>, <<"pointer", "N">>, <<"pointer", "M">>>>, <<"d", "a", q>>,
                    [d |-> Object(4, "F", <<p, "dm">>), dm |-> Object(5, "M", <<5>>),
                     a |-> Object(1, "N", <<1, "b">>), b |-> Object(2, "N", <<2, Null>>)],
                    tracked)>> :
       p \in {"a", "b", Null}, q \in {"dm", Null}, tracked \in {{"N", "M"}, {"N", "M", "F"}}}
Holders ==
    {<<"full", Some(<<<<"pointer", "G">>, <<"pointer", "G">>>>, <<"g", p>>,
                    [g |-> Object(4, "G", <<4, "gl", q>>), gl |-> Object(5, "L", <<5>>),
                     h |-> Object(6, "G", <<6, "hl", r>>), hl |-> Object(7, "L", <<7>>)],
                    tracked)>> :
       p \in {"g", "h", Null}, q \in {"g", "h", Null}, r \in {"g", "h", Null},
       tracked \in {{"G"}, {"G", "L"}}}

SomeCases ==
    Lists \cup Values \cup Containers \cup Twice \cup Packaged \cup Displaced \cup Holders
=============================================================================
