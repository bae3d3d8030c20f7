------------------------------- MODULE Archive -------------------------------
(***************************************************************************)
(* Objects that point to each other, saved to an archive and loaded from   *)
(* it: the tracking of objects by address and of classes by number in      *)
(* serialization_hack/basic_oarchive.cpp and basic_iarchive.cpp, which the *)
(* archives of package_archive.hpp build on.  Those archives store only    *)
(* the data: the numbers of classes and objects, and whether a class is    *)
(* tracked, are neither written nor read ("empty functions").  An archive  *)
(* of kind "full" stores them, as the archives of Boost do.                *)
(*                                                                         *)
(* A graph has objects, each with an address and a class; a class has a    *)
(* layout: data, objects it holds as members ("object") or in a container  *)
(* that moves them in after they are loaded ("element"), and pointers.     *)
(* The objects that the program saves itself are those of "root".          *)
(***************************************************************************)
EXTENDS Integers, Sequences, FiniteSets, SequencesExt, FiniteSetsExt

CONSTANT Cases       \* pairs of an archive's kind and a graph

VARIABLES
    case,      \* the kind of archive and the graph
    phase,     \* "save", "load", "loaded", "failed" or "deleted"
    todo,      \* what is left to do by the calls that have not returned, or was when it failed
    stream,    \* what the archive stores
    saver,     \* basic_oarchive_impl
    pos,       \* what is read next
    loader,    \* basic_iarchive_impl
    memory,    \* the objects made by loading, by their addresses
    made,      \* how many times memory was allocated
    error      \* why it failed

vars == <<case, phase, todo, stream, saver, pos, loader, memory, made, error>>

Kind == case[1]
Graph == case[2]
ClassOf(o) == Graph.heap[o].class
Layout(c) == Graph.layout[c]
Tracked(c) == c \in Graph.tracked          \* saved through a pointer somewhere
HasInfo(c) == c \notin Graph.plain         \* basic_oserializer::class_info
Null == "null"
Held == {"object", "element"}              \* part of what holds it, and destroyed with it

\* Addresses of loaded objects: a piece of memory, and a place in it.
NoAddress == <<0, <<>>>>
Wild == <<-1, <<>>>>

\* An object, as aobject and as the pending one, is known by address and class.
None == <<0, "none">>
Key(o) == <<Graph.heap[o].at, ClassOf(o)>>

\* A new basic_oarchive_impl and a new basic_iarchive_impl.
NewSaver ==
    [classes |-> <<>>, known |-> <<>>, ready |-> {}, stored |-> {}, pending |-> None]

NewLoader ==
    [classes |-> <<>>, tracking |-> <<>>, objects |-> <<>>, recent |-> 0, end |-> 0,
     pending |-> [at |-> NoAddress, class |-> "none"]]

Init ==
    /\ case \in Cases
    /\ phase = "save"
    /\ todo = [i \in DOMAIN Layout("root") |->
                 [do |-> Layout("root")[i][1], class |-> Layout("root")[i][2],
                  of |-> Graph.heap["root"].fields[i]]]
    /\ stream = <<>> /\ pos = 1 /\ memory = <<>> /\ made = 0 /\ error = "none"
    /\ saver = NewSaver /\ loader = NewLoader
-----------------------------------------------------------------------------
(* Shared by both sides.                                                   *)

Task == Head(todo)
Then(tasks) == todo' = tasks \o Tail(todo)
Fail(why) == phase' = "failed" /\ error' = why /\ UNCHANGED todo

\* register_type: a class is numbered when it is first seen.
Register(classes, c) == IF c \in ToSet(classes) THEN classes ELSE Append(classes, c)
Number(seq, x) == (CHOOSE i \in DOMAIN seq : seq[i] = x) - 1

\* save and load of class_id_type, tracking_type and object_id_type are empty.
Stored(tag) == tag = "data" \/ Kind = "full"
NullPointerTag == -1
-----------------------------------------------------------------------------
(* Saving.                                                                 *)

Saving(do) == phase = "save" /\ todo # <<>> /\ Task.do \in do
Emit(records) == stream' = stream \o SelectSeq(records, LAMBDA r : Stored(r[1]))

Contents(o) ==
    [i \in DOMAIN Layout(ClassOf(o)) |->
       [do |-> Layout(ClassOf(o))[i][1], class |-> Layout(ClassOf(o))[i][2],
        of |-> Graph.heap[o].fields[i]]]

SaveData ==
    /\ Saving({"data"})
    /\ Emit(<<<<"data", Task.of>>>>)
    /\ Then(<<>>)
    /\ UNCHANGED <<case, phase, saver, pos, loader, memory, made, error>>

Registered == Register(saver.classes, Task.class)

\* The first time that a class is saved: whether it is tracked.  The class_id_optional_type
\* before it is stored by no archive.
ObjectPreamble ==
    IF HasInfo(Task.class) /\ Task.class \notin saver.ready
    THEN <<<<"tracking", Tracked(Task.class)>>>> ELSE <<>>

PointerPreamble ==
    <<<<"class", Number(Registered, Task.class)>>>> \o ObjectPreamble

\* basic_oarchive_impl::save_object.
SaveObject ==
    /\ Saving({"object", "element"})
    /\ LET o == Task.of
           c == Task.class
           seen == Key(o) \in ToSet(saver.known)
           known == IF seen THEN saver.known ELSE Append(saver.known, Key(o))
           id == Number(known, Key(o))
           marked == [saver EXCEPT !.classes = Registered,
                                   !.ready = IF HasInfo(c) THEN @ \cup {c} ELSE @]
       IN  \/ /\ saver.pending = Key(o)        \* its preamble was saved with the pointer
              /\ Then(Contents(o))
              /\ UNCHANGED <<stream, saver, phase, error>>
           \/ /\ saver.pending # Key(o) /\ ~Tracked(c)
              /\ Emit(ObjectPreamble) /\ saver' = marked
              /\ Then(Contents(o))
              /\ UNCHANGED <<phase, error>>
           \/ /\ saver.pending # Key(o) /\ Tracked(c) /\ ~seen
              /\ Emit(ObjectPreamble \o <<<<"id", id>>>>)
              /\ saver' = [marked EXCEPT !.known = known]
              /\ Then(Contents(o))
              /\ UNCHANGED <<phase, error>>
           \/ /\ saver.pending # Key(o) /\ Tracked(c) /\ seen /\ id \in saver.stored
              /\ Fail("pointer_conflict") /\ saver' = marked
              /\ Emit(ObjectPreamble)
           \/ /\ saver.pending # Key(o) /\ Tracked(c) /\ seen /\ id \notin saver.stored
              /\ Emit(ObjectPreamble \o <<<<"id", id>>>>) /\ saver' = marked
              /\ Then(<<>>)
              /\ UNCHANGED <<phase, error>>
    /\ UNCHANGED <<case, pos, loader, memory, made>>

\* Mutant: an object saved through a pointer is not remembered as such.
SavePointerForgets ==
    /\ Saving({"pointer"})
    /\ LET o == Task.of
           seen == Task.of # Null /\ Key(o) \in ToSet(saver.known)
           known == IF Task.of = Null \/ seen THEN saver.known ELSE Append(saver.known, Key(o))
           marked == [saver EXCEPT !.classes = Registered, !.ready = @ \cup {Task.class}]
       IN  \/ /\ o = Null
              /\ Emit(<<<<"class", NullPointerTag>>>>)
              /\ saver' = [saver EXCEPT !.classes = Registered]
              /\ Then(<<>>)
           \/ /\ o # Null /\ seen
              /\ Emit(PointerPreamble \o <<<<"id", Number(known, Key(o))>>>>) /\ saver' = marked
              /\ Then(<<>>)
           \/ /\ o # Null /\ ~seen
              /\ Emit(PointerPreamble \o <<<<"id", Number(known, Key(o))>>>>)
              /\ saver' = [marked EXCEPT !.known = known, !.pending = Key(o)]
              /\ Then(<<[do |-> "object", class |-> Task.class, of |-> o],
                        [do |-> "saved", class |-> saver.pending, of |-> -1]>>)
    /\ UNCHANGED <<case, phase, pos, loader, memory, made, error>>

\* Saving a pointer: the class is registered, and basic_oarchive_impl::save_pointer saves
\* what it points to, if that is new, with the object pending.
SavePointer ==
    /\ Saving({"pointer"})
    /\ LET o == Task.of
           seen == Task.of # Null /\ Key(o) \in ToSet(saver.known)
           known == IF Task.of = Null \/ seen THEN saver.known ELSE Append(saver.known, Key(o))
           marked == [saver EXCEPT !.classes = Registered, !.ready = @ \cup {Task.class}]
       IN  \/ /\ o = Null
              /\ Emit(<<<<"class", NullPointerTag>>>>)
              /\ saver' = [saver EXCEPT !.classes = Registered]
              /\ Then(<<>>)
           \/ /\ o # Null /\ seen
              /\ Emit(PointerPreamble \o <<<<"id", Number(known, Key(o))>>>>) /\ saver' = marked
              /\ Then(<<>>)
           \/ /\ o # Null /\ ~seen
              /\ Emit(PointerPreamble \o <<<<"id", Number(known, Key(o))>>>>)
              /\ saver' = [marked EXCEPT !.known = known, !.pending = Key(o)]
              /\ Then(<<[do |-> "object", class |-> Task.class, of |-> o],
                        [do |-> "saved", class |-> saver.pending, of |-> Number(known, Key(o))]>>)
    /\ UNCHANGED <<case, phase, pos, loader, memory, made, error>>

\* save_pointer returns: the object pending before is again, and this one is remembered
\* as stored through a pointer.
PointerSaved ==
    /\ Saving({"saved"})
    /\ saver' = [saver EXCEPT !.pending = Task.class, !.stored = @ \cup {Task.of}]
    /\ Then(<<>>)
    /\ UNCHANGED <<case, phase, stream, pos, loader, memory, made, error>>
-----------------------------------------------------------------------------
(* Loading.                                                                *)

Loading(do) == phase = "load" /\ todo # <<>> /\ Task.do \in do

\* What the next record of the stream gives, and where the one after it is.  What is not
\* stored keeps the value that its type is made with.
Given(p, tag) ==
    IF ~Stored(tag) THEN (IF tag = "tracking" THEN FALSE ELSE 0)
    ELSE IF p \in DOMAIN stream THEN stream[p][2] ELSE 0
Past(p, tag) == IF Stored(tag) THEN p + 1 ELSE p

\* A program that saves a variable again also loads it again.
Variable(c, i) ==
    LET same == {j \in 1..i : /\ c = "root" /\ Layout(c)[j] = Layout(c)[i]
                              /\ Layout(c)[i][1] = "object"
                              /\ Graph.heap["root"].fields[j] = Graph.heap["root"].fields[i]}
    IN  IF same = {} THEN i ELSE Min(same)

\* The members of the object at address t are to be loaded.
Members(t, c) ==
    [i \in DOMAIN Layout(c) |->
       [do |-> Layout(c)[i][1], class |-> Layout(c)[i][2], into |-> t, place |-> i,
        at |-> Variable(c, i)]]

Unset(c) == [class |-> c, fields |-> [i \in DOMAIN Layout(c) |-> NoAddress]]

\* The object at t gets a field.
Put(mem, t, i, x) == [mem EXCEPT ![t].fields[i] = x]
Made(mem, t, c) == mem @@ (t :> Unset(c))

StartLoading ==
    /\ phase = "save" /\ todo = <<>>
    /\ phase' = "load"
    /\ made' = 1 /\ memory' = Made(<<>>, <<1, <<>>>>, "root")
    /\ todo' = Members(<<1, <<>>>>, "root")
    /\ UNCHANGED <<case, stream, saver, pos, loader, error>>

LoadData ==
    /\ Loading({"data"})
    /\ IF pos \in DOMAIN stream
       THEN /\ memory' = Put(memory, Task.into, Task.place, <<stream[pos][2]>>)
            /\ pos' = pos + 1 /\ Then(<<>>)
            /\ UNCHANGED <<phase, error>>
       ELSE /\ Fail("overrun") /\ UNCHANGED <<memory, pos>>
    /\ UNCHANGED <<case, stream, saver, loader, made>>

\* load_preamble: whether the class is tracked, where the archive says it.
LoadsPreamble(c) == c \notin DOMAIN loader.tracking /\ HasInfo(c)
Tracking(c, p) ==
    CASE c \in DOMAIN loader.tracking -> loader.tracking[c]
      [] LoadsPreamble(c)             -> Given(p, "tracking")
      [] OTHER                        -> Tracked(c)
AfterPreamble(c, p) == IF LoadsPreamble(c) THEN Past(p, "tracking") ELSE p
\* Mutant: only the classes of pointers are numbered.
PreparedUnregistered(c, p) == [loader EXCEPT !.tracking = @ @@ (c :> Tracking(c, p))]

Prepared(c, p) ==
    [loader EXCEPT !.classes = Register(@, c),
                   !.tracking = @ @@ (c :> Tracking(c, p))]

\* basic_iarchive_impl::load_object, into the address t.
LoadInto(t, c, mem, after) ==
    LET tracking == Tracking(c, pos)
        p == AfterPreamble(c, pos)
        prepared == Prepared(c, pos)
        id == Len(loader.objects)
        returns == <<[do |-> "recent", class |-> c, into |-> t, place |-> id]>> \o after
    IN  IF loader.pending = [at |-> t, class |-> c]
        THEN /\ memory' = mem /\ Then(Members(t, c) \o after)
             /\ UNCHANGED <<pos, loader>>
        ELSE IF ~tracking
        THEN /\ memory' = mem /\ Then(Members(t, c) \o returns)
             /\ pos' = p /\ loader' = prepared
        ELSE IF Given(p, "id") < id          \* track: it was read already
        THEN /\ memory' = mem /\ Then(after)
             /\ pos' = Past(p, "id") /\ loader' = prepared
        ELSE /\ memory' = mem /\ Then(Members(t, c) \o returns)
             /\ pos' = Past(p, "id")
             /\ loader' = [prepared EXCEPT
                             !.objects = Append(@, [at |-> t, class |-> c, pointer |-> FALSE]),
                             !.end = id + 1]

\* A member is in the object that holds it.
LoadMember ==
    /\ Loading({"object"})
    /\ LET t == <<Task.into[1], Append(Task.into[2], Task.at)>>
       IN  LoadInto(t, Task.class,
                    Made(Put(memory, Task.into, Task.place, t), t, Task.class), <<>>)
    /\ UNCHANGED <<case, phase, stream, saver, made, error>>

\* What a pointer points to is where it was allocated.
LoadTarget ==
    /\ Loading({"target"})
    /\ LoadInto(Task.into, Task.class, memory, <<>>)
    /\ UNCHANGED <<case, phase, stream, saver, made, error>>

\* An element of a container is loaded into a variable of its own, and moved.
LoadElement ==
    /\ Loading({"element"})
    /\ LET t == <<made + 1, <<>>>>
       IN  /\ LoadInto(t, Task.class, Made(memory, t, Task.class),
                       <<[Task EXCEPT !.do = "move"] @@ [from |-> t[1]]>>)
           /\ made' = made + 1
    /\ UNCHANGED <<case, phase, stream, saver, error>>

\* load_object returns.
ObjectLoaded ==
    /\ Loading({"recent"})
    /\ loader' = [loader EXCEPT !.recent = Task.place]
    /\ Then(<<>>)
    /\ UNCHANGED <<case, phase, stream, saver, pos, memory, made, error>>

\* Mutant: only the object that was moved is found again, not the members in it.
ResetOne(objects, from, to, old, new) ==
    [i \in DOMAIN objects |->
       IF i > from /\ i <= to /\ objects[i].at = <<old, <<>>>>
       THEN [objects[i] EXCEPT !.at = <<new, <<>>>>] ELSE objects[i]]

\* reset_object_address: from the object that was moved on, those loaded in it are
\* displaced as it was.
ResetAddress(objects, from, to, old, new) ==
    LET first == {i \in DOMAIN objects : i > from /\ i <= to /\ objects[i].at = <<old, <<>>>>}
    IN  [i \in DOMAIN objects |->
           IF i > to \/ ~(\E f \in first : i >= f) THEN objects[i]
           ELSE [objects[i] EXCEPT !.at = IF @[1] = old THEN <<new, @[2]>> ELSE Wild]]

\* The element is moved into its container, and the variable is gone.
MoveElement ==
    /\ Loading({"move"})
    /\ LET old == Task.from
           new == made + 1
           Moved(a) == IF a[1] = old THEN <<new, a[2]>> ELSE a
           kept == {a \in DOMAIN memory : a[1] # old}
           there == {a \in DOMAIN memory : a[1] = old}
           mem == [a \in kept \cup {Moved(a) : a \in there} |->
                     IF a[1] = new
                     THEN LET m == memory[<<old, a[2]>>]
                          IN  [m EXCEPT !.fields = [i \in DOMAIN @ |->
                                 IF Layout(m.class)[i][1] = "object" THEN Moved(@[i]) ELSE @[i]]]
                     ELSE memory[a]]
       IN  /\ memory' = Put(mem, Task.into, Task.place, <<new, <<>>>>)
           /\ made' = new
           /\ loader' = [loader EXCEPT
                           !.objects = ResetAddress(@, loader.recent, loader.end, old, new)]
    /\ Then(<<>>)
    /\ UNCHANGED <<case, phase, stream, saver, pos, error>>

\* The program registers the class of the pointer, and basic_iarchive_impl::load_pointer
\* loads what the archive says it points to.
LoadPointer ==
    /\ Loading({"pointer"})
    /\ LET classes == Register(loader.classes, Task.class)
           cid == Given(pos, "class")
           p == Past(pos, "class")
           c == IF cid + 1 \in DOMAIN classes THEN classes[cid + 1] ELSE "none"
           tracking == Tracking(c, p)
           q == AfterPreamble(c, p)
           prepared == [Prepared(c, p) EXCEPT !.classes = classes]
           t == <<made + 1, <<>>>>
           id == Len(loader.objects)
           target == [do |-> "target", class |-> c, into |-> t, place |-> 0]
           returns == [do |-> "loaded", class |-> loader.pending, into |-> loader.end, place |-> id + 1]
       IN  IF cid = NullPointerTag
           THEN /\ memory' = Put(memory, Task.into, Task.place, NoAddress)
                /\ loader' = [loader EXCEPT !.classes = classes]
                /\ pos' = p /\ Then(<<>>) /\ UNCHANGED <<made, phase, error>>
           ELSE IF ~Tracked(c) \/ c # Task.class     \* another class, which no pointer serializer
           THEN /\ Fail("class") /\ UNCHANGED <<memory, loader, pos, made>>  \* or cast is for
           ELSE IF tracking /\ Given(q, "id") < id   \* track: it was read already
           THEN /\ memory' = Put(memory, Task.into, Task.place,
                                 loader.objects[Given(q, "id") + 1].at)
                /\ loader' = prepared
                /\ pos' = Past(q, "id") /\ Then(<<>>) /\ UNCHANGED <<made, phase, error>>
           ELSE /\ memory' = Made(Put(memory, Task.into, Task.place, t), t, c)
                /\ made' = made + 1
                /\ IF tracking
                   THEN /\ loader' = [prepared EXCEPT
                                        !.objects = Append(@, [at |-> t, class |-> c,
                                                               pointer |-> FALSE]),
                                        !.pending = [at |-> t, class |-> c]]
                        /\ pos' = Past(q, "id") /\ Then(<<target, returns>>)
                   ELSE /\ loader' = [prepared EXCEPT !.pending.at = t]
                        /\ pos' = q /\ Then(<<target>>)
                /\ UNCHANGED <<phase, error>>
    /\ UNCHANGED <<case, stream, saver>>

\* load_pointer returns, the object tracked.
PointerLoaded ==
    /\ Loading({"loaded"})
    /\ loader' = [loader EXCEPT !.pending = Task.class, !.end = Task.into,
                                !.objects[Task.place].pointer = TRUE]
    /\ Then(<<>>)
    /\ UNCHANGED <<case, phase, stream, saver, pos, memory, made, error>>

AllLoaded ==
    /\ phase = "load" /\ todo = <<>>
    /\ phase' = "loaded"
    /\ UNCHANGED <<case, todo, stream, saver, pos, loader, memory, made, error>>

\* The objects that are members or elements of some, and these.
WithMembers(places) ==
    LET step(S) == S \cup UNION {{memory[a].fields[i] :
                      i \in {j \in DOMAIN memory[a].fields :
                                /\ Layout(memory[a].class)[j][1] \in Held
                                /\ memory[a].fields[j] # NoAddress}} : a \in S \cap DOMAIN memory}
        closure[n \in 0..Cardinality(DOMAIN memory)] ==
            IF n = 0 THEN places ELSE step(closure[n - 1])
    IN  closure[Cardinality(DOMAIN memory)]

Destroy(places) ==
    memory' = [a \in DOMAIN memory \ WithMembers(places) |-> memory[a]]

\* What load_object_data and load_object_ptr call throws: the archive has no more, there is
\* no memory, or the class refuses what it reads.  The variables of elements go away.
LoadThrows ==
    /\ Loading({"data", "element", "pointer", "target"})
    /\ Fail("exception")
    /\ Destroy({<<todo[i].from, <<>>>> : i \in {j \in DOMAIN todo : todo[j].do = "move"}})
    /\ UNCHANGED <<case, stream, saver, pos, loader, made>>

\* Mutant: the objects that were not allocated by the archive are deleted too.
DeleteAll ==
    /\ phase \in {"loaded", "failed"} /\ made > 0
    /\ phase' = "deleted"
    /\ Destroy({loader.objects[i].at : i \in DOMAIN loader.objects})
    /\ UNCHANGED <<case, todo, stream, saver, pos, loader, made, error>>

\* delete_created_pointers, after loading or when it failed: the objects that are marked as
\* made for pointers are destroyed, with what is in them.
DeleteCreated ==
    /\ phase \in {"loaded", "failed"} /\ made > 0
    /\ phase' = "deleted"
    /\ Destroy({loader.objects[i].at :
                  i \in {j \in DOMAIN loader.objects : loader.objects[j].pointer}})
    /\ UNCHANGED <<case, todo, stream, saver, pos, loader, made, error>>
-----------------------------------------------------------------------------
Ended == phase \in {"deleted", "failed"} /\ UNCHANGED vars

Next ==
    \/ SaveData \/ SaveObject \/ SavePointer \/ PointerSaved \/ StartLoading
    \/ LoadData \/ LoadMember \/ LoadTarget \/ LoadElement \/ ObjectLoaded
    \/ MoveElement \/ LoadPointer \/ PointerLoaded \/ AllLoaded \/ LoadThrows
    \/ DeleteCreated
    \/ Ended

Spec == Init /\ [][Next]_vars
-----------------------------------------------------------------------------
(* What an archive promises.                                               *)

\* The objects of the graph with the addresses where loading put them: what the fields
\* of one lead to corresponds when the objects do.
Leads(pair) ==
    {<<Graph.heap[pair[1]].fields[i], memory[pair[2]].fields[i]>> :
       i \in {j \in DOMAIN Layout(ClassOf(pair[1])) :
               /\ Layout(ClassOf(pair[1]))[j][1] # "data"
               /\ Graph.heap[pair[1]].fields[j] # Null
               /\ memory[pair[2]].fields[j] # NoAddress}}

Correspondence ==
    LET step(S) == S \cup UNION {Leads(pair) : pair \in {q \in S : q[2] \in DOMAIN memory}}
        closure[n \in 0..Cardinality(DOMAIN Graph.heap)] ==
            IF n = 0 THEN {<<"root", <<1, <<>>>>>>} ELSE step(closure[n - 1])
    IN  closure[Cardinality(DOMAIN Graph.heap)]

\* A field is as it was: the same data, and a pointer to nothing still to nothing.
FieldKept(o, a, i) ==
    IF Layout(ClassOf(o))[i][1] = "data"
    THEN memory[a].fields[i] = <<Graph.heap[o].fields[i]>>
    ELSE (Graph.heap[o].fields[i] = Null) <=> (memory[a].fields[i] = NoAddress)

\* What a class holds in its own memory and what it points to or has elements of, in the
\* order of loading.
Parts[c \in DOMAIN Graph.layout] ==
    FlattenSeq([i \in DOMAIN Layout(c) |->
        <<Layout(c)[i]>> \o (IF Layout(c)[i][1] = "object" THEN Parts[Layout(c)[i][2]] ELSE <<>>)])

\* The objects of an element that are found again when it is moved.  Two layouts are out of
\* reach of reset_object_address.  It looks for the element first, and finds no tracked part of
\* an element that is not tracked itself (basic_iarchive.cpp:256); and all that was loaded up to
\* the last tracked part is displaced, what a pointer before it leads to and the elements of
\* an inner container as well (basic_iarchive.cpp:261, 406).
MovesWhole(c) ==
    LET tracked == {i \in DOMAIN Parts[c] :
                      Parts[c][i][1] \in Held /\ Tracked(Parts[c][i][2])}
    IN  tracked # {} =>
            /\ Tracked(c)
            /\ \A i \in tracked : /\ Parts[c][i][1] = "object"
                                  /\ \A j \in 1 .. i : Parts[c][j][1] # "pointer"

AllMoveWhole ==
    \A c \in DOMAIN Graph.layout : \A i \in DOMAIN Layout(c) :
        Layout(c)[i][1] = "element" => MovesWhole(Layout(c)[i][2])

\* What is loaded is the graph that was saved: every object is there once, with its data, and
\* pointers to one object lead to one object, also when they lead in a circle, when the object
\* was saved by value before, or when it was moved into a container after it was loaded, in an
\* element that moves as a whole (basic_iarchive.cpp:235, 349, 414; basic_oarchive.cpp:248, 315).
GraphRestored ==
    phase = "loaded" /\ AllMoveWhole =>
        LET pairs == Correspondence
        IN  /\ \A q \in pairs :
                 /\ q[2] \in DOMAIN memory
                 /\ memory[q[2]].class = ClassOf(q[1])
                 /\ \A i \in DOMAIN Layout(ClassOf(q[1])) : FieldKept(q[1], q[2], i)
            /\ \A q, r \in pairs :
                 /\ q[2] = r[2] => q[1] = r[1]
                 /\ q[1] = r[1] /\ Tracked(ClassOf(q[1])) => q[2] = r[2]
            /\ pos = Len(stream) + 1

\* The objects that fields of some kinds lead to, from one on.
Reach(o, kinds) ==
    LET step(S) == S \cup UNION {{Graph.heap[x].fields[i] :
                      i \in {j \in DOMAIN Layout(ClassOf(x)) :
                                /\ Layout(ClassOf(x))[j][1] \in kinds
                                /\ Graph.heap[x].fields[j] # Null}} : x \in S}
        closure[n \in 0..Cardinality(DOMAIN Graph.heap)] ==
            IF n = 0 THEN {o} ELSE step(closure[n - 1])
    IN  closure[Cardinality(DOMAIN Graph.heap)]

\* What is saved by value when field i of the program is saved.
SavedByValue(i) ==
    LET direct == IF Layout("root")[i][1] \in Held THEN {Graph.heap["root"].fields[i]} ELSE {}
    IN  direct \cup UNION {Reach(o, Held) \ {o} :
                             o \in Reach(Graph.heap["root"].fields[i], Held \cup {"pointer"})}

\* As long as nothing throws, saving and loading fail only for a graph that says a thing twice: an object that a pointer
\* saved before leads to is then saved by value, and loading that would make two of it
\* (basic_oarchive.cpp:300: "this has to be a user error"; basic_iarchive.cpp:441).
FailsOnlyAtConflict ==
    error \notin {"none", "exception"} =>
        /\ error = "pointer_conflict"
        /\ \E i, j \in DOMAIN Layout("root") :
             /\ j < i /\ Layout("root")[j][1] = "pointer" /\ Layout("root")[i][1] # "data"
             /\ Graph.heap["root"].fields[j] # Null /\ Graph.heap["root"].fields[i] # Null
             /\ Reach(Graph.heap["root"].fields[j], Held \cup {"pointer"}) \cap SavedByValue(i) # {}

\* The objects allocated for pointers that were not loaded to the end.
InProgress ==
    {loader.objects[todo[i].place].at : i \in {j \in DOMAIN todo : todo[j].do = "loaded"}}

\* A program that deletes what loading made, after it succeeded or when it threw
\* (delete_created_pointers, basic_iarchive.cpp:284), destroys every object that was loaded for
\* a pointer, each once, and nothing that it holds by value, if elements move as a whole.
\* Objects that pointers were being loaded for when it threw are not marked yet
\* (basic_iarchive.cpp:509) and remain, with what they hold; nobody else knows them.  A
\* package does not tell that an object is tracked, and deletes nothing.
DeletesWhatItMade ==
    AllMoveWhole =>
        /\ phase \in {"loaded", "failed"} =>
             \A i, j \in DOMAIN loader.objects :
                loader.objects[i].pointer =>
                    /\ loader.objects[i].at \in DOMAIN memory
                    /\ loader.objects[j].pointer /\ i # j
                          => loader.objects[i].at # loader.objects[j].at
        /\ phase = "deleted" /\ Kind = "full" =>
             DOMAIN memory = WithMembers({<<1, <<>>>>} \cup InProgress)
=============================================================================
