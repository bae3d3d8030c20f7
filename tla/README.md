# b-mpi3 in TLA+

b-mpi3 is a header-only C++ layer over MPI. Many of its functions are one MPI call with
C++ types around it; what can go wrong lies where it builds a protocol out of several
calls, where C++ objects own what MPI allocates, where values travel as packages of bytes,
and where ranks and counts are computed. This directory models those parts, checks them
with TLC on small instances and proves the most important properties with TLAPS for every
value of the constants.

Paths below are relative to `src/include/mpi3/` unless they begin with `test/`, `fake/` or
`README.md` (the library's own). The line numbers of every definition are under `map` in
`PROJECT.json`, which also lists the hazards the properties are for.

## 1. The system

| component | state | operations | interacts with | hard behaviour | what makes it correct |
|---|---|---|---|---|---|
| `mutex` (`mutex.hpp`) | one flag per rank in an RMA window, a wait list per rank, empty messages | construct, lock, try_lock, unlock, destroy | window, the communicator's send and receive | interleaved epochs, MPI_MODE_NOCHECK, order of put and get, lost wake-ups | mutual exclusion, no starvation |
| `shm::mutex` (`shm/mutex.hpp`) | an atomic flag in shared memory | construct, lock, unlock, destroy | shm allocator, shared window, barrier | spinning, order of destruction | mutual exclusion, memory mapped while used |
| program (`main.hpp`, `environment.hpp`, `timed_terminate.hpp`) | MPI's life, the terminate handler, static instances | initialize, user main, barrier, finalize, terminate | communicator (copy of the world, ibarrier, abort), the launcher | some ranks fail and others do not, timeouts, statics | failure is never taken for success, no call after finalize, the run ends |
| `communicator` as owner (`communicator.hpp`) | a handle per object; MPI's communicators and attributes | construct, copy, duplicate, split, move, assign, destroy, attributes, compare | MPI's copy and delete callbacks | leaks and double release after long series of calls | one owner, deep copies, value semantics |
| `ostream` (`ostream.hpp`) | a buffer per rank, two layout flags at the root | write, sync, destroy | communicator: matched probe, send, barrier | ranks a flush ahead, layout that depends on earlier flushes | rounds never mix, a flush that returned is printed |
| send_receive (`communicator.hpp`) | messages on their way; the packages of a call | basic and serialized exchange | package archives | two messages a call with no tag to tell calls apart | nothing misread, no deadlock |
| messages (`communicator.hpp`, `message.hpp`, `match.hpp`) | memory that messages are taken from, posted receives, the matched message | send, isend, issend, bsend_init, receive, ireceive, probe, dynamic_receive | packages, iterator traits, request | containers of different kinds at both ends, memory that ends before its message | what was sent is received, buffers live long enough |
| packages (`detail/package.hpp`, `package_archive.hpp`) | bytes and a position | pack, unpack, archives, archive iterators | serialization | widths, empty containers, several values | values come back from their bytes |
| serialization (`serialization_hack/`) | numbers and addresses of objects and classes | save, load, pointers, moved objects, delete | packages | cycles, null pointers, objects moved after loading | the graph comes back, each object once |
| `request` (`request.hpp`) | a handle | wait, wait_any, wait_some, completed_some, test_some, start, move, swap, destroy | MPI's progress | MPI_UNDEFINED results, persistent handles, exceptions | each request is collected and freed once |
| collectives (`communicator.hpp`) | counts, displacements, buffers | barrier, broadcast, reduce, scatter, gather, all_gather, all_to_all and their variants | packages, requests | several MPI collectives in a call, early returns off root, uneven counts | the ranks' MPI calls match, results in rank order |
| divisions, groups, grids (`communicator.hpp`, `group.hpp`, `cartesian_communicator.hpp`) | members of a communicator, extents and periods | `/`, `%`, `<`, split, subcomm, groups, axis, plane, sub, shift, rotate | MPI's splits and topologies | remainders, chosen extents, non-periodic ends, repeated splits | even blocks, inverse neighbours, coordinates kept |
| distributed arrays (`pointer.hpp`, `rma/memory.hpp`) | a window per rank | allocate, address | windows | remainders | every element has a place of its own |
| fake MPI (`fake/mpi.h`) | communicators, handlers, a datatype | the MPI interface for one process | its C program | functions that are empty | what the program sees is what MPI would show |
| windows, shared memory, other handles, process, files | a handle each | single MPI calls | communicator | collective release | one owner |

## 2. Modules

A module's comments say which code each action stands for. A definition whose comment
begins with "Mutant" is not used by the specification: it is a plausible bug of the
definition below it.

**Mutexes.** `MutexSpec` is what a mutex promises: `Request`, `Acquire` (only while nobody
holds it), `Release`. `RmaMutex` and `ShmMutex` implement it.
`RmaMutex` has the flags at the home rank and the memory they are in (`addr_`), the puts and
gets issued in each rank's epoch, each rank's `wait_list` and the empty messages. `OpenEpoch` and `CloseEpoch` are `lock_exclusive` and `unlock` of the
window; `CompletePut` and `CompleteGet` are steps of their own, since MPI completes them at
any time within the epoch. Two constants say what MPI leaves to the library: whether it
takes the lock in spite of `MPI_MODE_NOCHECK` (`ExclusiveEpochs`), and whether a put is
completed before a later get of the epoch (`OrderedEpochs`). `TryNext` has clients that
call `try_lock` and never `lock`. `RmaMutexHistory` adds the history of overtaking, lets
all clients be of one kind or the other, and remembers in `disturbed` whether the library
used that freedom: epochs of two ranks met, or the get of an unlock overtook its put.
`MCRmaMutex` adds fairness and a bound to it. `ShmMutex` is an atomic flag with the state of the memory
under it, from the allocator's window to its release.

**Program** models `::main`: the launcher and the check of its announcement in
`initialize`, the environment, the terminate handler, the copy of the world, a user main
that meets the other ranks once and may throw before or after, the barrier, `finalize`, the
static instances, and `timed_terminate` with its loop and the second look at the ibarrier. A
collective is the set of ranks that entered it. A process that was started by the launcher
of another MPI is alone in its world. `launch` also says which processes the environment
variables announce as rank 0 of a number of processes other than the size of their world
(`misled`), which may happen in a world of several ranks too: rank 0 then calls a barrier that
no other rank calls (`Stranded`).

**ValueSemantics** is what a class with value semantics promises. **Communicator** is the
class: `impl` is the handle each object holds, and `mpi` the library's communicators, their
attributes and the heap of attribute objects. MPI's calls (`Create`, `Dup`, `Store`, `Drop`,
`Disconnect`) are functions of the library's state, and member functions are actions made
of them. `ObjectValues` maps an object to its group and attribute.

**Ostream** models `streambuf::sync` at the root and elsewhere: each rank's message, the
root's collection in rank order, the choice of layout from how the texts end, the blank
lines and headings that follow from `doing_table` and `doing_formatting`, and the barrier.

**Dispatch** holds the categories of iterators and values and, for each family of functions,
the overloads: which of them a call reaches decides whether values travel as a message or
as a package. **Packages** has the bytes: each is named by its object, its place and its
width, so bytes that are read as something else give no value. **Messages** uses both:
several ranks send series of messages by every call and from every kind of container, one
receives by known counts, posted receives, probes and matched messages. A message may be sent
in one form and received in the other, which MPI allows: what MPI_Pack makes of basic values may
be received as these values, and the other way round. MPI may take a message out of the
sender's memory when it is posted, or only when it is asked for; `memory` says until when it
is there, and what a receive takes from memory that was freed is `Freed`. What was received is
kept as bytes (`got`) with the way they are read; `Found` is what the program then has. **Exchange** models `send_receive` and its variants in the same
way with the order of messages in full and packages reduced to their size: `net` holds the
messages from each rank to each other in order, and a receive takes the first of its
source whatever its tag (`MPI_ANY_TAG`), or of any source.

**Request** models the request objects of one scope, as in `test/request_wait_all.cpp` and
`test/request_test_some.cpp`. `impl` is the handle each holds and `op` MPI's requests, which
complete at any time. A call that waits records what it waits for (`awaited`) and which of
that belongs to an object being destroyed (`dropped`); `Return` ends it. `uses` is what the
program believes to be under way, from the values the waiting functions return: it reuses
buffers and asks for completions by that.

**Collectives**: every rank runs the same program of library calls; a call is one or several
collectives of MPI whose sizes, displacements and roots come from what earlier ones
delivered (`mem` has the local variables). A maximum with its place is of kind `max_loc` for
`vlp<int>`, where MPI breaks ties, and of kind `max_by_value` for other types, whose operation
compares values only: any place of a largest value may come out. The k-th collectives of the ranks match each
other, and a rank goes on as soon as it has what it receives.

**Divisions** (colors, neighbours, places in distributed arrays) and **Groups** (group.hpp)
are pure; **Splitting** uses them: all processes divide, select, reverse, arrange and cut the
communicators they hold, one call after another, and may go on with what they got.

**Archive** saves and loads graphs of objects step by step, with the tracking by address and
by number of `basic_oarchive.cpp` and `basic_iarchive.cpp`; kind "full" stores the numbers as
Boost's archives do, kind "package" stores only data as `package_archive.hpp` does. Loading
may throw wherever it reads, allocates or constructs (`LoadThrows`), and a program may delete
what was made after that as well as after success (`DeleteCreated`).

**FakeMPI** is a C program over `fake/mpi.h`: `stub` is what it sees with the header, `mpi`
what it would see with MPI, as long as it `kept` to calls that an empty function is right for.
`nulled` remembers that the program gave a communicator a handler that it had freed.

`MutexProofs` (both mutexes), `ProgramProofs` (Program and FakeMPI), `ObjectProofs`
(Communicator, Request and Ostream), `ExchangeProofs`, `PackagesProofs`, `MessagesProofs`,
`CollectivesProofs` and `SplittingProofs` (with the divisions) hold the theorems. The `MC`
modules give the constants their values; `MCShmMutex`, `MCProgram`, `MCRequest` and
`MCOstream` give the modules they instantiate names of their own, under which these are
checked and proved next to another component (`Spin`, `Main`, `Waiting`, `Printing`).

Components meet in MPI, which each module models as far as it uses it. They are composed where
they interact through their own state: `Messages` with `Packages` and `Dispatch`, `Collectives`
and `Exchange` with packages and dispatch, `Splitting` with `Divisions` and `Groups`, the mutexes
through `MutexSpec`.

## 3. Runs

| run | instance | shows |
|---|---|---|
| `rma_mutex` | 3 ranks, home 1, orderly library, clients of lock or of try_lock | `ImplementsMutex`; a waiter is overtaken at most once by each rank (`OvertakenOnceByEach`); `LockReturns` |
| `shm_mutex` | 4 ranks | `FlagMapped`, `ImplementsMutex`, `SomeRankEnters` |
| `program` | 3 ranks, joined or each alone, told the right or a wrong size, each may throw | `NormalExitIsUnanimous`, `NoCallAfterFinalize`, `RunEnds` |
| `communicator` | world and 2 objects, 3 communicators, 4 attribute objects, 2 values | `Ownership`, `HasValueSemantics` |
| `ostream` | 3 ranks, every series of 3 flushes of 8 kinds | `RoundIntact`, `FlushMeansPrinted`, `LayoutFollowsOutput`, `FlushReturns` |
| `exchange` | 3 ranks, 2 calls, any shifts, basic or serialized, packages empty or not | `NothingMisread`, `RightValues`, `CallsReturn` |
| `messages` | 2 senders and a receiver, 6 types of values, series of one message or two | `ReceivedAsSent`, `BuffersFit`, `EverythingArrives` |
| `request` | 2 objects, 2 buffers, 4 requests | `OneHolder`, `BuffersQuiet`, `CallsDefined`, `ScopeIsLeft` |
| `collectives` | 3 ranks, programs of two calls, roots 0, 1 and 2, even and uneven counts | `CollectivesAgree`, `ResultsInOrder`, `ArraysHold`, `EverythingReturns` |
| `splitting` | worlds of 1 to 8 processes | `DivisionsAreBlocks`, `SelectionsAgree`, `NeighboursMeet`, `CutsKeepPlaces` |
| `archive` | families of graphs: lists of every shape, values between pointers, containers, conflicts, packages, elements that do not move whole; an exception at any place | `GraphRestored`, `FailsOnlyAtConflict`, `DeletesWhatItMade` |
| `fake_mpi` | programs of four calls, two data | `AsWithMPI`, `NothingDangles` |

The comment above each property says what it means and which code it is about.

**Bounds.** With three ranks a mutex has a holder, a waiter and a rank that overtakes, and
hand-over around the ring differs from hand-over to the successor; `MaxStray` stops
clients that call try_lock in vain while two messages to them are not taken. Three flushes
reach every pair of layouts and return to the first; the eight kinds of flush are those the
conditions of `sync` tell apart. Two objects besides the world suffice for a communicator
held by the wrong object after a move or an assignment of either to the other; four attribute
objects leave room for the temporary of the copy assignment. Two calls are enough for a rank
to be one call ahead in an exchange; it cannot be two ahead of its source, and with three
ranks it can be ahead of one that neither sends to it nor receives from it. Two senders make
matched messages of either possible while the other's is under way; the plans have messages
of none, one and two values, which differ in what is resized, and several messages follow
each other in one package. Two request objects are enough for each to be moved, swapped or
waited for with the other active, inactive or empty; four requests are as many as two
objects, the temporary of an assignment and a new operation can hold. Two collectives are
enough for a rank to be in the second while another is in the first, after which nothing is
left of the first but its request; the second is one of those whose matching could go
wrong with the first's. Worlds of up to eight processes, divided by 1, 2, 3, 4 and 7, have
every remainder, quotients of zero and second divisions of uneven parts. Graphs of three
nodes have all cycles through one, two and three of them. Sizes of packages in `exchange` are
those of one value or more; the counted calls fail for none (6.13). Four calls of a fake MPI program
are: initialize, make, use, free. Bounded actions stop at the bound and do nothing else. The
proofs have none of these bounds.

**Deadlock** is checked except in `collectives`, `splitting` and `fake_mpi`, where a program
that made all its calls stops; that the ranks of `collectives` do not stop before is
`EverythingReturns`. Elsewhere a stutter (`Finished`, `Ended`, `Over`, `Closed`) marks the
states in which the program is done.

## 4. Fairness

- `RmaMutex`: a rank in a call goes on, MPI completes what was issued in an epoch, a rank
  inside leaves. Calls to `lock` and the destructor need not happen, and no fairness of
  the window lock between ranks is assumed: once blocked, a rank depends on messages only.
- `ShmMutex`: weak fairness of the test and set and of the unlock. The spin lock guarantees no
  more than that some rank enters, and no more is stated.
- `Program`: main goes on, the user's main returns or throws, clocks advance, MPI_Abort works.
  Collectives that MPI may let a rank leave early must complete only once all ranks are in.
- `Ostream`, `Exchange`, `Messages`: each rank goes on and messages arrive. The library need not
  buffer: in `Exchange` a call returns only when its own message was matched, in `Messages` a
  message may stay in the sender's memory until it is received.
- `Collectives`: each rank goes on with its program, MPI completes what has arrived.
- `Request`: what was posted completes (the peers take part), waiting calls return and a scope
  being left is unwound. The program need not leave the scope.

`Splitting`, `Archive` and `FakeMPI` are sequential and state no liveness.

## 5. Proofs

Theorems hold for any number of ranks, objects, messages and so on. `PROJECT.json` lists
them. Those of the form `Spec => []P` follow from an inductive invariant;
in the list, its name stands after the module's.

- **MutexProofs**, `MutexInv`. Mutual exclusion alone is not inductive: epochs must be
  exclusive and a get's snapshot fresh while its epoch is open, a flag is up from the put of
  lock to the put of unlock, a rank about to hand over saw only blocked ranks, at most one
  rank or message carries the mutex, and the barriers order construction, use and
  destruction. All this holds with any library up to the first step that disturbs
  (`HoldsUntilDisturbed`): a second epoch beside an open one, or a get of unlock that is completed
  before its put. Neither constant of the library is assumed; the theorems say `~disturbed`
  where the promise ends there, `FlagsAliveInEpochHolds` needs no such condition, and
  `OrderlyLibrary` shows that a library that takes the lock and keeps the order disturbs
  nothing. `TryInv` does the same for clients of try_lock, whose mutex is passed by the flags alone.
  `HistoryInv` is that of RmaMutexHistory, with `RingInv` for clients of lock: if q overtook
  the waiting r, then the mutex is at q, or with someone nearer to r around the ring than q is
  (`CarrierIsNearer`), and who is about to hand over has seen that r waits
  (`OvertakenIsSeen`), so that it cannot come back to q before r. `OvertakenOnceByEach` and the
  refinement of MutexSpec follow for the specification that the run checks. The spin lock is
  `Spin`, with `SpinInv`: where the barriers put the ranks, and the flag tells whether one is
  inside.
- **ProgramProofs**, `FakeInv`: what was allocated contains all that communicators and handlers
  refer to, and what a program sees that kept to the header's calls is what MPI promises, in
  every phase. `NulledInv`: an object's handler is null only if the program gave it a freed one;
  `NothingDangles` is about every other program. `Main` is Program, with `ProgramInv`: a rank that entered the barrier of main
  never fails, the failed ranks are those in the ibarrier, and past the barrier the handler is
  std::abort. `WaitsAlone`: a rank 0 that was told another size never returns from its barrier,
  so it never duplicates the world, and no other rank gets past that.
- **ObjectProofs**, three classes. `CInv`, for Communicator: lemmas say what each MPI call does
  to a sound library: attributes on the heap are those referred to, each by one
  communicator, released communicators have none. Each member function then keeps ownership
  and is a step of ValueSemantics.
  `RInv`, for Request: a request has one holder at most (`Single`) and one at least unless
  the call under way frees it (`Kept`), and the program's record is right for each object
  (`Record`), without which two operations could get one buffer. Collecting any set of
  completed requests keeps it (`CollectionKeeps`), which covers every order of completions.
  `OInv`, for Ostream: a rank may be a flush ahead; the text on its way is that of the
  first round whose text was not taken (`OnTheWay`), no rank is past a barrier that another
  has not reached (`Together`). `Flags` says that the root's two flags are functions of the
  whole output; the layout of each block follows, by lemmas on any output.
- **ExchangeProofs**, `EInv`, under `SourceGiven` (the source is not MPI_ANY_SOURCE). What a
  receive takes depends on the whole history of its channel, so the invariant numbers the
  messages: a rank has sent those below one number and taken those below another, the
  messages under way are exactly those between, in order (message 2k of a serialized call is
  a size, 2k+1 its package), and everyone who knows the size of a package agrees.
  `NothingMisread` and `RightValues` follow.
- **PackagesProofs**. What `Save` appends to any bytes, `Load` finds there
  with the same widths (`SavedIsLoaded`), and so a series by its count (`LoadNSaved`, which
  also says that a count of none reads one value beyond the end) or
  while there is more (`LoadWhileSaved`), for series of any length: the number of values that
  come back right is shown to reach every number up to the length, by a least counterexample
  (`UpTo`), as the library's induction theorems are out of reach.
- **MessagesProofs**, `MInv`: the messages of a channel
  are those of the calls between what was taken and what was posted (`Channels`), each bears
  what its plan promises in the form that the call's overload chooses, a matched message and a
  posted receive are the channel's first (`Matching`, `Awaited`), the program's own package
  holds the messages it took (`OwnPackage`), and what was gained is right, number by number
  (`Gained`). The theorems assume nothing of the library or of the containers. That forms may be
  mixed rests on two lemmas: basic values have the same bytes as a message and in a package
  (`IntsAlike`, `ContentsAlike`), and the two forms are never mixed for other types (`FormsFit`).
- **CollectivesProofs**, `CInv`. A rank may be collectives ahead of another, and what a call does
  in its second step depends on what others told it in the first. The invariant says that
  the progress of others does not matter: `Collective(c, r, s)` is the s-th collective of
  MPI that rank r makes of call c, `Recalled(c, s)` and `Outcome(c, r)` are its local variables
  and its result, all computed from the call alone, and what a rank has posted, what it holds
  and what it has got are those of its place in the program. The rest is about one call at a
  time. Any two ranks' collectives match (`CollectivesMatch`); the sums that the library makes
  displacements of are the places in rank order (`SumsAre`, `InRankOrderIs`), so that parts
  fit their arrays (`ArraysHoldAlways`) and every destination holds the documented values,
  packages included: the package of a series is the packages of its parts (`SaveAllJoined`),
  which is what a gather puts together (`PackagesRead`). `CollectivesAgree` holds of all
  programs. `ArraysHold` is proved of programs whose calls satisfy `StaysInside`, and
  `ResultsInOrder` of those whose calls satisfy `KeepsPromise`; these are hypotheses of the
  two theorems, and all programs of the run satisfy them. They leave out the calls of 6.8,
  lists to scatter that are shorter than the communicator is large, and gathers of packages to
  which the ranks contribute different numbers of values, of which the reader has one only.
  A program passes what MPI asks for (`ProgramsAssumption`): known calls, a root that is a
  rank, one value or equally many where the call is of such.
- **SplittingProofs**. First the arithmetic: `DivideHigh`, which models a loop by its exit
  condition, and `DivideLow` give blocks whose sizes differ by one at most; elements of
  distributed arrays have places. Then `MembersAgree`: whatever was split before, a process
  holds a communicator that it is a member of and that all members hold, with the same members
  in the same order; it is what makes the colors of all members agree, and it is kept by every
  call, grids and cuts included. MPI's orders are finite total orders (`InOrderArranges`:
  as many elements are below the i-th as i says); so the members that are kept of a group keep
  their order (`KeptIs`), and those of neighbouring ranks stay neighbours (`BlockKept`). What
  divisions have to do with even blocks is `Begins`, true of both; the groups are counted by a
  bijection with the blocks that have members (`BlocksDivide`). A leader's rank is the number
  of first members before it (`FirstsAreRanked`), which is its color as the larger blocks
  come first (`Crowded`). Selections by colors and by operations on groups are the same sets
  in the same order (`ComparingSelects`, `StrideSelects`).
  Grids are the second part, with `GridsFit`: beside `MembersAgree`, a communicator with
  dimensions has as many members as places, one period for each dimension, and all
  processes hold grids of as many dimensions. It is inductive since MPI_Cart_create
  takes as many processes as there are places, and MPI_Cart_sub leaves together all who
  share the coordinates that are dropped.
  A rank is a number written with the dimensions as mixed radix: with `IsWeights`, the
  products of the later dimensions, its digits are the coordinates (`PlacesAre`) and
  MPI_Cart_rank finds the number of any digits, each taken modulo its dimension
  (`CartRankPlaces`). So a displacement is undone by its opposite, unless it left a
  dimension that is not periodic (`ShiftedBack`, `RingsTurn`): `NeighboursMeet`, for any
  displacement. A cut keeps those who share the digits that it drops. Their order is that of
  the digits left (`FewerDigits`: by the first digit in which two of them differ), without a
  gap, so that the rank of a member in the cut is the number of its remaining digits
  (`SubGridFits`). `CutsKeepPlaces` speaks of the state before the last cut too, so it has
  an inductive part of its own, `RemainingAreKept`.

Model-checked only: all liveness (`LockReturns`, `SomeRankEnters`, `RunEnds`, `FlushReturns`,
`CallsReturn`, `EverythingArrives`, `EverythingReturns`, `ScopeIsLeft`), since TLAPS does not
reach fairness and ENABLED; and the properties of `Archive`, which walks through graphs of any
shape by a stack of what is under way, so that what is saved and loaded is a recursive
function of the graph, about which an induction over data would be needed.

## 6. Where the code departs from what it says

The runs leave these out; each is seen by changing an instance as told.

1. `mutex.hpp:70`: a failed `try_lock` leaves its flag up; the next unlock sends the mutex to a
   rank that is not waiting and a later lock lets two ranks in. Programs with both calls:
   `TryLockStep(r)` added to `Step` of RmaMutex, invariant `MutualExclusion`.
2. `window.hpp:109`: `lock_exclusive` asserts MPI_MODE_NOCHECK by default; with a library that
   uses it, `mutex` does not exclude. `ExclusiveEpochs = FALSE`, invariant `MutualExclusion`.
3. `communicator.hpp:317` against `README.md:175`: two copies of `environment::self()` compare
   unequal. Communicator with `SelfSpec`, invariant `CopiesCompareEqual`.
4. `communicator.hpp:300`: an assignment to a copy of self disconnects MPI_COMM_SELF and the
   program aborts. `SelfSpec`, invariant `AssignmentNeverAborts`.
5. `communicator.hpp:1217` and its assertion at 996: serialized `send_receive` with its default
   source can take a size from one rank and a package from another. Exchange with
   `AnySource = TRUE`, invariant `NothingMisread`.
6. `communicator.hpp:510`: `isend` of serialized values, or of a list, returns a request for a
   package that is destroyed as it returns: unless MPI took it at once, what is received is
   undefined. The run has these calls; `ReceivedAsSent` states the exception, and says that no
   other message is lost so. Messages, invariant `\A s \in Senders : \A k \in DOMAIN got[s] :
   got[s][k].data # Freed`.
7. `communicator.hpp:477`: `send_n`, `isend` and `receive_n` of basic values in a list or deque use
   a package where other calls use a message. That is no fault: MPI lets the one be received as
   the other, and the run mixes them.
8. Collectives, each seen by adding the call to the programs of MCCollectives: `scatterv` of a
   container reads and writes past its counts and its roots disagree (2371, 2408);
   `scatterv_n_from` writes one displacement too many (2471); `all_gather_n` of serialized
   values of different sizes (2664, 2724); `all_to_all` and `all_to_all_n` with the count of
   one element (1692, 1790; `test/communicator_all_to_all.cpp:28` expects one per rank) and
   the position they return; the position `scatter_n` returns at a root with contiguous
   values; `scatter` of a list, which leaves the list of another rank than the root empty
   (2275, 2333).
9. `communicator.hpp:815`: `operator/` with a negative number divides by it; `divide_even` (819)
   puts the ranks of an incomplete last group into none; `prev` (705) asserts that the
   result is positive, so rank 1 has no previous rank.
10. `pointer.hpp:129`: the share of the remainder is the condition of `?:` with the whole sum
    before it (`PgasLocalSize` in Divisions).
11. `package_archive.hpp` keeps no numbers of classes and objects: shared and null pointers and
    pointers to classes that come later are misread, and nothing is deleted. Archive with kind
    "package" for the other families of MCArchive.
    `basic_iarchive.cpp:256-281`, as in Boost, for archives that do: elements of a container that
    are moved after they were loaded are followed only if every tracked part belongs to a
    tracked element and comes before all its pointers and containers (`MovesWhole`). Else
    pointers to the parts, or what a pointer of the element leads to, get a wrong address, which
    `delete_created_pointers` then deletes. Archive without the hypothesis `AllMoveWhole`,
    invariants `GraphRestored` and `DeletesWhatItMade`, family `Displaced`. An object that a
    pointer was being loaded for when an exception came is deleted by nobody (483-514).
12. `fake/mpi.h`: collectives that copy nothing give what MPI gives only with MPI_IN_PLACE;
    Gather and Allgather access memory through MPI_IN_PLACE, and copy nothing for types
    without a size; Test and Testall never set their flag; Init_thread leaves the world null;
    MPI_Cart_create and MPI_Cart_sub return the communicator they are given; Comm_compare
    gives MPI_CONGRUENT for one and the same; `kept` is what leaves those calls out.
    `MPI_Errhandler_free` makes the program's handler null (2441), `MPI_Comm_set_errhandler`
    stores a null handler as any other (2387) and `MPI_Comm_call_errhandler` follows it (2475):
    the call is modelled, and `NothingDangles` states the exception (`nulled`).
13. `package_archive.hpp:312`: the iterator of an archive reads a value when it is made, so that
    reading back none of a package is an error: `receive_n` of no serialized values
    (`communicator.hpp:1290`), the gathers of packages when no rank has a value (2731, 2858), and
    `send_receive_replace_n` of none (1050). The runs of `messages` and `collectives` have the first
    two, and `ReceivedAsSent` and `ResultsInOrder` say what happens; `exchange` has calls of one
    value or more.
14. `environment.hpp:103-122`: if the variables of the launcher announce another size to rank 0 of a
    world of several ranks, that rank alone calls a barrier, and the program never begins: `RunEnds`
    and `StrandedNeverStarts` say so.
15. `operation.hpp:36-53`: the place of a maximum among equal values is MPI's (the lowest rank) for
    `vlp<int>` only; for other types it depends on the order in which MPI combines, though
    `max_loc` is one function. `Expected` in Collectives has the place for the first, and the set
    of the places that may come out for the others.
16. `shm/mutex.hpp:35`: rank 0 destroys the flag before the barrier of the destructor, when another
    rank may be in `unlock`. The memory is still mapped (`FlagMapped`), and the destructor of
    `std::atomic_flag` does nothing.

## 7. Not modelled

- Functions that no program can call: `reduce_n` in place (2124), `pack` and `unpack` of input
  iterators and lists, `breceive`, `ibsend`, `ssend`, `rsend` (by mode), `receive` into a list
  of strings, `send_receive_replace` of a deque do not compile; private functions that nothing
  calls (1814-1854, 2168-2245, 2519-2543, 3041-3092); functions of `basic_communicator` that
  `communicator` hides.
- `rmutex`, `atomic` and `shared_mutex`: nothing instantiates them but disabled test code, and
  `atomic` dereferences a null pointer on all ranks but one.
- Windows, graph communicators, info, error handlers, ports, types, files, clocks: owned handles
  around single calls of MPI, with nothing between the calls to check; of windows, what the
  mutexes use is modelled. Communicators' names and error handlers, a group's handle.
- Shared memory: pointers, vectors and pools are pointer arithmetic and Boost.Container; of the
  allocator, what `shm::mutex` uses is modelled.
- `generalized_request`: its callbacks call an object whose lifetime is the caller's affair.
- `cancel`, `completed` and `get_status` of a request; `wait(args...)` of persistent requests,
  which would leave them allocated.
- Serialization: polymorphic and exported classes found by name, versions, XML.
- Optional adaptors (NCCL, FFTW) and `fake/mpi_qmcpack_compile.h`, stubs nothing includes.
- User messages on the communicator of a mutex: nothing in the class keeps them from its own
  (`mutex.hpp:57`), so no property would hold of them.
