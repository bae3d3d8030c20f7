----------------------------- MODULE MutexProofs -----------------------------
(***************************************************************************)
(* Proofs about the two mutexes, for any number of ranks.  RmaMutex, with  *)
(* any home rank and on any MPI library, as long as no two epochs met and  *)
(* no get of unlock overtook its put, that is until the first step that    *)
(* disturbs: first for clients of lock and unlock, then for those of       *)
(* try_lock and unlock, then the order in which ranks enter.  At the end   *)
(* ShmMutex, the spin lock.                                                *)
(***************************************************************************)
EXTENDS RmaMutexHistory, MCShmMutex, TLAPS

\* No two epochs are open.
OneEpoch == \A r, q \in Ranks : InEpoch(r) /\ InEpoch(q) => r = q

\* A step that does not disturb: MPI_MODE_NOCHECK is true of the epochs after it, and no
\* get of unlock() completes before its put.
Undisturbed == OneEpoch' /\ ~GetOvertakesPut

\* What a get read of the others is still true, as nobody else writes a flag before the
\* epoch is closed; in unlock() the put preceded it.
SnapshotsFresh ==
    \A r \in Ranks :
        /\ ~InEpoch(r) => pending[r] = {}
        /\ InEpoch(r) /\ "get" \notin pending[r] =>
              \A q \in Ranks \ {r} : waitList[r][q] = flags[q]
        /\ pc[r] = "unlocking" /\ "get" \notin pending[r] =>
              "put" \notin pending[r] /\ waitList[r][r] = 0
        /\ pc[r] = "handing" => waitList[r][r] = 0

\* Clients of lock are in no epoch of try_lock.
NobodyTries == \A r \in Ranks : pc[r] # "trying"

\* A flag is up from the put of lock() to the put of unlock().
FlagUp(r) ==
    \/ pc[r] = "locking" /\ "put" \notin pending[r]
    \/ pc[r] \in {"blocked", "critical"}
    \/ pc[r] = "unlocking" /\ "put" \in pending[r]

FlagsFollow ==
    memory = "zeroed" => \A r \in Ranks : flags[r] = 1 <=> FlagUp(r)

\* A rank about to hand over saw only ranks that still wait for a message.
HandsToBlocked ==
    \A r, q \in Ranks :
        pc[r] = "handing" /\ waitList[r][q] = 1 => pc[q] = "blocked" /\ mail[q] = 0

\* The mutex is carried by one rank at most.
OneCarrier == \A r, q \in Ranks : Carries(r) /\ Carries(q) => r = q

\* The two barriers order construction, use and destruction.
LifeInOrder ==
    /\ memory = "raw" <=> pc[Home] = "outside"
    /\ memory = "freed" <=> pc[Home] = "gone"
    /\ \A r, q \in Ranks : pc[r] = "outside" => pc[q] \in {"outside", "built"}
    /\ \A r, q \in Ranks : pc[r] = "gone" => pc[q] \in {"leaving", "gone"}

\* The inductive invariant.
MutexInv ==
    /\ TypeOK
    /\ NobodyTries
    /\ OneEpoch
    /\ SnapshotsFresh
    /\ FlagsFollow
    /\ HandsToBlocked
    /\ NoStrayMessage
    /\ OneCarrier
    /\ BlockedIsRemembered
    /\ LifeInOrder
-----------------------------------------------------------------------------
\* The home of the mutex is a rank, and ranks are numbers.
LEMMA RankFacts ==
    /\ Home \in Ranks
    /\ \A r \in Ranks : r \in Int /\ r >= 0 /\ r < N
BY NAssumption, HomeAssumption DEF Ranks

\* The rank that unlock looks at after i others, (rank + i + 1) % size, is a rank.
LEMMA RingInRanks ==
    \A r \in Ranks : \A i \in 0 .. N-1 : RingRank(r, i) \in Ranks
BY NAssumption DEF Ranks, RingRank

\* The inductive invariant of the mutex holds once the communicator exists.
LEMMA InvInit == Init => MutexInv
<1> SUFFICES ASSUME Init PROVE MutexInv
    OBVIOUS
<1> USE RankFacts
<1>1. TypeOK
    BY DEF Init, TypeOK, PC, Ops, Down
<1>2. NobodyTries /\ OneEpoch /\ SnapshotsFresh /\ FlagsFollow
    BY DEF Init, NobodyTries, OneEpoch, SnapshotsFresh, FlagsFollow, InEpoch
<1>3. HandsToBlocked /\ NoStrayMessage /\ LifeInOrder
    BY DEF Init, HandsToBlocked, NoStrayMessage, LifeInOrder
<1>4. OneCarrier /\ BlockedIsRemembered
    BY DEF Init, OneCarrier, BlockedIsRemembered, Carries
<1> QED BY <1>1, <1>2, <1>3, <1>4 DEF MutexInv

\* The hand-over moves the mutex from the caller to the chosen rank.
LEMMA HandOverInv ==
    ASSUME MutexInv, NEW r \in Ranks, HandOver(r)
    PROVE  MutexInv'
<1> USE RankFacts DEF MutexInv, TypeOK, PC, Ops
<1>1. PICK i \in 0 .. N-1 :
        /\ waitList[r][RingRank(r, i)] = 1
        /\ mail' = [mail EXCEPT ![RingRank(r, i)] = @ + 1]
    BY DEF HandOver
<1> DEFINE next == RingRank(r, i)
<1>2. next \in Ranks /\ waitList[r][next] = 1 /\ mail' = [mail EXCEPT ![next] = @ + 1]
    BY <1>1, RingInRanks
<1> HIDE DEF next
<1>3. /\ pc[r] = "handing"
      /\ pc' = [pc EXCEPT ![r] = "idle"]
      /\ UNCHANGED <<flags, memory, pending, waitList>>
    BY DEF HandOver
<1>4. pc[next] = "blocked" /\ mail[next] = 0 /\ next # r
    BY <1>2, <1>3 DEF HandsToBlocked
<1>5. TypeOK'
    BY <1>2, <1>3
<1>6. Carries(r) /\ \A q \in Ranks : Carries(q) => q = r
    BY <1>2, <1>3 DEF Carries, OneCarrier
<1>7. \A q \in Ranks : q # r => ~Carries(q)
    BY <1>6
<1>8. mail'[next] = 1 /\ \A q \in Ranks : q # next => mail'[q] = mail[q]
    BY <1>2, <1>4
<1>9. \A q \in Ranks : mail[q] = 0
    BY <1>3, <1>7 DEF Carries, NoStrayMessage
<1>10. \A q \in Ranks : Carries(q)' <=> q = next
    BY <1>2, <1>3, <1>4, <1>7, <1>8, <1>9 DEF Carries
<1>11. OneCarrier' /\ BlockedIsRemembered'
    BY <1>2, <1>10 DEF OneCarrier, BlockedIsRemembered
<1>12. NoStrayMessage'
    BY <1>2, <1>3, <1>4, <1>8, <1>9 DEF NoStrayMessage
<1>13. HandsToBlocked'
    BY <1>3, <1>7, <1>8 DEF HandsToBlocked, Carries
<1>14. NobodyTries' /\ OneEpoch' /\ SnapshotsFresh' /\ FlagsFollow' /\ LifeInOrder'
    BY <1>3
    DEF NobodyTries, OneEpoch, SnapshotsFresh, FlagUp, FlagsFollow, LifeInOrder, InEpoch
<1> QED
    BY <1>5, <1>11, <1>12, <1>13, <1>14

\* Every step of lock, unlock, the constructor and the destructor that does not disturb
\* keeps the invariant.
LEMMA InvStep == MutexInv /\ [Next]_vars /\ Undisturbed => MutexInv'
<1> SUFFICES ASSUME MutexInv, [Next]_vars, Undisturbed PROVE MutexInv'
    OBVIOUS
<1>0. OneEpoch' /\ ~GetOvertakesPut
    BY DEF Undisturbed
<1> USE RankFacts, <1>0
    DEF MutexInv, TypeOK, PC, Ops, InEpoch, NobodyTries, OneEpoch,
        SnapshotsFresh, FlagUp, FlagsFollow, HandsToBlocked, NoStrayMessage,
        Carries, OneCarrier, BlockedIsRemembered, LifeInOrder
<1>1. ASSUME NEW r \in Ranks, Construct(r) PROVE MutexInv'
    BY <1>1 DEF Construct, Down
<1>2. ASSUME NEW r \in Ranks, ConstructorBarrier(r) PROVE MutexInv'
    BY <1>2 DEF ConstructorBarrier, Down
<1>3. ASSUME NEW r \in Ranks, EnterDestructor(r) PROVE MutexInv'
    BY <1>3 DEF EnterDestructor, Down
<1>4. ASSUME NEW r \in Ranks, Destroy(r) PROVE MutexInv'
    BY <1>4 DEF Destroy, Down
<1>5. ASSUME NEW r \in Ranks, BeginLock(r) PROVE MutexInv'
    BY <1>5 DEF BeginLock, OpenEpoch, Down
<1>6. ASSUME NEW r \in Ranks, BeginUnlock(r) PROVE MutexInv'
    BY <1>6 DEF BeginUnlock, OpenEpoch, Down
<1>7. ASSUME NEW r \in Ranks, CompletePut(r) PROVE MutexInv'
    BY <1>7 DEF CompletePut
<1>8. ASSUME NEW r \in Ranks, CompleteGet(r) PROVE MutexInv'
    BY <1>8 DEF CompleteGet, GetOvertakesPut
<1>9. ASSUME NEW r \in Ranks, EndLockEpoch(r) PROVE MutexInv'
    BY <1>9 DEF EndLockEpoch, CloseEpoch, OthersUp
<1>10. ASSUME NEW r \in Ranks, EndUnlockEpoch(r) PROVE MutexInv'
    BY <1>10 DEF EndUnlockEpoch, CloseEpoch
<1>11. ASSUME NEW r \in Ranks, Receive(r) PROVE MutexInv'
    BY <1>11 DEF Receive
<1>12. ASSUME NEW r \in Ranks, HandOver(r) PROVE MutexInv'
    BY <1>12, HandOverInv
<1>13. ASSUME NEW r \in Ranks, HandToNobody(r) PROVE MutexInv'
    BY <1>13 DEF HandToNobody
<1>14. CASE UNCHANGED vars
    BY <1>14 DEF vars
<1> QED
    BY <1>1, <1>2, <1>3, <1>4, <1>5, <1>6, <1>7, <1>8, <1>9, <1>10, <1>11, <1>12, <1>13, <1>14
    DEF Next, Step, LifeStep, LockStep, UnlockStep, Finished
-----------------------------------------------------------------------------
(* RmaMutex implements MutexSpec: every step of the mutex is a Request, an *)
(* Acquire or a Release of the abstract one, or leaves it unchanged.       *)

\* No rank holds or waits for the mutex before lock() is called.
LEMMA AbstractInit == Init => Abstract!Init
BY DEF Init, Abstract!Init, ClientState

\* A step that moves one rank shows in the abstract state of that rank only.
LEMMA ClientMove ==
    ASSUME NEW r \in Ranks, NEW p, pc \in [Ranks -> PC], pc' = [pc EXCEPT ![r] = p]
    PROVE  ClientState' = [ClientState EXCEPT ![r] =
              CASE p \in {"locking", "blocked"} -> "waiting"
                [] p = "trying" -> "trying"
                [] p = "critical" -> "holding"
                [] OTHER -> "out"]
BY DEF ClientState

\* Every step of lock(), try_lock(), unlock() and the destructor is a step of the
\* abstract mutex, or changes nothing of it.
LEMMA AbstractStep ==
    MutexInv /\ MutexInv' /\ [Next]_vars => [Abstract!Next]_ClientState
<1> SUFFICES ASSUME MutexInv, MutexInv', [Next]_vars
             PROVE  [Abstract!Next]_ClientState
    OBVIOUS
<1>1. pc \in [Ranks -> PC]
    BY DEF MutexInv, TypeOK
<1>2. \A r \in Ranks :
        ClientState[r] = CASE pc[r] \in {"locking", "blocked"} -> "waiting"
                           [] pc[r] = "trying" -> "trying"
                           [] pc[r] = "critical" -> "holding"
                           [] OTHER -> "out"
    BY DEF ClientState
<1>3. ASSUME NEW r \in Ranks, BeginLock(r) PROVE Abstract!Request(r)
    <2>1. pc[r] = "idle" /\ pc' = [pc EXCEPT ![r] = "locking"]
        BY <1>3 DEF BeginLock, OpenEpoch
    <2> QED BY <2>1, <1>1, <1>2, ClientMove DEF Abstract!Request
<1>4. ASSUME NEW r \in Ranks, BeginUnlock(r) PROVE Abstract!Release(r)
    <2>1. pc[r] = "critical" /\ pc' = [pc EXCEPT ![r] = "unlocking"]
        BY <1>4 DEF BeginUnlock, OpenEpoch
    <2>2. ClientState[r] = "holding"
        BY <2>1, <1>2
    <2>3. ClientState' = [ClientState EXCEPT ![r] =
              CASE "unlocking" \in {"locking", "blocked"} -> "waiting"
                [] "unlocking" = "trying" -> "trying"
                [] "unlocking" = "critical" -> "holding"
                [] OTHER -> "out"]
        BY <2>1, <1>1, ClientMove
    <2>4. ClientState' = [ClientState EXCEPT ![r] = "out"]
        BY <2>3
    <2> QED BY <2>2, <2>4 DEF Abstract!Release
<1>5. ASSUME NEW r \in Ranks, pc[r] \in {"locking", "blocked"},
             pc' = [pc EXCEPT ![r] = "critical"]
      PROVE  Abstract!Acquire(r)
    <2>1. ClientState[r] = "waiting" /\ ClientState' = [ClientState EXCEPT ![r] = "holding"]
        BY <1>5, <1>1, <1>2, ClientMove
    <2>2. \A q \in Ranks : pc[q] # "critical"
        <3>1. pc'[r] = "critical"
            BY <1>1, <1>5
        <3>2. ASSUME NEW q \in Ranks, pc[q] = "critical" PROVE FALSE
            <4>1. q # r /\ pc'[q] = "critical"
                BY <3>2, <1>1, <1>5
            <4>2. Carries(r)' /\ Carries(q)'
                BY <3>1, <4>1 DEF Carries
            <4>3. OneCarrier'
                BY DEF MutexInv
            <4> QED BY <3>2, <4>1, <4>2, <4>3 DEF OneCarrier
        <3> QED BY <3>2
    <2>3. \A q \in Ranks : ClientState[q] # "holding"
        BY <2>2, <1>2
    <2> QED BY <2>1, <2>3 DEF Abstract!Acquire
<1>6. ASSUME NEW r \in Ranks, EndLockEpoch(r)
      PROVE  Abstract!Acquire(r) \/ UNCHANGED ClientState
    <2>1. CASE OthersUp(r)
        <3>1. pc[r] = "locking" /\ pc' = [pc EXCEPT ![r] = "blocked"]
            BY <1>6, <2>1 DEF EndLockEpoch, CloseEpoch
        <3> QED BY <3>1, <1>1 DEF ClientState
    <2>2. CASE ~OthersUp(r)
        BY <1>5, <1>6, <2>2 DEF EndLockEpoch, CloseEpoch
    <2> QED BY <2>1, <2>2
<1>7. ASSUME NEW r \in Ranks, Receive(r) PROVE Abstract!Acquire(r)
    BY <1>5, <1>7 DEF Receive
<1>8. ASSUME NEW r \in Ranks, NEW p \in PC \ {"locking", "blocked", "trying", "critical"},
             pc[r] \notin {"locking", "blocked", "trying", "critical"},
             pc' = [pc EXCEPT ![r] = p]
      PROVE  UNCHANGED ClientState
    BY <1>1, <1>8 DEF ClientState
<1>9. ASSUME NEW r \in Ranks,
             \/ LifeStep(r) \/ EndUnlockEpoch(r) \/ HandOver(r) \/ HandToNobody(r)
      PROVE  UNCHANGED ClientState
    BY <1>8, <1>9
    DEF LifeStep, Construct, ConstructorBarrier, EnterDestructor, Destroy,
        EndUnlockEpoch, CloseEpoch, HandOver, HandToNobody, PC
<1>10. ASSUME UNCHANGED pc PROVE UNCHANGED ClientState
    BY <1>10 DEF ClientState
<1>11. ASSUME NEW r \in Ranks, CompletePut(r) \/ CompleteGet(r)
       PROVE  UNCHANGED ClientState
    BY <1>10, <1>11 DEF CompletePut, CompleteGet
<1>12. CASE UNCHANGED vars
    BY <1>10, <1>12 DEF vars
<1>13. CASE Next
    <2>1. CASE Finished
        BY <2>1, <1>12 DEF Finished
    <2>2. ASSUME NEW r \in Ranks, Step(r) PROVE [Abstract!Next]_ClientState
        BY <2>2, <1>3, <1>4, <1>6, <1>7, <1>9, <1>11
        DEF Step, LockStep, UnlockStep, Abstract!Next
    <2> QED BY <1>13, <2>1, <2>2 DEF Next
<1> QED BY <1>12, <1>13

(* Clients of try_lock and unlock.                                         *)

\* Clients of try_lock are in no epoch of lock and in no receive.
NobodyLocks == \A r \in Ranks : pc[r] \notin {"locking", "blocked"}

\* A rank that holds the mutex has its flag up, from the put of try_lock() to the put
\* of unlock(); others, which were refused, may have left theirs up.
HeldFlagsUp ==
    \A r \in Ranks :
        /\ pc[r] = "critical" => flags[r] = 1
        /\ pc[r] = "trying" /\ "put" \notin pending[r] => flags[r] = 1
        /\ pc[r] = "unlocking" /\ "put" \notin pending[r] => flags[r] = 0

\* The inductive invariant for clients of try_lock.
TryInv ==
    /\ TypeOK
    /\ NobodyLocks
    /\ OneEpoch
    /\ SnapshotsFresh
    /\ HeldFlagsUp
    /\ MutualExclusion
    /\ LifeInOrder

\* The inductive invariant of try_lock holds once the communicator exists.
LEMMA TryInit == Init => TryInv
<1> SUFFICES ASSUME Init PROVE TryInv
    OBVIOUS
<1> USE RankFacts
<1>1. TypeOK
    BY DEF Init, TypeOK, PC, Ops, Down
<1>2. NobodyLocks /\ OneEpoch /\ SnapshotsFresh /\ HeldFlagsUp
    BY DEF Init, NobodyLocks, OneEpoch, SnapshotsFresh, HeldFlagsUp, InEpoch
<1>3. MutualExclusion /\ LifeInOrder
    BY DEF Init, MutualExclusion, LifeInOrder
<1> QED BY <1>1, <1>2, <1>3 DEF TryInv

\* Every step of try_lock, unlock, the constructor and the destructor that does not
\* disturb keeps the invariant: who gets in saw all other flags down, and who is in keeps
\* its flag up.
LEMMA TryInvStep == TryInv /\ [TryNext]_vars /\ Undisturbed => TryInv'
<1> SUFFICES ASSUME TryInv, [TryNext]_vars, Undisturbed PROVE TryInv'
    OBVIOUS
<1>0. OneEpoch' /\ ~GetOvertakesPut
    BY DEF Undisturbed
<1> USE RankFacts, <1>0
    DEF TryInv, TypeOK, PC, Ops, InEpoch, NobodyLocks, OneEpoch,
        SnapshotsFresh, HeldFlagsUp, MutualExclusion, LifeInOrder
<1>1. ASSUME NEW r \in Ranks, Construct(r) PROVE TryInv'
    BY <1>1 DEF Construct, Down
<1>2. ASSUME NEW r \in Ranks, ConstructorBarrier(r) PROVE TryInv'
    BY <1>2 DEF ConstructorBarrier
<1>3. ASSUME NEW r \in Ranks, EnterDestructor(r) PROVE TryInv'
    BY <1>3 DEF EnterDestructor
<1>4. ASSUME NEW r \in Ranks, Destroy(r) PROVE TryInv'
    BY <1>4 DEF Destroy
<1>5. ASSUME NEW r \in Ranks, BeginTryLock(r) PROVE TryInv'
    BY <1>5 DEF BeginTryLock, OpenEpoch, Down
<1>6. ASSUME NEW r \in Ranks, BeginUnlock(r) PROVE TryInv'
    BY <1>6 DEF BeginUnlock, OpenEpoch, Down
<1>7. ASSUME NEW r \in Ranks, CompletePut(r) PROVE TryInv'
    BY <1>7 DEF CompletePut
<1>8. ASSUME NEW r \in Ranks, CompleteGet(r) PROVE TryInv'
    BY <1>8 DEF CompleteGet, GetOvertakesPut
<1>9. ASSUME NEW r \in Ranks, EndTryLock(r) PROVE TryInv'
    BY <1>9 DEF EndTryLock, CloseEpoch, OthersUp
<1>10. ASSUME NEW r \in Ranks, EndUnlockEpoch(r) PROVE TryInv'
    BY <1>10 DEF EndUnlockEpoch, CloseEpoch
<1>11. ASSUME NEW r \in Ranks, HandOver(r) PROVE TryInv'
    BY <1>11, RingInRanks DEF HandOver
<1>12. ASSUME NEW r \in Ranks, HandToNobody(r) PROVE TryInv'
    BY <1>12 DEF HandToNobody
<1>13. CASE UNCHANGED vars
    BY <1>13 DEF vars
<1> QED
    BY <1>1, <1>2, <1>3, <1>4, <1>5, <1>6, <1>7, <1>8, <1>9, <1>10, <1>11, <1>12, <1>13
    DEF TryNext, LifeStep, TryLockStep, UnlockStep, Finished

-----------------------------------------------------------------------------
(* The order in which ranks enter.                                         *)

\* How far around the ring it is from one rank to another.
Distance(q, r) == IF q <= r THEN r - q ELSE r - q + N

\* A rank that overtook another one is not nearer to it than the rank that carries the
\* mutex, and it is farther unless it is that rank and has entered.
CarrierIsNearer ==
    \A r \in Ranks : \A q \in overtook[r] :
        /\ q # r
        /\ \E c \in Ranks :
              /\ Carries(c)
              /\ Distance(c, r) < Distance(q, r) \/ (c = q /\ mail[c] = 0)

\* Who hands the mutex over saw the flag of every rank that was overtaken.
OvertakenIsSeen ==
    \A r, c \in Ranks :
        pc[c] = "handing" /\ Carries(c) /\ overtook[r] # {} => waitList[c][r] = 1

\* The inductive invariant of the history, next to that of the mutex.
RingInv ==
    /\ overtook \in [Ranks -> SUBSET Ranks]
    /\ \A r \in Ranks : overtook[r] # {} => pc[r] = "blocked"
    /\ CarrierIsNearer
    /\ OvertakenIsSeen

\* The invariant for both kinds of clients.
HistoryInv ==
    /\ calls \in {"lock", "try_lock"}
    /\ calls = "lock" => MutexInv /\ RingInv
    /\ calls = "try_lock" => TryInv

\* The inductive invariant: all that holds until the first step that disturbs.
HoldsUntilDisturbed ==
    /\ disturbed \in BOOLEAN
    /\ ~disturbed => HistoryInv

\* The i-th rank of the scan, without the remainder.
LEMMA RingStep ==
    ASSUME NEW r \in Ranks, NEW i \in 0 .. N-1
    PROVE  RingRank(r, i) = IF r + i + 1 < N THEN r + i + 1 ELSE r + i + 1 - N
<1>1. ASSUME NEW a \in Nat, NEW b \in Nat \ {0}, a < b + b
      PROVE  a % b = IF a < b THEN a ELSE a - b
    <2>1. a % b \in 0 .. b-1 /\ a \div b \in Nat /\ a = b * (a \div b) + (a % b)
        BY <1>1, SMT
    <2>2. CASE a < b
        <3>1. a \div b = 0
            BY <2>1, <2>2, SMT
        <3> QED BY <2>1, <2>2, <3>1, SMT
    <2>3. CASE ~(a < b)
        <3>1. a \div b = 1
            BY <1>1, <2>1, <2>3, SMT
        <3> QED BY <2>1, <2>3, <3>1, SMT
    <2> QED BY <2>2, <2>3
<1>2. PICK next \in Nat : next = r + i + 1
    BY DEF Ranks
<1>3. N \in Nat \ {0} /\ next < N + N
    BY <1>2, NAssumption DEF Ranks
<1>4. RingRank(r, i) = next % N
    BY <1>2 DEF RingRank
<1>5. next % N = IF next < N THEN next ELSE next - N
    BY <1>1, <1>3
<1> QED BY <1>2, <1>3, <1>4, <1>5 DEF Ranks

\* Only a rank itself is at no distance from it.
LEMMA DistanceFacts ==
    ASSUME NEW q \in Ranks, NEW r \in Ranks
    PROVE  Distance(q, r) \in 0 .. N-1 /\ (Distance(q, r) = 0 <=> q = r)
BY NAssumption DEF Ranks, Distance

\* The scan comes nearer to a rank until it reaches it.
LEMMA ScanComesNearer ==
    ASSUME NEW c \in Ranks, NEW r \in Ranks, c # r, NEW i \in 0 .. N-1,
           \A j \in 0 .. i-1 : RingRank(c, j) # r
    PROVE  Distance(RingRank(c, i), r) < Distance(c, r)
<1> DEFINE d == Distance(c, r)
<1>1. d \in 1 .. N-1 /\ d = IF c <= r THEN r - c ELSE r - c + N
    BY DistanceFacts, NAssumption DEF Distance
<1>2. c \in 0 .. N-1 /\ r \in 0 .. N-1 /\ N \in Nat
    BY NAssumption DEF Ranks
<1> HIDE DEF d
<1>3. d - 1 \in 0 .. N-1
    BY <1>1, <1>2
<1>4. RingRank(c, d - 1) = r
    BY <1>1, <1>2, <1>3, RingStep
<1>5. i <= d - 1
    BY <1>1, <1>3, <1>4
<1>6. RingRank(c, i) = IF c + i + 1 < N THEN c + i + 1 ELSE c + i + 1 - N
    BY RingStep
<1>7. Distance(RingRank(c, i), r) = d - 1 - i
    BY <1>1, <1>2, <1>5, <1>6 DEF Distance
<1> QED BY <1>1, <1>5, <1>7 DEF d

\* What the history does in a step.
Recorded ==
    overtook' = [r \in Ranks |->
        IF StaysBlocked(r) THEN overtook[r] \cup {q \in Ranks : Enters(q)} ELSE {}]

\* The history has its type after every step, and forgets a rank that is not blocked.
LEMMA RecordedType ==
    ASSUME MutexInv, overtook \in [Ranks -> SUBSET Ranks], Recorded
    PROVE  /\ overtook' \in [Ranks -> SUBSET Ranks]
           /\ \A r \in Ranks : overtook'[r] # {} => StaysBlocked(r)
           /\ \A r, q \in Ranks :
                 q \in overtook'[r] => q \in overtook[r] \/ Enters(q)
           /\ \A r \in Ranks : overtook[r] = {} /\ (\A q \in Ranks : ~Enters(q)) => overtook'[r] = {}
BY DEF Recorded

\* While a rank is blocked, its flag is up and the flags are there.
LEMMA BlockedFlagUp ==
    ASSUME MutexInv, NEW r \in Ranks, pc[r] = "blocked"
    PROVE  memory = "zeroed" /\ flags[r] = 1
<1>1. memory = "zeroed"
    BY RankFacts DEF MutexInv, TypeOK, LifeInOrder
<1> QED BY <1>1 DEF MutexInv, FlagsFollow, FlagUp

\* Steps of a rank that neither takes the mutex nor hands it over keep the order:
\* whoever carries the mutex still does so, and the scan that precedes a hand-over
\* sees every rank that is blocked.
LEMMA OrderKept ==
    ASSUME RingInv, Recorded, UNCHANGED mail, MutexInv,
           \A q \in Ranks : ~Enters(q),
           \A r, c \in Ranks : StaysBlocked(r) /\ Carries(c) => Carries(c)',
           \A r, c \in Ranks :
              StaysBlocked(r) /\ pc'[c] = "handing" /\ Carries(c)' =>
                 \/ pc[c] = "handing" /\ Carries(c) /\ waitList'[c] = waitList[c]
                 \/ waitList'[c][r] = 1
    PROVE  RingInv'
<1>1. overtook \in [Ranks -> SUBSET Ranks]
    BY DEF RingInv
<1>2. /\ overtook' \in [Ranks -> SUBSET Ranks]
      /\ \A r \in Ranks : overtook'[r] # {} => StaysBlocked(r)
      /\ \A r \in Ranks : \A q \in overtook'[r] : q \in overtook[r]
      /\ \A r \in Ranks : overtook'[r] # {} => overtook[r] # {}
    BY <1>1, RecordedType
<1>3. CarrierIsNearer'
    <2>1. SUFFICES ASSUME NEW r \in Ranks, NEW q \in overtook'[r]
          PROVE  /\ q # r
                 /\ \E c \in Ranks :
                       /\ Carries(c)'
                       /\ Distance(c, r) < Distance(q, r) \/ (c = q /\ mail'[c] = 0)
        BY DEF CarrierIsNearer, Distance
    <2>2. StaysBlocked(r) /\ q \in overtook[r]
        BY <1>2, <2>1
    <2>3. PICK c \in Ranks :
            Carries(c) /\ (Distance(c, r) < Distance(q, r) \/ (c = q /\ mail[c] = 0))
        BY <2>2 DEF RingInv, CarrierIsNearer
    <2>4. q # r
        BY <2>2 DEF RingInv, CarrierIsNearer
    <2> QED BY <2>2, <2>3, <2>4
<1>4. OvertakenIsSeen'
    BY <1>2 DEF RingInv, OvertakenIsSeen
<1>5. \A r \in Ranks : overtook'[r] # {} => pc'[r] = "blocked"
    BY <1>2 DEF StaysBlocked
<1> QED BY <1>2, <1>3, <1>4, <1>5 DEF RingInv

\* Every step of lock, unlock, the constructor and the destructor keeps the order.
LEMMA RingInvStep ==
    MutexInv /\ RingInv /\ [Next]_vars /\ Recorded => RingInv'
<1> SUFFICES ASSUME MutexInv, RingInv, [Next]_vars, Recorded PROVE RingInv'
    OBVIOUS
<1>1. overtook \in [Ranks -> SUBSET Ranks] /\ TypeOK /\ mail \in [Ranks -> Nat]
    BY DEF RingInv, MutexInv, TypeOK
<1>2. /\ overtook' \in [Ranks -> SUBSET Ranks]
      /\ \A r \in Ranks : overtook'[r] # {} => StaysBlocked(r)
      /\ \A r, q \in Ranks : q \in overtook'[r] => q \in overtook[r] \/ Enters(q)
    BY <1>1, RecordedType
<1>3. \A r \in Ranks : overtook'[r] # {} => pc'[r] = "blocked"
    BY <1>2 DEF StaysBlocked
<1>4. ASSUME UNCHANGED vars PROVE RingInv'
    BY <1>4, OrderKept DEF vars, Enters, StaysBlocked, Carries
<1>5. ASSUME NEW a \in Ranks, LifeStep(a) PROVE RingInv'
    <2>1. /\ pc[a] \notin {"blocked", "critical", "unlocking", "handing"}
          /\ pc' = [pc EXCEPT ![a] = pc'[a]]
          /\ pc'[a] \notin {"blocked", "critical", "unlocking", "handing"}
          /\ UNCHANGED <<waitList, mail>>
        BY <1>1, <1>5
        DEF LifeStep, Construct, ConstructorBarrier, EnterDestructor, Destroy, TypeOK
    <2> QED BY <1>1, <2>1, OrderKept DEF Enters, StaysBlocked, Carries, TypeOK
<1>6. ASSUME NEW a \in Ranks, BeginLock(a) PROVE RingInv'
    <2>1. /\ pc[a] = "idle" /\ pc' = [pc EXCEPT ![a] = "locking"]
          /\ waitList' = [waitList EXCEPT ![a] = Down]
          /\ UNCHANGED mail
        BY <1>6 DEF BeginLock, OpenEpoch
    <2> QED BY <1>1, <2>1, OrderKept DEF Enters, StaysBlocked, Carries, TypeOK
<1>7. ASSUME NEW a \in Ranks, BeginUnlock(a) PROVE RingInv'
    <2>1. /\ pc[a] = "critical" /\ pc' = [pc EXCEPT ![a] = "unlocking"]
          /\ waitList' = [waitList EXCEPT ![a] = Down]
          /\ UNCHANGED mail
        BY <1>7 DEF BeginUnlock, OpenEpoch
    <2> QED BY <1>1, <2>1, OrderKept DEF Enters, StaysBlocked, Carries, TypeOK
<1>8. ASSUME NEW a \in Ranks, CompletePut(a) \/ CompleteGet(a) PROVE RingInv'
    <2>1. /\ InEpoch(a) /\ UNCHANGED <<pc, mail>>
          /\ \A q \in Ranks \ {a} : waitList'[q] = waitList[q]
        BY <1>1, <1>8 DEF CompletePut, CompleteGet, TypeOK
    <2> QED BY <1>1, <2>1, OrderKept DEF Enters, StaysBlocked, Carries, TypeOK, InEpoch
<1>9. ASSUME NEW a \in Ranks, EndLockEpoch(a) PROVE RingInv'
    <2>1. /\ pc[a] = "locking" /\ pending[a] = {}
          /\ pc' = [pc EXCEPT ![a] = IF OthersUp(a) THEN "blocked" ELSE "critical"]
          /\ UNCHANGED <<waitList, mail>>
        BY <1>9 DEF EndLockEpoch, CloseEpoch
    <2>2. \A q \in Ranks \ {a} : waitList[a][q] = flags[q]
        BY <2>1 DEF MutexInv, SnapshotsFresh, InEpoch
    <2>3. ASSUME NEW r \in Ranks, StaysBlocked(r) PROVE pc' = [pc EXCEPT ![a] = "blocked"]
        <3>1. r # a /\ flags[r] = 1
            BY <2>1, <2>3, BlockedFlagUp DEF StaysBlocked
        <3>2. OthersUp(a)
            BY <2>2, <3>1 DEF OthersUp
        <3> QED BY <2>1, <3>2
    <2>4. CASE \A r \in Ranks : ~StaysBlocked(r)
        BY <1>2, <1>3, <2>4 DEF RingInv, CarrierIsNearer, OvertakenIsSeen
    <2>5. CASE \E r \in Ranks : StaysBlocked(r)
        <3>1. pc' = [pc EXCEPT ![a] = "blocked"]
            BY <2>3, <2>5
        <3> QED BY <1>1, <2>1, <3>1, OrderKept DEF Enters, StaysBlocked, Carries, TypeOK
    <2> QED BY <2>4, <2>5
<1>10. ASSUME NEW a \in Ranks, EndUnlockEpoch(a) PROVE RingInv'
    <2>1. /\ pc[a] = "unlocking" /\ pending[a] = {}
          /\ pc' = [pc EXCEPT ![a] = "handing"]
          /\ UNCHANGED <<waitList, mail>>
        BY <1>10 DEF EndUnlockEpoch, CloseEpoch
    <2>2. \A q \in Ranks \ {a} : waitList[a][q] = flags[q]
        BY <2>1 DEF MutexInv, SnapshotsFresh, InEpoch
    <2>3. \A r \in Ranks : StaysBlocked(r) => waitList[a][r] = 1
        BY <2>1, <2>2, BlockedFlagUp DEF StaysBlocked
    <2>4. \A q \in Ranks : ~Enters(q)
        BY <1>1, <2>1 DEF Enters, TypeOK
    <2>5. \A r, c \in Ranks : StaysBlocked(r) /\ Carries(c) => Carries(c)'
        BY <1>1, <2>1, <2>3 DEF Carries, TypeOK
    <2>6. \A r, c \in Ranks :
            StaysBlocked(r) /\ pc'[c] = "handing" /\ Carries(c)' =>
               \/ pc[c] = "handing" /\ Carries(c) /\ waitList'[c] = waitList[c]
               \/ waitList'[c][r] = 1
        BY <1>1, <2>1, <2>3 DEF Carries, TypeOK
    <2> QED BY <2>1, <2>4, <2>5, <2>6, OrderKept
<1>11. ASSUME NEW a \in Ranks, HandToNobody(a) PROVE RingInv'
    <2>1. /\ pc[a] = "handing" /\ (\A q \in Ranks : waitList[a][q] = 0)
          /\ pc' = [pc EXCEPT ![a] = "idle"]
          /\ UNCHANGED <<waitList, mail>>
        BY <1>11 DEF HandToNobody
    <2> QED BY <1>1, <2>1, OrderKept DEF Enters, StaysBlocked, Carries, TypeOK
<1>12. ASSUME NEW a \in Ranks, Receive(a) PROVE RingInv'
    <2>1. /\ pc[a] = "blocked" /\ mail[a] = 1
          /\ mail' = [mail EXCEPT ![a] = 0]
          /\ pc' = [pc EXCEPT ![a] = "critical"]
          /\ UNCHANGED waitList
        <3>1. /\ pc[a] = "blocked" /\ mail[a] > 0
              /\ mail' = [mail EXCEPT ![a] = @ - 1]
              /\ pc' = [pc EXCEPT ![a] = "critical"]
              /\ UNCHANGED waitList
            BY <1>12 DEF Receive
        <3>2. mail[a] = 1
            BY <3>1 DEF MutexInv, NoStrayMessage
        <3> QED BY <3>1, <3>2
    <2>2. Carries(a) /\ \A c \in Ranks : Carries(c) => c = a
        BY <2>1 DEF Carries, MutexInv, OneCarrier
    <2>3. Carries(a)' /\ mail'[a] = 0 /\ \A q \in Ranks : Enters(q) => q = a
        BY <1>1, <2>1 DEF Carries, Enters, TypeOK
    <2>4. CarrierIsNearer'
        <3>1. SUFFICES ASSUME NEW r \in Ranks, NEW q \in overtook'[r]
              PROVE  /\ q # r
                     /\ \E c \in Ranks :
                           /\ Carries(c)'
                           /\ Distance(c, r) < Distance(q, r) \/ (c = q /\ mail'[c] = 0)
            BY DEF CarrierIsNearer, Distance
        <3>2. q \in Ranks /\ StaysBlocked(r) /\ (q \in overtook[r] \/ q = a)
            BY <1>2, <2>3, <3>1
        <3>3. r # a
            BY <1>1, <2>1, <3>2 DEF StaysBlocked, TypeOK
        <3>4. CASE q = a
            BY <2>3, <3>3, <3>4
        <3>5. CASE q \in overtook[r]
            BY <2>1, <2>2, <2>3, <3>5 DEF RingInv, CarrierIsNearer
        <3> QED BY <3>2, <3>4, <3>5
    <2>5. OvertakenIsSeen'
        <3>1. \A c \in Ranks : ~(pc'[c] = "handing" /\ Carries(c)')
            BY <1>1, <2>1, <2>2 DEF Carries, TypeOK
        <3> QED BY <3>1 DEF OvertakenIsSeen
    <2> QED BY <1>2, <1>3, <2>4, <2>5 DEF RingInv
<1>13. ASSUME NEW a \in Ranks, HandOver(a) PROVE RingInv'
    <2>1. PICK i \in 0 .. N-1 :
            /\ waitList[a][RingRank(a, i)] = 1
            /\ \A j \in 0 .. i-1 : waitList[a][RingRank(a, j)] = 0
            /\ mail' = [mail EXCEPT ![RingRank(a, i)] = @ + 1]
        BY <1>13 DEF HandOver
    <2>2. /\ pc[a] = "handing" /\ pc' = [pc EXCEPT ![a] = "idle"]
          /\ UNCHANGED waitList
        BY <1>13 DEF HandOver
    <2>3. PICK next \in Ranks : next = RingRank(a, i)
        BY RingInRanks
    <2>4. Carries(a) /\ \A c \in Ranks : Carries(c) => c = a
        BY <2>1, <2>2, <2>3 DEF Carries, MutexInv, OneCarrier
    <2>5. Carries(next)'
        BY <1>1, <2>1, <2>3 DEF Carries, TypeOK
    <2>6. \A q \in Ranks : ~Enters(q)
        BY <1>1, <2>2 DEF Enters, TypeOK
    <2>7. CarrierIsNearer'
        <3>1. SUFFICES ASSUME NEW r \in Ranks, NEW q \in overtook'[r]
              PROVE  q # r /\ Distance(next, r) < Distance(q, r)
            BY <2>5 DEF CarrierIsNearer, Distance
        <3>2. q \in Ranks /\ StaysBlocked(r) /\ q \in overtook[r]
            BY <1>2, <2>6, <3>1
        <3>3. q # r /\ (Distance(a, r) < Distance(q, r) \/ a = q)
            BY <2>4, <3>2 DEF RingInv, CarrierIsNearer
        <3>4. a # r
            BY <2>2, <3>2 DEF StaysBlocked
        <3>5. waitList[a][r] = 1
            BY <2>2, <2>4, <3>2 DEF RingInv, OvertakenIsSeen
        <3>6. \A j \in 0 .. i-1 : RingRank(a, j) # r
            BY <2>1, <3>5
        <3>7. Distance(next, r) < Distance(a, r)
            BY <2>3, <3>4, <3>6, ScanComesNearer
        <3>8. Distance(next, r) \in Int /\ Distance(a, r) \in Int /\ Distance(q, r) \in Int
            BY <3>2, DistanceFacts
        <3> QED BY <3>3, <3>7, <3>8
    <2>8. OvertakenIsSeen'
        <3>1. \A c \in Ranks : ~(pc'[c] = "handing" /\ Carries(c)')
            <4>1. pc[next] = "blocked"
                BY <2>1, <2>2, <2>3 DEF MutexInv, HandsToBlocked
            <4> QED BY <1>1, <2>1, <2>2, <2>3, <2>4, <4>1 DEF Carries, TypeOK
        <3> QED BY <3>1 DEF OvertakenIsSeen
    <2> QED BY <1>2, <1>3, <2>7, <2>8 DEF RingInv
<1> QED
    BY <1>4, <1>5, <1>6, <1>7, <1>8, <1>9, <1>10, <1>11, <1>12, <1>13
    DEF Next, Step, LockStep, UnlockStep, Finished

\* The invariant of the mutex and its history, for both kinds of clients.
LEMMA HistoryInvInit == HInit => HistoryInv
<1> SUFFICES ASSUME HInit PROVE HistoryInv
    OBVIOUS
<1>1. MutexInv /\ TryInv
    BY InvInit, TryInit DEF HInit
<1>2. RingInv
    BY DEF HInit, RingInv, CarrierIsNearer, OvertakenIsSeen
<1> QED BY <1>1, <1>2 DEF HInit, HistoryInv

\* A step that leaves nothing disturbed was none that disturbs.
LEMMA NothingDisturbed ==
    ASSUME disturbed \in BOOLEAN, [HNext]_hvars, ~disturbed'
    PROVE  ~disturbed /\ (HNext => Undisturbed)
<1>1. CASE UNCHANGED hvars
    <2>1. ~disturbed
        BY <1>1 DEF hvars
    <2>2. ASSUME HNext PROVE Undisturbed
        BY <2>2 DEF HNext, Undisturbed, EpochsMeet, OneEpoch
    <2> QED BY <2>1, <2>2
<1>2. CASE HNext
    <2>1. disturbed' = (disturbed \/ EpochsMeet' \/ GetOvertakesPut)
        BY <1>2 DEF HNext
    <2>2. ~disturbed /\ ~EpochsMeet' /\ ~GetOvertakesPut
        BY <2>1, Zenon
    <2> QED BY <2>2 DEF Undisturbed, EpochsMeet, OneEpoch
<1> QED BY <1>1, <1>2

\* Every step keeps what holds until something is disturbed.
LEMMA HistoryInvStep == HoldsUntilDisturbed /\ [HNext]_hvars => HoldsUntilDisturbed'
<1> SUFFICES ASSUME HoldsUntilDisturbed, [HNext]_hvars PROVE HoldsUntilDisturbed'
    OBVIOUS
<1>1. disturbed' \in BOOLEAN
    <2>1. CASE UNCHANGED hvars
        BY <2>1 DEF hvars, HoldsUntilDisturbed
    <2>2. CASE HNext
        <3>1. disturbed' = (disturbed \/ EpochsMeet' \/ GetOvertakesPut)
            BY <2>2 DEF HNext
        <3> QED BY <3>1, Zenon
    <2> QED BY <2>1, <2>2
<1>2. SUFFICES ASSUME ~disturbed' PROVE HistoryInv'
    BY <1>1 DEF HoldsUntilDisturbed
<1>3. HistoryInv /\ (HNext => Undisturbed)
    BY <1>2, NothingDisturbed DEF HoldsUntilDisturbed
<1>4. calls' = calls /\ calls \in {"lock", "try_lock"}
    BY <1>3 DEF HNext, hvars, HistoryInv
<1>5. CASE UNCHANGED hvars
    BY <1>3, <1>5
    DEF hvars, vars, HistoryInv, MutexInv, TryInv, RingInv, TypeOK, NobodyTries, OneEpoch,
        NobodyLocks, HeldFlagsUp, MutualExclusion, SnapshotsFresh, FlagsFollow, FlagUp,
        HandsToBlocked, NoStrayMessage, OneCarrier, BlockedIsRemembered, LifeInOrder,
        InEpoch, Carries, CarrierIsNearer, OvertakenIsSeen, Distance
<1>6. CASE HNext
    <2>1. CASE calls = "lock"
        <3>1. Next /\ Recorded /\ MutexInv /\ RingInv
            BY <1>3, <1>6, <2>1 DEF HNext, ClientStep, Recorded, HistoryInv
        <3>2. MutexInv' /\ RingInv'
            BY <1>3, <1>6, <3>1, InvStep, RingInvStep
        <3> QED BY <1>4, <2>1, <3>2 DEF HistoryInv
    <2>2. CASE calls = "try_lock"
        <3>1. TryNext /\ TryInv
            BY <1>3, <1>6, <2>2 DEF HNext, ClientStep, HistoryInv
        <3>2. TryInv'
            BY <1>3, <1>6, <3>1, TryInvStep
        <3> QED BY <1>4, <2>2, <3>2 DEF HistoryInv
    <2> QED BY <1>4, <2>1, <2>2
<1> QED BY <1>5, <1>6

\* On any library, until two epochs met or a get of unlock() overtook its put: the invariant
\* of the mutex and of its history, whatever the clients call.
THEOREM HistoryInvariant == HSpec => []HoldsUntilDisturbed
<1>1. HInit => HoldsUntilDisturbed
    BY HistoryInvInit DEF HoldsUntilDisturbed, HInit
<1> QED BY <1>1, HistoryInvStep, PTL DEF HSpec

\* Until then no two ranks are in their critical section.  With lock(), two of them would
\* both carry the mutex; with try_lock(), one of them saw the other's flag.
THEOREM MutualExclusionHolds == HSpec => [](~disturbed => MutualExclusion)
<1>1. MutexInv => MutualExclusion
    BY DEF MutexInv, OneCarrier, Carries, MutualExclusion
<1>2. HoldsUntilDisturbed => (~disturbed => MutualExclusion)
    BY <1>1 DEF HoldsUntilDisturbed, HistoryInv, TryInv
<1> QED BY HistoryInvariant, <1>2, PTL

\* Until then a message is in flight to a rank blocked in lock() only, and never two.
THEOREM NoStrayMessageHolds == HSpec => [](~disturbed /\ calls = "lock" => NoStrayMessage)
<1>1. HoldsUntilDisturbed => (~disturbed /\ calls = "lock" => NoStrayMessage)
    BY DEF HoldsUntilDisturbed, HistoryInv, MutexInv
<1> QED BY HistoryInvariant, <1>1, PTL

\* Until then a rank blocked in lock() always has somebody who will wake it.
THEOREM BlockedIsRememberedHolds == HSpec => [](~disturbed => BlockedIsRemembered)
<1>1. TryInv => BlockedIsRemembered
    BY DEF TryInv, NobodyLocks, BlockedIsRemembered
<1>2. HoldsUntilDisturbed => (~disturbed => BlockedIsRemembered)
    BY <1>1 DEF HoldsUntilDisturbed, HistoryInv, MutexInv
<1> QED BY HistoryInvariant, <1>2, PTL

\* What the barriers do does not depend on what the library does with the epochs.
LifeInv == TypeOK /\ LifeInOrder

LEMMA LifeInit == Init => LifeInv
BY InvInit DEF MutexInv, LifeInv

\* No step of any call, disturbing or not, leaves the types or the order of construction, use
\* and destruction.
LEMMA LifeInvStep == LifeInv /\ [Next \/ TryNext]_vars => LifeInv'
<1> SUFFICES ASSUME LifeInv, [Next \/ TryNext]_vars PROVE LifeInv'
    OBVIOUS
<1> USE RankFacts DEF LifeInv, TypeOK, PC, Ops, LifeInOrder, InEpoch
<1>1. ASSUME NEW r \in Ranks, LifeStep(r) PROVE LifeInv'
    BY <1>1 DEF LifeStep, Construct, ConstructorBarrier, EnterDestructor, Destroy, Down
<1>2. ASSUME NEW r \in Ranks, BeginLock(r) PROVE LifeInv'
    BY <1>2 DEF BeginLock, OpenEpoch, Down
<1>3. ASSUME NEW r \in Ranks, BeginTryLock(r) PROVE LifeInv'
    BY <1>3 DEF BeginTryLock, OpenEpoch, Down
<1>4. ASSUME NEW r \in Ranks, BeginUnlock(r) PROVE LifeInv'
    BY <1>4 DEF BeginUnlock, OpenEpoch, Down
<1>5. ASSUME NEW r \in Ranks, CompletePut(r) PROVE LifeInv'
    BY <1>5 DEF CompletePut
<1>6. ASSUME NEW r \in Ranks, CompleteGet(r) PROVE LifeInv'
    BY <1>6 DEF CompleteGet
<1>7. ASSUME NEW r \in Ranks, EndLockEpoch(r) PROVE LifeInv'
    BY <1>7 DEF EndLockEpoch, CloseEpoch
<1>8. ASSUME NEW r \in Ranks, EndTryLock(r) PROVE LifeInv'
    BY <1>8 DEF EndTryLock, CloseEpoch
<1>9. ASSUME NEW r \in Ranks, EndUnlockEpoch(r) PROVE LifeInv'
    BY <1>9 DEF EndUnlockEpoch, CloseEpoch
<1>10. ASSUME NEW r \in Ranks, Receive(r) PROVE LifeInv'
    BY <1>10 DEF Receive
<1>11. ASSUME NEW r \in Ranks, HandToNobody(r) PROVE LifeInv'
    BY <1>11 DEF HandToNobody
<1>12. ASSUME NEW r \in Ranks, HandOver(r) PROVE LifeInv'
    BY <1>12, RingInRanks DEF HandOver
<1>13. CASE UNCHANGED vars
    BY <1>13 DEF vars
<1>14. CASE Next
    BY <1>1, <1>2, <1>4, <1>5, <1>6, <1>7, <1>9, <1>10, <1>11, <1>12, <1>13, <1>14
    DEF Next, Step, LockStep, UnlockStep, Finished
<1>15. CASE TryNext
    BY <1>1, <1>3, <1>4, <1>5, <1>6, <1>8, <1>9, <1>11, <1>12, <1>13, <1>15
    DEF TryNext, TryLockStep, UnlockStep, Finished
<1> QED BY <1>13, <1>14, <1>15

\* On any library, whatever it does with the epochs: every variable keeps its type, and every
\* epoch finds the flags initialised and allocated.
THEOREM FlagsAliveInEpochHolds == HSpec => [](TypeOK /\ FlagsAliveInEpoch)
<1>1. HInit => LifeInv
    BY LifeInit DEF HInit
<1>2. LifeInv /\ [HNext]_hvars => LifeInv'
    BY LifeInvStep DEF HNext, ClientStep, hvars
<1>3. LifeInv => TypeOK /\ FlagsAliveInEpoch
    BY RankFacts DEF LifeInv, LifeInOrder, FlagsAliveInEpoch, InEpoch, TypeOK, PC
<1> QED BY <1>1, <1>2, <1>3, PTL DEF HSpec

\* A library that takes the window lock all the same, and completes a put before a later get
\* of the same epoch, disturbs nothing: the run's library is one of those the theorems above
\* are about.
THEOREM OrderlyLibrary == HSpec /\ ExclusiveEpochs /\ OrderedEpochs => []~disturbed
<1> DEFINE Quiet == LifeInv /\ OneEpoch /\ disturbed = FALSE
<1>1. HInit => Quiet
    BY LifeInit DEF HInit, Init, OneEpoch, InEpoch
<1>2. ExclusiveEpochs /\ OrderedEpochs /\ Quiet /\ [HNext]_hvars => Quiet'
    <2> SUFFICES ASSUME ExclusiveEpochs, OrderedEpochs, Quiet, [HNext]_hvars PROVE Quiet'
        OBVIOUS
    <2>1. LifeInv'
        BY LifeInvStep DEF HNext, ClientStep, hvars
    <2>2. CASE UNCHANGED hvars
        BY <2>1, <2>2 DEF hvars, vars, OneEpoch, InEpoch
    <2>3. CASE HNext
        <3>1. Next \/ TryNext
            BY <2>3 DEF HNext, ClientStep
        <3>2. pc \in [Ranks -> PC] /\ pending \in [Ranks -> SUBSET Ops]
            BY DEF LifeInv, TypeOK
        <3>3. ASSUME NEW r \in Ranks,
                     BeginLock(r) \/ BeginTryLock(r) \/ BeginUnlock(r)
              PROVE  OneEpoch' /\ ~GetOvertakesPut
            <4>1. PICK during : /\ \A q \in Ranks : ~InEpoch(q)
                                /\ pc' = [pc EXCEPT ![r] = during]
                                /\ pending' = [pending EXCEPT ![r] = Ops]
                BY <3>3 DEF BeginLock, BeginTryLock, BeginUnlock, OpenEpoch
            <4>2. OneEpoch'
                BY <3>2, <4>1 DEF OneEpoch, InEpoch
            <4>3. \A q \in Ranks : pc[q] # "unlocking"
                BY <4>1 DEF InEpoch
            <4> QED BY <4>2, <4>3 DEF GetOvertakesPut
        <3>4. ASSUME NEW r \in Ranks, CompletePut(r) \/ CompleteGet(r)
              PROVE  OneEpoch' /\ ~GetOvertakesPut
            <4>1. /\ UNCHANGED pc
                  /\ \/ pending' = [pending EXCEPT ![r] = @ \ {"put"}]
                     \/ pending' = [pending EXCEPT ![r] = @ \ {"get"}] /\ "put" \notin pending[r]
                BY <3>4 DEF CompletePut, CompleteGet
            <4> QED BY <3>2, <4>1 DEF OneEpoch, InEpoch, GetOvertakesPut
        <3>5. ASSUME UNCHANGED pending,
                     \A q \in Ranks : pc'[q] = pc[q]
                        \/ pc'[q] \notin {"locking", "unlocking", "trying"}
              PROVE  OneEpoch' /\ ~GetOvertakesPut
            BY <3>5 DEF OneEpoch, InEpoch, GetOvertakesPut
        <3>6. ASSUME NEW r \in Ranks,
                     \/ LifeStep(r) \/ EndLockEpoch(r) \/ Receive(r) \/ EndTryLock(r)
                     \/ EndUnlockEpoch(r) \/ HandOver(r) \/ HandToNobody(r)
              PROVE  OneEpoch' /\ ~GetOvertakesPut
            BY <3>2, <3>5, <3>6
            DEF LifeStep, Construct, ConstructorBarrier, EnterDestructor, Destroy,
                EndLockEpoch, EndTryLock, EndUnlockEpoch, CloseEpoch, Receive, HandOver,
                HandToNobody
        <3>7. ASSUME Finished PROVE OneEpoch' /\ ~GetOvertakesPut
            BY <3>5, <3>7 DEF Finished, vars
        <3>8. OneEpoch' /\ ~GetOvertakesPut
            <4>1. CASE Next
                BY <3>3, <3>4, <3>6, <3>7, <4>1 DEF Next, Step, LockStep, UnlockStep
            <4>2. CASE TryNext
                BY <3>3, <3>4, <3>6, <3>7, <4>2 DEF TryNext, TryLockStep, UnlockStep
            <4> QED BY <3>1, <4>1, <4>2
        <3>9. ~EpochsMeet'
            BY <3>8 DEF EpochsMeet, OneEpoch
        <3>10. disturbed' = (disturbed \/ EpochsMeet' \/ GetOvertakesPut)
            BY <2>3 DEF HNext
        <3>11. disturbed' = FALSE
            BY <3>8, <3>9, <3>10, Zenon
        <3> QED BY <2>1, <3>8, <3>11
    <2> QED BY <2>2, <2>3
<1>3. Quiet => ~disturbed
    OBVIOUS
<1>4. ExclusiveEpochs /\ OrderedEpochs => ExclusiveEpochs' /\ OrderedEpochs'
    OBVIOUS
<1> QED BY <1>1, <1>2, <1>3, <1>4, PTL DEF HSpec


\* A rank enters while another one stays blocked only by taking the message of a
\* hand-over: that other rank's flag is up.
LEMMA EntersByMessage ==
    ASSUME MutexInv, [Next]_vars,
           NEW r \in Ranks, NEW q \in Ranks, StaysBlocked(r), Enters(q)
    PROVE  mail[q] > 0
<1>1. pc \in [Ranks -> PC]
    BY DEF MutexInv, TypeOK
<1>2. ASSUME NEW a \in Ranks, EndLockEpoch(a) PROVE FALSE
    <2>1. /\ pc[a] = "locking" /\ pending[a] = {}
          /\ pc' = [pc EXCEPT ![a] = IF OthersUp(a) THEN "blocked" ELSE "critical"]
        BY <1>2 DEF EndLockEpoch, CloseEpoch
    <2>2. waitList[a][r] = flags[r] /\ r # a /\ flags[r] = 1
        BY <2>1, BlockedFlagUp DEF MutexInv, SnapshotsFresh, InEpoch, StaysBlocked
    <2>3. OthersUp(a)
        BY <2>2 DEF OthersUp
    <2> QED BY <1>1, <2>1, <2>3 DEF Enters
<1>3. ASSUME NEW a \in Ranks, Receive(a) PROVE mail[q] > 0
    BY <1>1, <1>3 DEF Receive, Enters
<1>4. ASSUME NEW a \in Ranks, LifeStep(a) \/ BeginLock(a) \/ UnlockStep(a) PROVE FALSE
    BY <1>1, <1>4
    DEF LifeStep, Construct, ConstructorBarrier, EnterDestructor, Destroy, BeginLock,
        OpenEpoch, UnlockStep, BeginUnlock, EndUnlockEpoch, CloseEpoch, HandOver,
        HandToNobody, Enters
<1>5. ~UNCHANGED pc
    BY DEF Enters
<1> QED
    BY <1>2, <1>3, <1>4, <1>5
    DEF Next, Step, LockStep, CompletePut, CompleteGet, Finished, vars

\* Nobody is blocked in try_lock().
LEMMA TryNeverBlocks == TryInv => \A r \in Ranks : pc[r] # "blocked"
BY DEF TryInv, NobodyLocks

\* As long as nothing disturbed, every other rank enters the critical section at most once
\* while a rank is blocked in lock(), however many ranks there are: the waiting of a rank is
\* bounded by N - 1 critical sections of others.
THEOREM OvertakenOnce == HSpec /\ []~disturbed => OvertakenOnceByEach
<1>1. HoldsUntilDisturbed /\ ~disturbed /\ [HNext]_hvars
      => [\A r, q \in Ranks : StaysBlocked(r) /\ Enters(q) => q \notin overtook[r]]_hvars
    <2>1. SUFFICES ASSUME HistoryInv, HNext,
                          NEW r \in Ranks, NEW q \in Ranks,
                          StaysBlocked(r), Enters(q), q \in overtook[r]
                   PROVE  FALSE
        BY DEF HoldsUntilDisturbed
    <2>2. calls = "lock" /\ MutexInv /\ RingInv /\ Next
        BY <2>1, TryNeverBlocks DEF HistoryInv, HNext, ClientStep, StaysBlocked
    <2>3. mail[q] > 0
        BY <2>1, <2>2, EntersByMessage
    <2>4. PICK c \in Ranks :
            Carries(c) /\ (Distance(c, r) < Distance(q, r) \/ (c = q /\ mail[c] = 0))
        BY <2>1, <2>2 DEF RingInv, CarrierIsNearer
    <2>5. c = q
        BY <2>2, <2>3, <2>4 DEF Carries, MutexInv, OneCarrier
    <2>6. Distance(q, r) \in Int
        BY DistanceFacts
    <2> QED BY <2>3, <2>4, <2>5, <2>6
<1> QED BY <1>1, HistoryInvariant, PTL DEF HSpec, OvertakenOnceByEach
-----------------------------------------------------------------------------
(* The abstract mutex, with both kinds of clients.                         *)

\* Every step with clients of try_lock is a Try, a Refuse, an Acquire or a Release of
\* the abstract mutex, or changes nothing of it.
LEMMA TryAbstractStep ==
    TryInv /\ TryInv' /\ [TryNext]_vars => [Abstract!Next]_ClientState
<1> SUFFICES ASSUME TryInv, TryInv', [TryNext]_vars
             PROVE  [Abstract!Next]_ClientState
    OBVIOUS
<1>1. pc \in [Ranks -> PC]
    BY DEF TryInv, TypeOK
<1>2. \A r \in Ranks :
        ClientState[r] = CASE pc[r] \in {"locking", "blocked"} -> "waiting"
                           [] pc[r] = "trying" -> "trying"
                           [] pc[r] = "critical" -> "holding"
                           [] OTHER -> "out"
    BY DEF ClientState
<1>3. ASSUME NEW r \in Ranks, BeginTryLock(r) PROVE Abstract!Try(r)
    <2>1. pc[r] = "idle" /\ pc' = [pc EXCEPT ![r] = "trying"]
        BY <1>3 DEF BeginTryLock, OpenEpoch
    <2>2. ClientState[r] = "out" /\ ClientState' = [ClientState EXCEPT ![r] = "trying"]
        BY <2>1, <1>1, <1>2, ClientMove
    <2> QED BY <2>2 DEF Abstract!Try
<1>4. ASSUME NEW r \in Ranks, BeginUnlock(r) PROVE Abstract!Release(r)
    <2>1. pc[r] = "critical" /\ pc' = [pc EXCEPT ![r] = "unlocking"]
        BY <1>4 DEF BeginUnlock, OpenEpoch
    <2>2. ClientState[r] = "holding"
        BY <2>1, <1>2
    <2>3. ClientState' = [ClientState EXCEPT ![r] =
              CASE "unlocking" \in {"locking", "blocked"} -> "waiting"
                [] "unlocking" = "trying" -> "trying"
                [] "unlocking" = "critical" -> "holding"
                [] OTHER -> "out"]
        BY <2>1, <1>1, ClientMove
    <2>4. ClientState' = [ClientState EXCEPT ![r] = "out"]
        BY <2>3
    <2> QED BY <2>2, <2>4 DEF Abstract!Release
<1>5. ASSUME NEW r \in Ranks, EndTryLock(r), OthersUp(r) PROVE Abstract!Refuse(r)
    <2>1. pc[r] = "trying" /\ pc' = [pc EXCEPT ![r] = "idle"]
        BY <1>5 DEF EndTryLock, CloseEpoch
    <2>2. ClientState[r] = "trying"
        BY <2>1, <1>2
    <2>3. ClientState' = [ClientState EXCEPT ![r] =
              CASE "idle" \in {"locking", "blocked"} -> "waiting"
                [] "idle" = "trying" -> "trying"
                [] "idle" = "critical" -> "holding"
                [] OTHER -> "out"]
        BY <2>1, <1>1, ClientMove
    <2>4. ClientState' = [ClientState EXCEPT ![r] = "out"]
        BY <2>3
    <2> QED BY <2>2, <2>4 DEF Abstract!Refuse
<1>6. ASSUME NEW r \in Ranks, EndTryLock(r), ~OthersUp(r) PROVE Abstract!Acquire(r)
    <2>1. pc[r] = "trying" /\ pc' = [pc EXCEPT ![r] = "critical"]
        BY <1>6 DEF EndTryLock, CloseEpoch
    <2>2. ClientState[r] = "trying" /\ ClientState' = [ClientState EXCEPT ![r] = "holding"]
        BY <2>1, <1>1, <1>2, ClientMove
    <2>3. pc'[r] = "critical" /\ \A q \in Ranks : pc[q] = "critical" => q # r /\ pc'[q] = "critical"
        BY <1>1, <2>1
    <2>4. \A q \in Ranks : pc[q] # "critical"
        BY <2>3 DEF TryInv, MutualExclusion
    <2>5. \A q \in Ranks : ClientState[q] # "holding"
        BY <2>4, <1>2
    <2> QED BY <2>2, <2>5 DEF Abstract!Acquire
<1>7. ASSUME NEW r \in Ranks, NEW p \in PC \ {"locking", "blocked", "trying", "critical"},
             pc[r] \notin {"locking", "blocked", "trying", "critical"},
             pc' = [pc EXCEPT ![r] = p]
      PROVE  UNCHANGED ClientState
    BY <1>1, <1>7 DEF ClientState
<1>8. ASSUME NEW r \in Ranks,
             \/ LifeStep(r) \/ EndUnlockEpoch(r) \/ HandOver(r) \/ HandToNobody(r)
      PROVE  UNCHANGED ClientState
    BY <1>7, <1>8
    DEF LifeStep, Construct, ConstructorBarrier, EnterDestructor, Destroy,
        EndUnlockEpoch, CloseEpoch, HandOver, HandToNobody, PC
<1>9. ASSUME UNCHANGED pc PROVE UNCHANGED ClientState
    BY <1>9 DEF ClientState
<1>10. ASSUME NEW r \in Ranks, CompletePut(r) \/ CompleteGet(r)
       PROVE  UNCHANGED ClientState
    BY <1>9, <1>10 DEF CompletePut, CompleteGet
<1>11. CASE UNCHANGED vars
    BY <1>9, <1>11 DEF vars
<1>12. ASSUME NEW r \in Ranks,
              \/ LifeStep(r) \/ TryLockStep(r) \/ UnlockStep(r)
              \/ CompletePut(r) \/ CompleteGet(r)
       PROVE  [Abstract!Next]_ClientState
    BY <1>12, <1>3, <1>4, <1>5, <1>6, <1>8, <1>10
    DEF TryLockStep, UnlockStep, Abstract!Next
<1> QED BY <1>11, <1>12 DEF TryNext, Finished

\* As long as nothing disturbed, mpi3::mutex implements the abstract mutex, whether its
\* clients call lock or try_lock.
THEOREM MutexRefinement == HSpec /\ []~disturbed => ImplementsMutex
<1>1. HInit => Abstract!Init
    BY AbstractInit DEF HInit
<1>2. HistoryInv /\ HistoryInv' /\ [HNext]_hvars => [Abstract!Next]_ClientState
    <2>1. SUFFICES ASSUME HistoryInv, HistoryInv', [HNext]_hvars
                   PROVE  [Abstract!Next]_ClientState
        OBVIOUS
    <2>2. calls' = calls /\ calls \in {"lock", "try_lock"}
        BY <2>1 DEF HNext, hvars, HistoryInv
    <2>3. CASE calls = "lock"
        <3>1. MutexInv /\ MutexInv' /\ [Next]_vars
            BY <2>1, <2>2, <2>3 DEF HistoryInv, HNext, ClientStep, hvars
        <3> QED BY <3>1, AbstractStep
    <2>4. CASE calls = "try_lock"
        <3>1. TryInv /\ TryInv' /\ [TryNext]_vars
            BY <2>1, <2>2, <2>4 DEF HistoryInv, HNext, ClientStep, hvars
        <3> QED BY <3>1, TryAbstractStep
    <2> QED BY <2>2, <2>3, <2>4
<1>3. HoldsUntilDisturbed /\ ~disturbed => HistoryInv
    BY DEF HoldsUntilDisturbed
<1> QED BY <1>1, <1>2, <1>3, HistoryInvariant, PTL DEF HSpec, ImplementsMutex, Abstract!Spec
-----------------------------------------------------------------------------
(* The spin lock of shm::mutex, among as many ranks: the flag and the      *)
(* shared memory are what the ranks take them for, and it implements       *)
(* MutexSpec.                                                              *)

\* Where the barriers of constructor and destructor put the ranks, and what the
\* root has done by then.
SpinLifeInOrder ==
    /\ \A r \in Spin!Ranks : spinPc[r] \notin {"outside", "built"}
          => \A q \in Spin!Ranks : spinPc[q] # "outside"
    /\ spinPc[Spin!Root] = "outside" => spinMemory = "raw"
    /\ spinPc[Spin!Root] \in {"built", "idle", "spinning", "critical"} =>
          spinMemory = "constructed"
    /\ spinPc[Spin!Root] \in {"leaving", "gone"} => spinMemory \in {"destroyed", "released"}
    /\ spinMemory = "released" => \A r \in Spin!Ranks : spinPc[r] \in {"leaving", "gone"}

\* At most one rank is inside, and the flag says whether one is.
OneInside ==
    /\ \A r, q \in Spin!Ranks : spinPc[r] = "critical" /\ spinPc[q] = "critical" => r = q
    /\ Spin!FlagMeansHeld

SpinInv == Spin!TypeOK /\ SpinLifeInOrder /\ OneInside

\* The initial states satisfy the invariant.
LEMMA SpinInvInit == Spin!Init => SpinInv
BY SpinnersAssumption
DEF Spin!Init, SpinInv, Spin!TypeOK, Spin!PC, SpinLifeInOrder, OneInside,
    Spin!FlagMeansHeld, Spin!Ranks, Spin!Root

\* Every step preserves the invariant.
LEMMA SpinInvStep == SpinInv /\ [Spin!Next]_(Spin!vars) => SpinInv'
<1> SUFFICES ASSUME SpinInv, [Spin!Next]_(Spin!vars) PROVE SpinInv'
    OBVIOUS
<1>1. Spin!Root \in Spin!Ranks
    BY SpinnersAssumption DEF Spin!Ranks, Spin!Root
<1> USE <1>1 DEF SpinInv, Spin!TypeOK, Spin!PC, SpinLifeInOrder, OneInside,
                 Spin!FlagMeansHeld
<1>2. ASSUME NEW r \in Spin!Ranks, Spin!Step(r) PROVE SpinInv'
    <2>1. CASE Spin!Construct(r) BY <2>1 DEF Spin!Construct
    <2>2. CASE Spin!ConstructorBarrier(r) BY <2>2 DEF Spin!ConstructorBarrier
    <2>3. CASE Spin!EnterDestructor(r) BY <2>3 DEF Spin!EnterDestructor
    <2>4. CASE Spin!Release(r) BY <2>4 DEF Spin!Release
    <2>5. CASE Spin!Lock(r) BY <2>5 DEF Spin!Lock
    <2>6. CASE Spin!TestAndSet(r) BY <2>6 DEF Spin!TestAndSet
    <2>7. CASE Spin!Unlock(r) BY <2>7 DEF Spin!Unlock
    <2> QED BY <1>2, <2>1, <2>2, <2>3, <2>4, <2>5, <2>6, <2>7 DEF Spin!Step
<1>3. CASE UNCHANGED Spin!vars BY <1>3 DEF Spin!vars
<1> QED BY <1>2, <1>3 DEF Spin!Next, Spin!Finished

\* The invariant holds throughout.
THEOREM SpinInvariant == Spin!Spec => []SpinInv
BY SpinInvInit, SpinInvStep, PTL DEF Spin!Spec

\* The flag is set exactly while a rank holds the mutex.
THEOREM FlagMeansHeldHolds == Spin!Spec => []Spin!FlagMeansHeld
<1>1. SpinInv => Spin!FlagMeansHeld BY DEF SpinInv, OneInside
<1> QED BY <1>1, SpinInvariant, PTL

\* The shared memory is mapped, and the root has constructed the flag in it, whenever a rank
\* uses it; the root may have destroyed the flag already.
THEOREM FlagMappedHolds == Spin!Spec => []FlagMapped
<1>1. SpinInv => FlagMapped
    BY SpinnersAssumption
    DEF SpinInv, Spin!TypeOK, Spin!PC, SpinLifeInOrder, FlagMapped, Spin!FlagMapped, Spin!Ranks,
        Spin!Root
<1> QED BY <1>1, SpinInvariant, PTL

\* A step that moves one rank shows in the abstract state of that rank only.
LEMMA SpinClientMove ==
    ASSUME NEW r \in Spin!Ranks, NEW p, spinPc \in [Spin!Ranks -> Spin!PC],
           spinPc' = [spinPc EXCEPT ![r] = p]
    PROVE  Spin!ClientState' = [Spin!ClientState EXCEPT ![r] =
              CASE p = "spinning" -> "waiting"
                [] p = "critical" -> "holding"
                [] OTHER -> "out"]
BY DEF Spin!ClientState

\* Every step of the spin lock is a step of the abstract mutex or a stutter.
LEMMA SpinAbstractStep ==
    SpinInv /\ [Spin!Next]_(Spin!vars) => [Spin!Abstract!Next]_(Spin!ClientState)
<1> SUFFICES ASSUME SpinInv, [Spin!Next]_(Spin!vars)
             PROVE  [Spin!Abstract!Next]_(Spin!ClientState)
    OBVIOUS
<1>1. spinPc \in [Spin!Ranks -> Spin!PC]
    BY DEF SpinInv, Spin!TypeOK
<1>2. \A r \in Spin!Ranks :
        Spin!ClientState[r] = CASE spinPc[r] = "spinning" -> "waiting"
                           [] spinPc[r] = "critical" -> "holding"
                           [] OTHER -> "out"
    BY DEF Spin!ClientState
<1>3. ASSUME NEW r \in Spin!Ranks, Spin!Lock(r) PROVE Spin!Abstract!Request(r)
    BY <1>1, <1>2, <1>3, SpinClientMove DEF Spin!Lock, Spin!Abstract!Request
<1>4. ASSUME NEW r \in Spin!Ranks, Spin!TestAndSet(r) PROVE Spin!Abstract!Acquire(r)
    <2>1. spinPc[r] = "spinning" /\ spinPc' = [spinPc EXCEPT ![r] = "critical"]
        BY <1>4 DEF Spin!TestAndSet
    <2>2. \A q \in Spin!Ranks : spinPc[q] # "critical"
        <3>1. ~spinFlag /\ spinPc[Spin!Root] # "outside"
            BY <1>4, SpinnersAssumption
            DEF Spin!TestAndSet, SpinInv, SpinLifeInOrder, Spin!Ranks, Spin!Root
        <3> QED BY <3>1 DEF SpinInv, OneInside, Spin!FlagMeansHeld
    <2>3. /\ Spin!ClientState[r] = "waiting"
          /\ \A q \in Spin!Ranks : Spin!ClientState[q] # "holding"
        BY <1>2, <2>1, <2>2
    <2>4. Spin!ClientState' = [Spin!ClientState EXCEPT ![r] = "holding"]
        BY <1>1, <2>1, SpinClientMove
    <2> QED BY <2>3, <2>4 DEF Spin!Abstract!Acquire
<1>5. ASSUME NEW r \in Spin!Ranks, Spin!Unlock(r) PROVE Spin!Abstract!Release(r)
    <2>1. spinPc[r] = "critical" /\ spinPc' = [spinPc EXCEPT ![r] = "idle"]
        BY <1>5 DEF Spin!Unlock
    <2>2. Spin!ClientState[r] = "holding"
        BY <1>2, <2>1
    <2>3. Spin!ClientState' = [Spin!ClientState EXCEPT ![r] = "out"]
        BY <1>1, <2>1 DEF Spin!ClientState
    <2> QED BY <2>2, <2>3 DEF Spin!Abstract!Release
<1>6. ASSUME NEW r \in Spin!Ranks,
             \/ Spin!Construct(r) \/ Spin!ConstructorBarrier(r)
             \/ Spin!EnterDestructor(r) \/ Spin!Release(r)
      PROVE  UNCHANGED Spin!ClientState
    BY <1>1, <1>6
    DEF Spin!ClientState, Spin!Construct, Spin!ConstructorBarrier, Spin!EnterDestructor,
        Spin!Release
<1>7. CASE UNCHANGED Spin!vars
    BY <1>7 DEF Spin!vars, Spin!ClientState
<1>8. CASE \E r \in Spin!Ranks : Spin!Step(r)
    BY <1>3, <1>4, <1>5, <1>6, <1>8 DEF Spin!Step, Spin!Abstract!Next
<1> QED BY <1>7, <1>8 DEF Spin!Next, Spin!Finished

\* mpi3::shm::mutex implements the abstract mutex.
THEOREM SpinLockRefinement == Spin!Spec => SpinImplementsMutex
<1>1. Spin!Init => Spin!Abstract!Init
    BY DEF Spin!Init, Spin!Abstract!Init, Spin!ClientState
<1> QED
    BY <1>1, SpinAbstractStep, SpinInvariant, PTL
    DEF Spin!Spec, SpinImplementsMutex, Spin!ImplementsMutex, Spin!Abstract!Spec
=============================================================================
