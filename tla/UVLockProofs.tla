---------------------------- MODULE UVLockProofs ----------------------------
(***************************************************************************)
(* Proofs about the locks, for any set of locks and clients.  That the     *)
(* counters agree with the native locks needs nothing of the clients; that *)
(* a lock excludes needs clients that release what they acquired and rely  *)
(* on no call that cannot tell them whether it succeeded.                  *)
(***************************************************************************)
EXTENDS UVLock, FiniteSetTheorems, TLAPS

\* What the counter says of the native lock, for every class and stage.
CounterInv(l) ==
  /\ type[l] = "gone" => readers[l] = 0 /\ ~writer[l]
  /\ writer[l] => readers[l] = 0
  /\ type[l] \in LockTypes \cup {"none"} =>
       /\ copy[l] = locked[l]
       /\ writer[l] <=> locked[l] = 1
       /\ readers[l] = IF locked[l] > 1 THEN locked[l] - 1 ELSE 0
  /\ type[l] \in {"none", "semaphore"} => locked[l] = 0
  /\ type[l] = "mutex" => locked[l] =< 1

\* Every member of reading[l] has one of the native read locks, and writing[l]
\* is the one holder of the write lock.
ClientInv(l) ==
  /\ Cardinality(reading[l]) = readers[l]
  /\ writing[l] # {} <=> writer[l]
  /\ \A c, d \in writing[l] : c = d

LockInv == TypeOK /\ \A l \in Locks : CounterInv(l)

------------------------------------------------------------------------------

\* Every variable keeps its type, the counters of the struct and of the object
\* agree with the native lock, and a destroyed lock was free.
THEOREM LockInvariant == Spec => []LockInv
<1>1. Init => LockInv
  <2> SUFFICES ASSUME Init
               PROVE  LockInv
    OBVIOUS
  <2>a. reading \in [Locks -> SUBSET Clients]
    BY DEF Init
  <2>b. writing \in [Locks -> SUBSET Clients]
    BY DEF Init
  <2>c. type \in [Locks -> LockTypes \cup {"none", "freed", "gone"}]
    BY DEF Init
  <2>d. locked \in [Locks -> Nat] /\ copy \in [Locks -> Nat] /\ readers \in [Locks -> Int]
    BY DEF Init
  <2>g. permits \in [Locks -> Nat]
    BY DEF Init
  <2>h. counter \in Int
    BY DEF Init
  <2>e. writer \in [Locks -> BOOLEAN]
    BY DEF Init
  <2>f. cleared \in BOOLEAN
    BY DEF Init
  <2>1. TypeOK
    BY <2>a, <2>b, <2>c, <2>d, <2>e, <2>f, <2>g, <2>h DEF TypeOK
  <2>2. ASSUME NEW l \in Locks
        PROVE  CounterInv(l)
    BY DEF Init, CounterInv
  <2> QED
    BY <2>1, <2>2 DEF LockInv
<1>2. LockInv /\ [Next]_vars => LockInv'
  <2> SUFFICES ASSUME LockInv, [Next]_vars
               PROVE  LockInv'
    OBVIOUS
  <2>1. ASSUME NEW l \in Locks, Object(l)
       PROVE  LockInv'
    <3>1. ASSUME NEW t \in LockTypes, NEW value \in 0..MaxPermits, Create(l, t, value)
         PROVE  LockInv'
      BY LockAssumption, <3>1 DEF Create, LockAssumption, LockInv, TypeOK,
         CounterInv, LockTypes, module, native, clients
    <3>2. CASE CreateFailed(l)
      BY LockAssumption, <3>2 DEF CreateFailed, LockAssumption, LockInv, TypeOK,
         CounterInv, LockTypes, module, native, clients
    <3>3. CASE Destroy(l)
      <4>1. reading' \in [Locks -> SUBSET Clients]
        BY <3>3 DEF Destroy, DestroyWith, LockInv, TypeOK
      <4>2. writing' \in [Locks -> SUBSET Clients]
        BY <3>3 DEF Destroy, DestroyWith, LockInv, TypeOK
      <4>3. type' \in [Locks -> LockTypes \cup {"none", "freed", "gone"}]
        BY <3>3 DEF Destroy, DestroyWith, LockInv, TypeOK
      <4>6. locked' \in [Locks -> Nat] /\ copy' \in [Locks -> Nat] /\ readers' \in [Locks -> Int]
        BY <3>3 DEF Destroy, DestroyWith, Forced, LockInv, TypeOK
      <4>7. writer' \in [Locks -> BOOLEAN]
        BY <3>3 DEF Destroy, DestroyWith, LockInv, TypeOK
      <4>8. permits' \in [Locks -> Nat]
        BY <3>3 DEF Destroy, DestroyWith, LockInv, TypeOK
      <4>9. counter' \in Int
        BY <3>3 DEF Destroy, DestroyWith, LockInv, TypeOK
      <4>10. cleared' \in BOOLEAN
        BY <3>3 DEF Destroy, DestroyWith, LockInv, TypeOK
      <4>4. CounterInv(l)'
        <5>1. type'[l] = "gone"
          BY <3>3 DEF Destroy, DestroyWith, LockInv, TypeOK
        <5>2. readers'[l] = 0
          BY <3>3 DEF Destroy, DestroyWith, Forced, LockInv, TypeOK, LockTypes, CounterInv
        <5>3. ~writer'[l]
          BY <3>3 DEF Destroy, DestroyWith, LockInv, TypeOK, LockTypes, CounterInv
        <5> QED
          BY <5>1, <5>2, <5>3 DEF CounterInv, LockTypes
      <4>5. ASSUME NEW m \in Locks, m # l
            PROVE  CounterInv(m)'
        BY <3>3, <4>5 DEF Destroy, DestroyWith, LockInv, TypeOK, CounterInv, LockTypes
      <4> QED
        BY <4>1, <4>2, <4>3, <4>4, <4>5, <4>6, <4>7, <4>8, <4>9, <4>10 DEF LockInv, TypeOK
    <3>4. CASE SemPost(l)
      BY LockAssumption, <3>4 DEF SemPost, IsLive, LockAssumption, LockInv, TypeOK,
         CounterInv, LockTypes, module, native, clients
    <3>5. CASE SemTake(l)
      BY LockAssumption, <3>5 DEF SemTake, IsLive, LockAssumption, LockInv, TypeOK,
         CounterInv, LockTypes, module, native, clients
    <3>6. CASE Free(l)
      <4>1. reading' \in [Locks -> SUBSET Clients] /\ writing' \in [Locks -> SUBSET Clients]
        BY <3>6 DEF Free, LockInv, TypeOK
      <4>2. type' \in [Locks -> LockTypes \cup {"none", "freed", "gone"}]
        BY <3>6 DEF Free, LockInv, TypeOK
      <4>3. UNCHANGED <<locked, copy, native, permits, counter, cleared>>
        BY <3>6 DEF Free
      <4>4. ASSUME NEW m \in Locks
            PROVE  CounterInv(m)'
        BY <3>6, <4>3, <4>4 DEF Free, LockInv, TypeOK, CounterInv, LockTypes, native
      <4> QED
        BY <4>1, <4>2, <4>3, <4>4 DEF LockInv, TypeOK, native
    <3> QED
      BY <2>1, <3>1, <3>2, <3>3, <3>4, <3>5, <3>6 DEF Object
  <2>2. ASSUME NEW l \in Locks, NEW c \in Clients, Client(l, c)
       PROVE  LockInv'
    <3>1. CASE ReadLock(l, c)
      BY LockAssumption, <3>1 DEF ReadLock, IsLive, AcquireRead, SetLocked,
         OneReaderMore, LockAssumption, LockInv, TypeOK, CounterInv, LockTypes, module, native, clients
    <3>2. CASE TryReadLock(l, c)
      BY LockAssumption, <3>2 DEF TryReadLock, IsLive, AcquireRead, SetLocked,
         OneReaderMore, LockAssumption, LockInv, TypeOK, CounterInv, LockTypes, module, native, clients
    <3>3. CASE ReadUnlock(l, c)
      BY LockAssumption, <3>3 DEF ReadUnlock, ReadUnlockNow, IsLive, MayRelease,
         SetLocked, OneReaderLess, LockAssumption, LockInv, TypeOK, CounterInv, LockTypes, module, native, clients
    <3>4. CASE WriteLock(l, c)
      BY LockAssumption, <3>4 DEF WriteLock, EmptyLock, IsLive, LockAssumption,
         LockInv, TypeOK, CounterInv, LockTypes, module, native, clients
    <3>5. CASE TryWriteLock(l, c)
      BY LockAssumption, <3>5 DEF TryWriteLock, IsLive, AcquireWrite, SetLocked,
         LockAssumption, LockInv, TypeOK, CounterInv, LockTypes, module, native, clients
    <3>6. CASE WriteUnlock(l, c)
      BY LockAssumption, <3>6 DEF WriteUnlock, IsLive, ReleaseWrite, MayRelease,
         SetLocked, LockAssumption, LockInv, TypeOK, CounterInv, LockTypes, module, native, clients
    <3>7. CASE MutexLock(l, c)
      BY LockAssumption, <3>7 DEF MutexLock, EmptyLock, IsLive, LockAssumption,
         LockInv, TypeOK, CounterInv, LockTypes, module, native, clients
    <3>8. CASE MutexTryLock(l, c)
      BY LockAssumption, <3>8 DEF MutexTryLock, IsLive, AcquireWrite, SetLocked,
         LockAssumption, LockInv, TypeOK, CounterInv, LockTypes, module, native, clients
    <3>9. CASE MutexUnlock(l, c)
      BY LockAssumption, <3>9 DEF MutexUnlock, IsLive, ReleaseWrite, MayRelease,
         SetLocked, LockAssumption, LockInv, TypeOK, CounterInv, LockTypes, module, native, clients
    <3> QED
      BY <2>2, <3>1, <3>2, <3>3, <3>4, <3>5, <3>6, <3>7, <3>8, <3>9 DEF Client
  <2>3. CASE UNCHANGED vars
    BY <2>3 DEF vars, module, native, clients, LockInv, TypeOK, CounterInv
  <2> QED
    BY <2>1, <2>2, <2>3 DEF Next
<1>3. QED
  BY <1>1, <1>2, PTL DEF Spec

\* The type invariant of the runs.
THEOREM TypeCorrect == Spec => []TypeOK
BY LockInvariant, PTL DEF LockInv

\* Counter, copy and native lock agree, and destroyed locks were free.
THEOREM CountersAgree == Spec => []CounterMatchesNative
<1>1. LockInv => CounterMatchesNative
  BY DEF LockInv, CounterInv, CounterMatchesNative
<1>2. QED
  BY <1>1, LockInvariant, PTL

\* The destructor gives back what the native lock has taken, no less and no more,
\* whatever the clients did: uv_rwlock_destroy() and uv_mutex_destroy() find it free.
THEOREM DestroyedLocksFree == Spec => []DestroyedFree
<1>1. LockInv => DestroyedFree
  BY DEF LockInv, CounterInv, DestroyedFree
<1>2. QED
  BY <1>1, LockInvariant, PTL
------------------------------------------------------------------------------
\* The static counter counts the lock objects that were not destroyed, so the module is cleared
\* with the last of them: only creation and destruction can disturb it.
ModuleInv ==
  /\ IsFiniteSet(CountedLocks)
  /\ counter = Cardinality(CountedLocks)
  /\ cleared => counter = 0

THEOREM ClearedLast == Spec => []ClearedWithLastLock
<1>1. Init => ModuleInv
  <2> SUFFICES ASSUME Init
               PROVE  ModuleInv
    OBVIOUS
  <2>1. CountedLocks = {}
    BY DEF Init, CountedLocks, LockTypes
  <2> QED
    BY <2>1, FS_EmptySet DEF Init, ModuleInv
<1>2. LockInv /\ ModuleInv /\ [Next]_vars => ModuleInv'
  <2> SUFFICES ASSUME LockInv, ModuleInv, [Next]_vars
               PROVE  ModuleInv'
    OBVIOUS
  <2>1. ASSUME UNCHANGED module
        PROVE  ModuleInv'
    <3>1. CountedLocks' = CountedLocks
      BY <2>1 DEF CountedLocks, module
    <3> QED
      BY <2>1, <3>1 DEF ModuleInv, module
  <2>2. ASSUME NEW l \in Locks, NEW t \in LockTypes, NEW value \in 0..MaxPermits,
               Create(l, t, value)
        PROVE  ModuleInv'
    <3>1. CountedLocks' = CountedLocks \cup {l} /\ l \notin CountedLocks
      BY <2>2 DEF Create, CountedLocks, LockTypes, LockInv, TypeOK
    <3>2. Cardinality(CountedLocks') = Cardinality(CountedLocks) + 1 /\ IsFiniteSet(CountedLocks')
      BY <3>1, FS_AddElement DEF ModuleInv
    <3> QED
      BY <2>2, <3>2 DEF Create, ModuleInv
  <2>3. ASSUME NEW l \in Locks, CreateFailed(l)
        PROVE  ModuleInv'
    <3>1. CountedLocks' = CountedLocks
      BY <2>3 DEF CreateFailed, CountedLocks, LockTypes, LockInv, TypeOK
    <3> QED
      BY <2>3, <3>1 DEF CreateFailed, ModuleInv
  <2>4. ASSUME NEW l \in Locks, Destroy(l)
        PROVE  ModuleInv'
    <3>1. CountedLocks' = CountedLocks \ {l} /\ l \in CountedLocks
      BY <2>4 DEF Destroy, DestroyWith, CountedLocks, LockTypes, LockInv, TypeOK
    <3>2. Cardinality(CountedLocks') = Cardinality(CountedLocks) - 1 /\ IsFiniteSet(CountedLocks')
      BY <3>1, FS_RemoveElement DEF ModuleInv
    <3> QED
      BY <2>4, <3>2 DEF Destroy, DestroyWith, ModuleInv
  <2>8. ASSUME NEW l \in Locks, Free(l)
        PROVE  ModuleInv'
    <3>1. CountedLocks' = CountedLocks
      BY <2>8 DEF Free, CountedLocks, LockTypes, LockInv, TypeOK
    <3> QED
      BY <2>8, <3>1 DEF Free, ModuleInv
  <2>5. ASSUME NEW l \in Locks, SemPost(l) \/ SemTake(l)
        PROVE  UNCHANGED module
    BY <2>5 DEF SemPost, SemTake
  <2>6. ASSUME NEW l \in Locks, NEW c \in Clients, Client(l, c)
        PROVE  UNCHANGED module
    BY <2>6 DEF Client, ReadLock, TryReadLock, AcquireRead, ReadUnlock, ReadUnlockNow,
           WriteLock, EmptyLock, TryWriteLock, AcquireWrite, WriteUnlock, ReleaseWrite,
           MutexLock, MutexTryLock, MutexUnlock
  <2>7. CASE UNCHANGED vars
    BY <2>1, <2>7 DEF vars, module
  <2> QED
    BY <2>1, <2>2, <2>3, <2>4, <2>5, <2>6, <2>7, <2>8 DEF Next, Object
<1>3. ModuleInv => ClearedWithLastLock
  BY DEF ModuleInv, ClearedWithLastLock
<1>4. QED
  BY <1>1, <1>2, <1>3, LockInvariant, PTL DEF Spec

------------------------------------------------------------------------------
(* Clients that release what they acquired, and trust no blocking call *)

\* What each client relies on is held, for as long as it relies on it.
LEMMA ClientInvariant ==
  ASSUME Trusts = {}
  PROVE  Spec => [](\A l \in Disciplined : ClientInv(l))
<1> DEFINE Inv == \A l \in Disciplined : ClientInv(l)
<1>a. Disciplined \subseteq Locks
  BY LockAssumption DEF LockAssumption
<1>1. Init => Inv
  BY <1>a, FS_EmptySet DEF Init, ClientInv
<1>2. LockInv /\ Inv /\ [Next]_vars => Inv'
  <2> SUFFICES ASSUME LockInv, Inv, [Next]_vars
               PROVE  Inv'
    OBVIOUS
  <2> USE DEF TypeOK, LockInv, module, native, clients
  <2> DEFINE Same(m) == /\ reading'[m] = reading[m] /\ writing'[m] = writing[m]
                        /\ readers'[m] = readers[m] /\ (writer'[m] <=> writer[m])
  <2>a. ASSUME NEW k \in Locks
        PROVE  IsFiniteSet(reading[k])
    BY LockAssumption, FS_Subset DEF LockAssumption
  <2>b. ASSUME NEW l \in Locks, NEW m \in Disciplined, m # l,
               Object(l) \/ \E c \in Clients : Client(l, c)
        PROVE  Same(m)
    <3>1. m \in Locks
      BY <1>a
    <3>2. CASE Object(l)
      BY <2>b, <3>1, <3>2 DEF Object, Create, CreateFailed, Destroy, DestroyWith, Free, SemPost, SemTake
    <3>3. ASSUME NEW c \in Clients, Client(l, c)
          PROVE  Same(m)
      BY <2>b, <3>1, <3>3 DEF Client, ReadLock, TryReadLock, AcquireRead, ReadUnlock,
         ReadUnlockNow, WriteLock, MutexLock, EmptyLock, TryWriteLock, MutexTryLock,
         AcquireWrite, WriteUnlock, MutexUnlock, ReleaseWrite
    <3> QED
      BY <2>b, <3>2, <3>3
  <2>c. ASSUME NEW m \in Disciplined, Same(m)
        PROVE  ClientInv(m)'
    BY <2>c DEF ClientInv
  <2>d. ASSUME NEW k \in Locks, NEW c \in reading[k]
        PROVE  Cardinality(reading[k] \ {c}) = Cardinality(reading[k]) - 1
    <3> HIDE DEF TypeOK, LockInv, Inv
    <3>1. IsFiniteSet(reading[k])
      BY <2>a
    <3>2. Cardinality(reading[k] \ {c}) =
            IF c \in reading[k] THEN Cardinality(reading[k]) - 1 ELSE Cardinality(reading[k])
      BY <3>1, FS_RemoveElement
    <3> QED
      BY <3>2
  <2>1. ASSUME NEW l \in Disciplined, Object(l)
        PROVE  ClientInv(l)'
    <3> USE <1>a DEF ClientInv
    <3>1. ASSUME NEW t \in LockTypes, NEW value \in 0..MaxPermits, Create(l, t, value)
          PROVE  ClientInv(l)'
      BY <3>1 DEF Create, CounterInv, LockTypes
    <3>2. CASE CreateFailed(l)
      BY <3>2 DEF CreateFailed, CounterInv, LockTypes
    <3>3. CASE Destroy(l)
      <4>1. reading'[l] = {} /\ writing'[l] = {}
        BY <3>3 DEF Destroy, DestroyWith
      <4>2. readers'[l] = 0
        BY <3>3 DEF Destroy, DestroyWith, Forced, CounterInv, LockTypes
      <4>3. ~writer'[l]
        BY <3>3 DEF Destroy, DestroyWith, CounterInv, LockTypes
      <4> QED
        BY <4>1, <4>2, <4>3, FS_EmptySet
    <3>4. CASE SemPost(l)
      BY <3>4 DEF SemPost, IsLive, CounterInv, LockTypes
    <3>5. CASE SemTake(l)
      BY <3>5 DEF SemTake, IsLive, CounterInv, LockTypes
    <3>6. CASE Free(l)
      <4>1. reading[l] = {} /\ writing[l] = {} /\ reading'[l] = {} /\ writing'[l] = {}
        BY <3>6 DEF Free
      <4>2. readers'[l] = readers[l] /\ writer'[l] = writer[l]
        BY <3>6 DEF Free
      <4> QED
        BY <4>1, <4>2
    <3> QED
      BY <2>1, <3>1, <3>2, <3>3, <3>4, <3>5, <3>6 DEF Object
  <2>2. ASSUME NEW l \in Disciplined, NEW c \in Clients, Client(l, c)
        PROVE  ClientInv(l)'
    <3> USE <1>a DEF ClientInv
    <3>1. CASE ReadLock(l, c)
      <4>1. CASE locked[l] # 1 /\ AcquireRead(l, c)
        <5>1. Cardinality(reading[l] \cup {c}) = Cardinality(reading[l]) + 1
          BY <2>a, <4>1, FS_AddElement DEF AcquireRead
        <5>2. type[l] = "rwlock"
          BY <3>1 DEF ReadLock, IsLive
        <5> QED
          BY <4>1, <5>1, <5>2 DEF AcquireRead, SetLocked, CounterInv, LockTypes
      <4>2. CASE locked[l] = 1 /\ UNCHANGED vars
        BY <4>2 DEF vars
      <4>3. locked[l] = 1 /\ ~AcquireRead(l, c) => UNCHANGED vars
        BY <3>1 DEF ReadLock, IsLive, vars
      <4> QED
        BY <3>1, <4>1, <4>2, <4>3 DEF ReadLock, AcquireRead
    <3>2. CASE TryReadLock(l, c)
      <4>1. Cardinality(reading[l] \cup {c}) = Cardinality(reading[l]) + 1
        BY <3>2, <2>a, FS_AddElement DEF TryReadLock, AcquireRead
      <4> QED
        BY <3>2, <4>1 DEF TryReadLock, IsLive, AcquireRead, SetLocked, CounterInv, LockTypes
    <3>3. CASE ReadUnlock(l, c)
      <4>1. l \in Locks /\ c \in reading[l]
        BY <3>3 DEF ReadUnlock, ReadUnlockNow, MayRelease
      <4>2. Cardinality(reading[l] \ {c}) = Cardinality(reading[l]) - 1
        BY <4>1, <2>d
      <4>3. reading'[l] = reading[l] \ {c} /\ readers'[l] = readers[l] - 1
        BY <3>3, <4>1 DEF ReadUnlock, ReadUnlockNow
      <4>4. writing'[l] = writing[l] /\ writer'[l] = writer[l]
        BY <3>3, <4>1 DEF ReadUnlock, ReadUnlockNow
      <4> QED
        BY <4>2, <4>3, <4>4
    <3>4. CASE WriteLock(l, c)
      BY <3>4 DEF WriteLock, EmptyLock, IsLive, CounterInv, LockTypes
    <3>5. CASE TryWriteLock(l, c)
      BY <3>5 DEF TryWriteLock, IsLive, AcquireWrite, SetLocked, CounterInv, LockTypes
    <3>6. CASE WriteUnlock(l, c)
      BY <3>6 DEF WriteUnlock, IsLive, ReleaseWrite, MayRelease, SetLocked,
         CounterInv, LockTypes
    <3>7. CASE MutexLock(l, c)
      BY <3>7 DEF MutexLock, EmptyLock, IsLive, CounterInv, LockTypes
    <3>8. CASE MutexTryLock(l, c)
      BY <3>8 DEF MutexTryLock, IsLive, AcquireWrite, SetLocked, CounterInv, LockTypes
    <3>9. CASE MutexUnlock(l, c)
      BY <3>9 DEF MutexUnlock, IsLive, ReleaseWrite, MayRelease, SetLocked,
         CounterInv, LockTypes
    <3> QED
      BY <2>2, <3>1, <3>2, <3>3, <3>4, <3>5, <3>6, <3>7, <3>8, <3>9 DEF Client
  <2>3. CASE UNCHANGED vars
    BY <2>3 DEF vars, ClientInv
  <2> QED
    BY <2>b, <2>c, <2>1, <2>2, <2>3 DEF Next
<1>3. QED
  BY <1>1, <1>2, LockInvariant, PTL DEF Spec

\* No client loses what it relies on by what another one does.
THEOREM HeldWhileReliedOn ==
  ASSUME Trusts = {}
  PROVE  Spec => []ReliedOnHeld
<1>1. (\A l \in Disciplined : ClientInv(l)) => ReliedOnHeld
  BY DEF ClientInv, ReliedOnHeld
<1>2. QED
  BY <1>1, ClientInvariant, PTL

\* They exclude each other, on every lock: what breaks MutualExclusion is the
\* trust in uv_rwlock_wrlock(), uv_mutex_lock() or a refused uv_rwlock_rdlock(),
\* never the counters or the calls that tell whether they succeeded.
THEOREM ClientsExclude ==
  ASSUME Trusts = {}, Disciplined = Locks
  PROVE  Spec => []MutualExclusion
<1>1. LockInv /\ (\A l \in Disciplined : ClientInv(l)) => MutualExclusion
  <2> SUFFICES ASSUME LockInv, NEW l \in Locks, ClientInv(l), NEW c \in writing[l]
               PROVE  reading[l] = {} /\ writing[l] = {c}
    BY DEF MutualExclusion
  <2>1. writer[l]
    BY DEF ClientInv
  <2>2. readers[l] = 0
    BY <2>1 DEF LockInv, TypeOK, CounterInv
  <2>3. IsFiniteSet(reading[l])
    BY LockAssumption, FS_Subset DEF LockAssumption, LockInv, TypeOK
  <2>4. reading[l] = {}
    BY <2>2, <2>3, FS_EmptySet DEF ClientInv
  <2>5. writing[l] = {c}
    BY DEF ClientInv
  <2> QED
    BY <2>4, <2>5
<1>2. QED
  BY <1>1, LockInvariant, ClientInvariant, PTL

\* With such clients the counted locks implement shared/exclusive locks: a
\* granted call finds the lock free for it, and all else releases or stutters.
THEOREM Implements ==
  ASSUME Trusts = {}
  PROVE  Spec => SharedExclusiveSpec
<1> DEFINE Inv == \A l \in Disciplined : ClientInv(l)
<1> DEFINE sh == [l \in Disciplined |-> reading[l]]
           ex == [l \in Disciplined |-> writing[l]]
<1>a. Disciplined \subseteq Locks
  BY LockAssumption DEF LockAssumption
<1>1. Init => Abstract!Init
  BY <1>a DEF Init, Abstract!Init
<1>2. LockInv /\ Inv /\ [Next]_vars => [Abstract!Next]_<<sh, ex>>
  <2> SUFFICES ASSUME LockInv, Inv, [Next]_vars
               PROVE  Abstract!Next \/ UNCHANGED <<sh, ex>>
    OBVIOUS
  <2> USE <1>a DEF Abstract!Next
  <2>a. ASSUME NEW l \in Disciplined, readers[l] = 0
        PROVE  reading[l] = {}
    <3>1. IsFiniteSet(reading[l])
      BY LockAssumption, FS_Subset DEF LockAssumption, LockInv, TypeOK
    <3> QED
      BY <2>a, <3>1, FS_EmptySet DEF ClientInv
  <2>b. ASSUME NEW l \in Locks \ Disciplined, Object(l) \/ \E c \in Clients : Client(l, c)
        PROVE  UNCHANGED <<sh, ex>>
    <3>1. CASE Object(l)
      BY <2>b, <3>1 DEF Object, Create, CreateFailed, Destroy, DestroyWith, Free, SemPost, SemTake,
         clients, LockInv, TypeOK
    <3>2. ASSUME NEW c \in Clients, Client(l, c)
          PROVE  UNCHANGED <<sh, ex>>
      BY <2>b, <3>2 DEF Client, ReadLock, TryReadLock, AcquireRead, ReadUnlock,
         ReadUnlockNow, WriteLock, MutexLock, EmptyLock, TryWriteLock, MutexTryLock,
         AcquireWrite, WriteUnlock, MutexUnlock, ReleaseWrite, LockInv, TypeOK
    <3> QED
      BY <2>b, <3>1, <3>2
  <2>1. ASSUME NEW l \in Disciplined, Object(l)
        PROVE  Abstract!Next \/ UNCHANGED <<sh, ex>>
    <3>1. CASE Destroy(l)
      <4>1. Abstract!Discard(l)
        BY <3>1 DEF Destroy, DestroyWith, Abstract!Discard, LockInv, TypeOK
      <4> QED
        BY <4>1
    <3>2. CASE Free(l)
      <4>1. reading' = reading /\ writing' = writing
        BY <1>a, <3>2 DEF Free, LockInv, TypeOK
      <4> QED
        BY <4>1
    <3>3. CASE ~Destroy(l) /\ ~Free(l)
      BY <2>1, <3>3 DEF Object, Create, CreateFailed, SemPost, SemTake, clients
    <3> QED
      BY <3>1, <3>2, <3>3
  <2>2. ASSUME NEW l \in Disciplined, NEW c \in Clients, Client(l, c)
        PROVE  Abstract!Next \/ UNCHANGED <<sh, ex>>
    <3>1. CASE ReadLock(l, c) \/ TryReadLock(l, c)
      <4>1. CASE ~writer[l] /\ AcquireRead(l, c)
        <5>1. Abstract!Share(l, c)
          BY <4>1 DEF AcquireRead, ClientInv, Abstract!Share, LockInv, TypeOK
        <5> QED
          BY <5>1
      <4>2. CASE ~(~writer[l] /\ AcquireRead(l, c))
        <5>1. reading' = [reading EXCEPT ![l] = @ \cup {}] /\ UNCHANGED writing
          BY <3>1, <4>2 DEF ReadLock, TryReadLock
        <5> QED
          BY <5>1 DEF LockInv, TypeOK
      <4> QED
        BY <4>1, <4>2
    <3>2. CASE TryWriteLock(l, c) \/ MutexTryLock(l, c)
      <4>1. ~writer[l] /\ AcquireWrite(l, c)
        BY <3>2 DEF TryWriteLock, MutexTryLock
      <4>2. readers[l] = 0
        BY <3>2 DEF TryWriteLock, MutexTryLock, IsLive, LockInv, TypeOK, CounterInv
      <4>3. reading[l] = {} /\ writing[l] = {}
        BY <4>1, <4>2, <2>a DEF ClientInv
      <4>4. Abstract!Own(l, c)
        BY <4>1, <4>3 DEF AcquireWrite, Abstract!Own, LockInv, TypeOK
      <4> QED
        BY <4>4
    <3>3. CASE ReadUnlock(l, c)
      <4>1. c \in reading[l] /\ readers[l] # 0
        BY <3>3 DEF ReadUnlock, ReadUnlockNow, IsLive, MayRelease, LockInv, TypeOK, CounterInv
      <4>2. ~writer[l]
        BY <3>3 DEF ReadUnlock, ReadUnlockNow, IsLive, LockInv, TypeOK, CounterInv
      <4>3. writing[l] = {}
        BY <4>2 DEF ClientInv
      <4>4. Abstract!Release(l, c)
        BY <3>3, <4>3 DEF ReadUnlock, ReadUnlockNow, Abstract!Release, LockInv, TypeOK
      <4> QED
        BY <4>4
    <3>4. CASE WriteUnlock(l, c) \/ MutexUnlock(l, c)
      <4>1. ReleaseWrite(l, c) /\ readers[l] = 0
        BY <3>4 DEF WriteUnlock, MutexUnlock, IsLive, ReleaseWrite, LockInv, TypeOK, CounterInv
      <4>2. reading[l] = {}
        BY <4>1, <2>a
      <4>3. Abstract!Release(l, c)
        BY <4>1, <4>2 DEF ReleaseWrite, Abstract!Release, LockInv, TypeOK
      <4> QED
        BY <4>3
    <3>5. CASE WriteLock(l, c) \/ MutexLock(l, c)
      BY <3>5 DEF WriteLock, MutexLock, EmptyLock, LockInv, TypeOK
    <3> QED
      BY <2>2, <3>1, <3>2, <3>3, <3>4, <3>5 DEF Client
  <2>3. CASE UNCHANGED vars
    BY <2>3 DEF vars
  <2> QED
    BY <2>b, <2>1, <2>2, <2>3 DEF Next
<1>3. QED
  BY <1>1, <1>2, LockInvariant, ClientInvariant, PTL DEF Spec, SharedExclusiveSpec, Abstract!Spec
==============================================================================
