------------------------------- MODULE UVLock -------------------------------
(***************************************************************************)
(* UVLock, UVMutex and UVSemaphore.  libuv's locks do not tell whether     *)
(* they are held, so the wrapper keeps a counter in the C struct and a     *)
(* copy of it in the object:                                               *)
(*    0  free      1  write-locked, or mutex taken      n+1  n readers     *)
(* Guards read the struct's counter, the destructor reads the copy.  A     *)
(* static counter of lock objects clears the whole extension module when   *)
(* it returns to zero.                                                     *)
(*                                                                         *)
(* Clients are the callbacks, fibers or functions of one PHP thread that   *)
(* share a lock; a call is atomic.                                         *)
(***************************************************************************)
EXTENDS Integers, FiniteSets

CONSTANTS
  Locks,        \* the lock objects a program may create
  Clients,      \* the parts of the program that use them
  Disciplined,  \* the locks whose clients release only what they acquired
  Trusts,       \* the blocking calls whose return a client takes as success
  MaxReaders,   \* bound: read locks taken and not released
  MaxPermits    \* bound: permits of a semaphore

ASSUME LockAssumption ==
  /\ IsFiniteSet(Clients)
  /\ Disciplined \subseteq Locks
  /\ Trusts \subseteq {"rdlock", "wrlock", "mutex_lock"}
  /\ MaxReaders \in Nat
  /\ MaxPermits \in Nat

VARIABLES
  type,      \* the class of a lock object, "none" before, "freed" by the program,
             \* and "gone" once it was destroyed
  locked,    \* struct_base->locked
  copy,      \* $this->locked
  readers,   \* uv_rwlock_t: read locks held
  writer,    \* uv_rwlock_t or uv_mutex_t: held exclusively
  permits,   \* uv_sem_t
  counter,   \* the static $locking_counter
  cleared,   \* module_clear() has run: the FFI instance is gone
  reading,   \* for each lock, the clients that rely on a read lock
  writing    \* for each lock, the clients that rely on a write lock or mutex

vars == <<type, locked, copy, readers, writer, permits, counter, cleared, reading, writing>>
native == <<readers, writer>>
clients == <<reading, writing>>
module == <<type, counter, cleared>>

LockTypes == {"rwlock", "mutex", "semaphore"}

TypeOK ==
  /\ type \in [Locks -> LockTypes \cup {"none", "freed", "gone"}]
  /\ locked \in [Locks -> Nat]
  /\ copy \in [Locks -> Nat]
  /\ readers \in [Locks -> Int]
  /\ writer \in [Locks -> BOOLEAN]
  /\ permits \in [Locks -> Nat]
  /\ counter \in Int
  /\ cleared \in BOOLEAN
  /\ reading \in [Locks -> SUBSET Clients]
  /\ writing \in [Locks -> SUBSET Clients]

Init ==
  /\ type = [l \in Locks |-> "none"]
  /\ locked = [l \in Locks |-> 0]
  /\ copy = [l \in Locks |-> 0]
  /\ readers = [l \in Locks |-> 0]
  /\ writer = [l \in Locks |-> FALSE]
  /\ permits = [l \in Locks |-> 0]
  /\ counter = 0
  /\ cleared = FALSE
  /\ reading = [l \in Locks |-> {}]
  /\ writing = [l \in Locks |-> {}]

------------------------------------------------------------------------------
(* Objects *)

\* uv_rwlock_init(), uv_mutex_init(), uv_sem_init().
Create(l, t, value) ==
  /\ type[l] = "none" /\ ~cleared
  /\ type' = [type EXCEPT ![l] = t]
  /\ counter' = counter + 1
  /\ permits' = [permits EXCEPT ![l] = IF t = "semaphore" THEN value ELSE 0]
  /\ UNCHANGED <<locked, copy, native, cleared, clients>>

\* Mutant: a lock that was not initialised is not counted down again.
CreateFailedCounted(l) ==
  /\ type[l] = "none" /\ ~cleared
  /\ type' = [type EXCEPT ![l] = "gone"]
  /\ counter' = counter + 1
  /\ UNCHANGED <<locked, copy, native, permits, cleared, clients>>

\* The object is dropped when libuv refuses to initialise the lock, and its
\* destructor runs.
CreateFailed(l) ==
  /\ type[l] = "none" /\ ~cleared
  /\ type' = [type EXCEPT ![l] = "gone"]
  /\ cleared' = (counter = 0)
  /\ UNCHANGED <<locked, copy, native, permits, counter, clients>>

\* The read locks the destructor's loop gives back: while (--locked > 0).
Forced(l) == IF copy[l] > 1 THEN copy[l] - 1 ELSE 0

\* __destruct(): give back what the copy says is held, destroy the native
\* lock, and with the last lock clear the module.
DestroyWith(l, released) ==
  /\ type[l] \in LockTypes
  /\ writer' = [writer EXCEPT ![l] = @ /\ copy[l] # 1]
  /\ readers' = [readers EXCEPT ![l] = IF type[l] = "rwlock" THEN @ - released ELSE @]
  /\ copy' = [copy EXCEPT ![l] = IF @ > 1 THEN 0 ELSE @]
  /\ counter' = counter - 1
  /\ cleared' = (counter' = 0)
  /\ type' = [type EXCEPT ![l] = "gone"]
  /\ reading' = [reading EXCEPT ![l] = {}]
  /\ writing' = [writing EXCEPT ![l] = {}]
  /\ UNCHANGED <<locked, permits>>

\* Mutant: the loop gives back one read lock too many.
DestroyOneMore(l) == DestroyWith(l, IF copy[l] > 1 THEN copy[l] ELSE 0)

Destroy(l) == DestroyWith(l, Forced(l))

\* free(), which the program may call: the object loses its type and its struct.
\* Its destructor will do nothing, since the lock it does not count down keeps
\* the static counter from zero.  Disciplined clients do not free a lock that
\* one of them relies on.
Free(l) ==
  /\ type[l] \in LockTypes
  /\ l \in Disciplined => reading[l] = {} /\ writing[l] = {}
  /\ type' = [type EXCEPT ![l] = "freed"]
  /\ reading' = [reading EXCEPT ![l] = {}]
  /\ writing' = [writing EXCEPT ![l] = {}]
  /\ UNCHANGED <<locked, copy, native, permits, counter, cleared>>

------------------------------------------------------------------------------
(* Read-write lock *)

IsLive(l, t) == type[l] = t

\* `if (!locked++) locked = 2`: the first reader makes it two.
OneReaderMore(n) == IF n = 0 THEN 2 ELSE n + 1

\* Mutant: the last reader leaves a one, which reads as write-locked.
OneReaderLessOff(n) == IF n = 2 THEN 1 ELSE n - 1

\* `if (--locked == 1) locked = 0`: the last reader leaves it free.
OneReaderLess(n) == IF n = 2 THEN 0 ELSE n - 1

SetLocked(l, n) ==
  /\ locked' = [locked EXCEPT ![l] = n]
  /\ copy' = [copy EXCEPT ![l] = n]

\* rdlock() and tryrdlock() past their guard: no writer, so libuv grants it.
AcquireRead(l, c) ==
  /\ readers[l] < MaxReaders
  /\ l \in Disciplined => c \notin reading[l]
  /\ readers' = [readers EXCEPT ![l] = @ + 1]
  /\ SetLocked(l, OneReaderMore(locked[l]))
  /\ reading' = [reading EXCEPT ![l] = @ \cup {c}]
  /\ UNCHANGED <<module, writer, permits, writing>>

TryReadLock(l, c) ==
  /\ IsLive(l, "rwlock")
  /\ locked[l] # 1 /\ ~writer[l]
  /\ AcquireRead(l, c)

\* uv_rwlock_rdlock() returns nothing: a client that trusts it goes on even if
\* the lock was refused with a warning.
ReadLock(l, c) ==
  /\ IsLive(l, "rwlock")
  /\ \/ /\ locked[l] # 1 /\ ~writer[l]
        /\ AcquireRead(l, c)
     \/ /\ locked[l] = 1
        /\ reading' = [reading EXCEPT ![l] = @ \cup (IF "rdlock" \in Trusts THEN {c} ELSE {})]
        /\ UNCHANGED <<module, locked, copy, native, permits, writing>>

\* Where clients are disciplined they release what they rely on.
MayRelease(l, c, holders) == l \in Disciplined => c \in holders

ReadUnlockNow(l, c) ==
  /\ IsLive(l, "rwlock")
  /\ MayRelease(l, c, reading[l])
  /\ readers' = [readers EXCEPT ![l] = @ - 1]
  /\ SetLocked(l, OneReaderLess(locked[l]))
  /\ reading' = [reading EXCEPT ![l] = @ \ {c}]
  /\ UNCHANGED <<module, writer, permits, writing>>

\* Mutant: the guard is dropped.
ReadUnlockUnguarded(l, c) == ReadUnlockNow(l, c)

ReadUnlock(l, c) == locked[l] > 1 /\ ReadUnlockNow(l, c)

AcquireWrite(l, c) ==
  /\ writer' = [writer EXCEPT ![l] = TRUE]
  /\ SetLocked(l, 1)
  /\ writing' = [writing EXCEPT ![l] = @ \cup {c}]
  /\ UNCHANGED <<module, readers, permits, reading>>

TryWriteLock(l, c) ==
  /\ IsLive(l, "rwlock")
  /\ locked[l] = 0
  /\ ~writer[l] /\ readers[l] = 0
  /\ AcquireWrite(l, c)

\* wrunlock() and UVMutex::unlock().
ReleaseWrite(l, c) ==
  /\ locked[l] = 1
  /\ MayRelease(l, c, writing[l])
  /\ writer' = [writer EXCEPT ![l] = FALSE]
  /\ SetLocked(l, 0)
  /\ writing' = [writing EXCEPT ![l] = @ \ {c}]
  /\ UNCHANGED <<module, readers, permits, reading>>

WriteUnlock(l, c) == IsLive(l, "rwlock") /\ ReleaseWrite(l, c)

\* The bodies of uv_rwlock_wrlock() and uv_mutex_lock() are empty.
EmptyLock(l, c, t, name) ==
  /\ IsLive(l, t)
  /\ writing' = [writing EXCEPT ![l] = @ \cup (IF name \in Trusts THEN {c} ELSE {})]
  /\ UNCHANGED <<module, locked, copy, native, permits, reading>>

WriteLock(l, c) == EmptyLock(l, c, "rwlock", "wrlock")

------------------------------------------------------------------------------
(* Mutex and semaphore *)

MutexLock(l, c) == EmptyLock(l, c, "mutex", "mutex_lock")

\* Mutant: the error of uv_mutex_trylock() is not looked at.
MutexTryLockUnchecked(l, c) == IsLive(l, "mutex") /\ AcquireWrite(l, c)

MutexTryLock(l, c) ==
  /\ IsLive(l, "mutex")
  /\ ~writer[l]
  /\ AcquireWrite(l, c)

MutexUnlock(l, c) == IsLive(l, "mutex") /\ ReleaseWrite(l, c)

\* The semaphore functions go straight to libuv; uv_sem_wait() blocks at zero.
SemPost(l) ==
  /\ IsLive(l, "semaphore")
  /\ permits[l] < MaxPermits
  /\ permits' = [permits EXCEPT ![l] = @ + 1]
  /\ UNCHANGED <<module, locked, copy, native, clients>>

SemTake(l) ==
  /\ IsLive(l, "semaphore")
  /\ permits[l] > 0
  /\ permits' = [permits EXCEPT ![l] = @ - 1]
  /\ UNCHANGED <<module, locked, copy, native, clients>>

------------------------------------------------------------------------------

Object(l) ==
  \/ \E t \in LockTypes, value \in 0..MaxPermits : Create(l, t, value)
  \/ CreateFailed(l)
  \/ Destroy(l)
  \/ Free(l)
  \/ SemPost(l)
  \/ SemTake(l)

Client(l, c) ==
  \/ ReadLock(l, c)
  \/ TryReadLock(l, c)
  \/ ReadUnlock(l, c)
  \/ WriteLock(l, c)
  \/ TryWriteLock(l, c)
  \/ WriteUnlock(l, c)
  \/ MutexLock(l, c)
  \/ MutexTryLock(l, c)
  \/ MutexUnlock(l, c)

Next == \E l \in Locks : Object(l) \/ \E c \in Clients : Client(l, c)

Spec == Init /\ [][Next]_vars

------------------------------------------------------------------------------
(* What the counters promise *)

\* The counter in the struct, its copy in the object and the native lock agree,
\* whoever unlocks what how often: the guards and the destructor decide by the
\* counters, and libuv does not forgive unlocking a lock that is not held.
CounterMatchesNative ==
  \A l \in Locks : type[l] \in LockTypes =>
    /\ copy[l] = locked[l]
    /\ writer[l] <=> locked[l] = 1
    /\ readers[l] = IF locked[l] > 1 THEN locked[l] - 1 ELSE 0

\* A native lock is destroyed only when nobody holds it: the destructor has
\* given back every read lock, the write lock or the mutex, and no more.
DestroyedFree ==
  \A l \in Locks : type[l] = "gone" => readers[l] = 0 /\ ~writer[l]

\* What each disciplined client relies on is really held: no call of another
\* client, on this lock or on any other, took it away.
ReliedOnHeld ==
  \A l \in Disciplined :
    /\ Cardinality(reading[l]) = readers[l]
    /\ writing[l] # {} <=> writer[l]

\* Clients that rely on a lock exclude each other ("Set write lock.", "Lock
\* mutex.", UVFunctions.php).
MutualExclusion ==
  \A l \in Locks : \A c \in writing[l] :
    reading[l] = {} /\ writing[l] = {c}

CountedLocks == {l \in Locks : type[l] \in LockTypes \cup {"freed"}}

\* The module is cleared when the last lock object goes and not before: no
\* live lock is left without an FFI instance to destroy it with.  What the
\* program gave up by free() is counted for good.
ClearedWithLastLock ==
  /\ counter = Cardinality(CountedLocks)
  /\ cleared => counter = 0

\* With clients that release what they acquired and check what they were
\* given, a lock is a shared/exclusive lock.
Abstract == INSTANCE SharedExclusive WITH
  Locks <- Disciplined,
  shared <- [l \in Disciplined |-> reading[l]],
  exclusive <- [l \in Disciplined |-> writing[l]]

SharedExclusiveSpec == Abstract!Spec
==============================================================================
