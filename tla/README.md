# A specification of uv-ffi

uv-ffi gives PHP programs libuv through PHP's FFI. The interesting part of it is
not the calls it passes on but what it adds to them: libuv's handles, requests,
loops and locks know nothing of PHP's reference counts, and PHP knows nothing of
libuv's callbacks. The wrapper joins the two by `zval_add_ref()`,
`zval_del_ref()`, by the closures it gives to FFI and by counters and flags of
its own. Whether every object is there when libuv calls back, whether it goes
afterwards, and whether the module is shut down by the end, depends on
the order of calls and callbacks. That is what these modules are about.

File names below are relative to the repository (`src/UVHandles.php` and so on);
`UVHandles` stands for `src/UVHandles.php`, `UVHandler` for `src/UVHandler.php`,
`UVFunctions` for `src/UVFunctions.php`.

## The system

| Part | State | Operations | Hard because |
|---|---|---|---|
| **Handle base** (`UVHandler`) | PHP object and its count, `uv_handle_t`, FFI closures | construct, `uv_close()`, destructor | `close()` adds and removes references depending on whether the handle is active; the destructor does not close |
| **Watchers** (UVAsync, UVTimer, UVIdle, UVPrepare, UVCheck, UVSignal, UVPoll, UVFsPoll, UVFsEvent) | as above, timer mode | init, start, stop, again, set_repeat, events | each class counts references in another way; callbacks stop, close and forget their own handle |
| **Streams** (UVStream, UVTcp, UVPipe, UVTty), **datagrams** (UVUdp) | as above, descriptor, reading or listening | init, open, bind, read, listen, accept, connect, write, shutdown, recv, send, stop | requests are answered after later calls, and around `uv_close()` |
| **Requests** (UVRequest, UVWriter, UVShutdown, UVConnect, UVUdpSend, UVWork, UVGetNameinfo, UVGetAddrinfo, UVFs) | object, C struct, buffer, callback | submit, refusal, answer, release | nobody but a closure refers to them while libuv works on them |
| **File system** (UVFs) | `fd_alt`, `buffer`, table from resources to descriptors | 25 `uv_fs_*()` functions, with or without a callback | one function with three ways to finish and two ways to clean up |
| **Child processes** (UVStdio, UVProcess) | containers, the process's streams | stdio_new, spawn, exit, kill | containers are emptied one by one, spawn may fail in the middle |
| **Locks** (UVLock, UVMutex, UVSemaphore, UVThreader) | counter in the struct, copy in the object, static counter of lock objects | init, lock, try, unlock, post, wait, `free()`, destructor | libuv does not say whether a lock is held, and does not forgive a wrong unlock |
| **Loops and module** (UVLoop, ext_uv, UVThreader) | flags of the loop, default loop, `shutdown_on_request`, `uv_exited`, FFI instance | init, default, run, stop, close, delete, destructor, request and module shutdown | destructors and shutdown functions call each other and the program's callbacks, in an order PHP chooses; ext_uv may remember a loop that is gone |
| **Keys and libraries** (UVTypes, UVKey, UVLib) | C struct and the pointer to it, what the process has of keys and libraries | create, set, delete, free, destructor; open, close, free, destructor | three ways to give up the same thing, and refusals that leave an object |
| Addresses, system information, constants, options | none | one call of libuv each | nothing that lasts: not modelled |
| Threads (UVThread) | engine state shared between threads | create, join | not modelled, see the end |
| FFI loader (`preload.php`) | the FFI instance | `uv_init()`, `uv_ffi_loader()` | not modelled but for the instance's end |

How they meet: a program calls `uv_*()` functions (`UVFunctions`), which call
methods of the objects, which call libuv. libuv calls back from `uv_run()`, one
callback at a time, on the PHP thread; a callback may call anything again.
A lock and a loop meet in ext_uv, whose module either of them may clear. A
process and a stream meet in UVStdio. A stream and its requests meet in
libuv's queues and in the stream's reference count. UVFs and PHP's streams meet
in the resource table of the package ze-ffi.

What makes each part correct is, in short: the object behind whatever libuv will
call is alive (handles, requests, children's streams); what was taken is given
back once (requests, buffers, watchers, loops); the wrapper's idea of a libuv
object agrees with the object (locks, keys, libraries, closed files); shutdown
happens once, at the end, and nothing comes after it (loops and module).

## Modules

```
UVHandler ─┬─ UVWatchers ── UVWatchersProofs            MCWatchers
           └─ UVRequest ─┬─ UVTransport ─┬─ UVSystem ── UVSystemProofs    MCSystem
                         └─ UVPool ──────┘
                           UVTransport ──── UVProcess ── UVProcessProofs  MCProcess
Lending          implemented by UVWatchers, UVSystem and UVProcess
UVLock ── UVLockProofs                                  MCLock
SharedExclusive  implemented by UVLock
UVLoop ── UVLoopProofs
UVTypes ── UVTypesProofs                                MCTypes
```

- **UVHandler** has what every handle shares. `object` and `native` are the two
  lives; the count of an object is `held` (a variable of the program) plus
  `running` (the argument of the callback that runs) plus `closures` (FFI keeps
  a closure until the request ends, and with it what it captures) plus `pins`
  (`zval_add_ref()` less `zval_del_ref()`, and references from other objects of
  the wrapper). `Settle` destroys the object at zero. `CloseHandle` is
  `UVHandler::close()` with its two branches.
- **Lending** is what the wrapper owes to libuv, in three sets: what libuv was
  lent (a handle that is active or closes with a callback, a request it works
  on, the streams of a running child), what a callback is about, and what is
  gone. Nothing lent or called about is gone, nothing comes back, no callback
  interrupts another or is about something that was not lent. Each of the three
  compositions states by which of its variables it implements that
  (`LendingSpec`).
- **UVWatchers** has one action for each start, stop and event of nine classes.
- **UVRequest** has the life of a request: `refs` and `buffer` are what
  remains of references to it and to its data after the function that made it
  has returned, `Answer` is libuv's completion, `Answered` what the closure
  gives back.
- **UVTransport** has streams and datagrams, their requests and events;
  **UVPool** the thread pool: `FsOperation` is `UVFs::init()` with its ways out
  (`FsRefused`, `FsQueue`, `FsBlock`, `FsOpenBlock`), `FsReturn` the end of its
  closure. **UVSystem** composes both on one loop.
- **UVProcess** has UVStdio and UVProcess. `Spawn` reads the containers in
  order (`Passes`, `GivesUp`); `SpawnRefused` is the `return false` in the middle.
- **SharedExclusive** is what a lock promises to its clients; **UVLock** is
  the counted implementation in UVLock, UVMutex and UVSemaphore, and implements
  it (`SharedExclusiveSpec`).
- **UVLoop** has the loop objects, ext_uv and UVThreader. `stack` is the call
  stack: the calls of `uv_run()` that have not returned, and the destructors and
  shutdown functions that are still to be called, innermost first, so that
  every nesting of them is explored. The program goes on when the stack is empty
  or a `uv_run()` is innermost, be it one of its own (`"run"`) or that of a
  destructor (`"drain"`), whose close callbacks may do what the program may do.
  So `__destruct()` is three actions, `Destruct`, `DrainReturn` and `Free`, with
  callbacks between them, and `init()` is two, since making a loop may destroy
  the one it replaces as the default. A `uv_run()` goes on (`LoopStep`) and
  returns (`RunReturn`) also when a callback has cleared the module. `CanReach`
  asks no more than the code does whether a loop is alive: `uv_default_loop()`
  hands out what ext_uv points to, and a call on a destroyed loop passes null to
  libuv, which ends the process (`CallDestroyed`).
- **UVTypes** has UVKey and UVLib. `pointer` is `uv_type_ptr`; `KeyFree`,
  `KeyDelete` and `KeyDestruct` are the three ways to give a key up, `LibClose`
  and `LibDestruct` those of a library. `Clear` is the end of the module, after
  which destructors fail before they have done anything.

A call of the wrapper is one action: PHP is not preempted, and libuv calls back
from `uv_run()` only. Interleaving is between calls and callbacks.

## Runs

| Run | Shows | Bounds, and why they are enough |
|---|---|---|
| `watchers` | No active handle without its object, no use of a destroyed one, a close is never redone; Lending is implemented | two handles of seven classes (prepare and check are as idle), two closures and two extra references each: a start, a restart and a close; handles meet only in `running` |
| `watchers_live` | References pair with activity; closes finish and call back; async objects are reclaimed | two handles of three classes, one of each way of counting |
| `locks` | Counters and native locks agree, the last lock clears the module and those given up by `free()` keep it; a disciplined client's lock is held; SharedExclusive is implemented | two locks of any class, of which the clients of one are disciplined and those of the other are not, so that both meet; three clients and readers: two readers and a writer, and the counter's 0, 1, 2 and what follows |
| `lock_blocking` | *violation*: `uv_rwlock_wrlock()` and `uv_mutex_lock()` lock nothing | one lock, two clients |
| `loop_pair` | The module is cleared by the end, with `uv_destruct_set()` when the last loop goes; nothing calls libuv after, from wherever the module was cleared; calls of destructors and shutdown functions come to an end; a sole loop is not lost by one call, and none is taken from its run | two loops, a handle, a lock, one `uv_run()` at a time of the program's or a destructor's beside those that are nested in destructors, one counted call of run/stop/close per loop; with two calls the run `loop_stop` shows what happens. Windows, where the destructor of an owned struct frees it as well |
| `loop_stop` | *violation*: `uv_stop()` in a callback destroys the loop that the program holds | one loop |
| `loop_busy` | *violation*: a loop libuv refused to close is freed | one loop with one handle |
| `system` | Requests outlive their answers and are given back once; handles outlive their callbacks; file operations find what was kept for them; Lending is implemented | one handle (tcp or udp), two requests, one file that is opened, closed, read, synchronized and asked about (`Callers`: an operation that makes a file, one that ends it, one with a buffer, one that needs a callback, one whose failure goes unnoticed without one), four closures; the interplay of a request is with its handle, its file and one other request |
| `udp_close` | *violation*: a datagram's callback after `uv_close()` finds a destroyed handle | one handle, two requests |
| `process` | A child's streams exist while it runs; a container is spent once; Lending is implemented | three handles (children that share a stream, or a child with two), two containers, two closures |
| `types` | No key is lost or taken by the end of an object; a library is closed once | three keys for two free numbers, two objects for two libraries: a number is used again, a library is opened twice, and the engine has one key |
| `keys` | *violation*: a program that is refused a key loses the one numbered zero | two keys and one free number |

Every bound is a constant or a guard named in its module (`MaxClosures`,
`MaxPins`, `MaxReaders`, `MaxPermits`, `MaxHandles`, `MaxCalls`, `MaxRuns`,
`MaxLocks`, `MaxStdio`). Two bounds of UVLoop are not numbers: handles of two
loops do not meet (`MoveHandle`), and at most one wrapper of libuv's own default
loop is alive (`CanWrap`). Symmetry is declared for handles, requests, locks, clients, containers, keys and
libraries, all of them model values that the specifications only compare, and
never in a run with a liveness property; action properties and refinements of
abstract steps look at one step at a time, and permuting both of its states
changes neither the step nor the property. `CHECK_DEADLOCK FALSE` is stated where a
program may close everything and end, or the request ends.

`ClosesTwice`, `Tidy`, `Disciplined`, `Trusts` and `StopsOutside` are
assumptions about the program, and so are the conditions of `KeysKept`: that it
is refused no key and leaves their deletion to the destructor. A run says which
it makes; with the weaker assumption the property fails for the reason given
under *Known deviations*.

### Fairness

- `CallbackReturn` is weakly fair: callbacks of the program return.
- `FinishClose` is strongly fair: `uv_run()` reaches its closing phase in every
  iteration and finishes all closes it finds, but between two of them other
  callbacks run, during which it is not enabled. Weak fairness would allow the
  phase to be missed for ever. It assumes that the program runs the loop.
- `Unwind` in UVLoop is weakly fair: PHP makes the calls it has begun. A
  `uv_run()` is not among them, neither the program's nor a destructor's: that
  one may go on for as long as its callbacks make it.

Nothing else is fair: no event has to come and no program has to call anything.

## Proofs

The modules named `...Proofs` hold for every value of the constants, under the
named assumptions on them. These say that the model values for "nothing" are
none of the things (`HandlerAssumption`, `RequestAssumption`, `PoolAssumption`,
`SystemAssumption`, `LoopAssumption`, `TypesAssumption`), that bounds are
numbers, and that what is counted is finite: clients of a lock, requests,
containers, loops and library objects. Handles, locks, keys and files may be
any number.

In each module an inductive invariant carries the theorems, and most of it is
counting: hardly a property that the runs check is inductive, because "the
object is alive" follows from how many references are left, and that number
from what everybody else has done with it.

**Locks.** `LockInv` says for each class and stage of a lock what its three
counters are: a live read-write lock has a struct counter of zero, one exactly
if the native lock is held for writing, or readers plus one; the copy equals it
until the destructor has run. `CounterMatchesNative` alone is not inductive: it
does not say that a mutex never has readers, nor that the counter of lock
objects counts those that were not destroyed. `ClientInv` adds, for disciplined clients, that the
clients relying on a lock are as many as its native holders. From the two
follow `CountersAgree`, `DestroyedLocksFree`, `ClearedLast`, `HeldWhileReliedOn`
and `Implements`, the refinement of SharedExclusive, step by step.
`ClientsExclude` is the other side of the run `lock_blocking`: with
`Disciplined = Locks` and `Trusts = {}`, that is, if clients release what they
acquired and rely only on calls that report a refusal, they exclude each other.
What breaks `MutualExclusion` is trust in `uv_rwlock_wrlock()`, `uv_mutex_lock()`
or a refused `uv_rwlock_rdlock()`, never the counters.

**Watchers.** `IInv` says for each class how many references are outstanding in
each state of the handle (`Counted`, `Covered`), and that an object is
destroyed only if none is left. `ActiveHandleAlive` is not inductive since the
count may be anything: it has to be known that each started class has a
reference or a closure that its stop or close can give back. From it follow
`ActiveAlive`, `NeverDangles`, `PairedReferences`, `AsyncGoes` and
`LendingKept`; `CloseIsFinal` needs only types. `ClosesComplete` and
`CloseCallbacksRun` prove the two liveness properties from the fairness stated
above. ENABLED is out of the provers' reach, so the fairness is
a hypothesis with its enabling condition written out: `CallbacksReturn` says that
again and again no callback runs, `LoopFinishes(h)` that the loop finishes a handle
which is closing again and again while no callback runs. The second is
the strong fairness of `FinishClose(h)`, whose guard is that condition, the first
what the weak fairness of `CallbackReturn` is for.
What is proved is that nothing in between disturbs the close: a handle that is
closing stays so, with the callback it was given, until it is finished.

**Loops.** `IInv` is about the loops and the calls on the stack together.
`Holds` says of each loop that a dying one has the rest of its destructor on the
stack, and that each reference taken away, and the one its run will take, was
one call of the program. `Sole` says that the only loop there is is the default.
`Module` says that a module that is not cleared when the request is done, or when
the last lock of it is gone, has a call on the stack that will lead to it;
`ClearedAtEnd` only says what holds when the stack is empty. `Once` says that a
loop's `run()` is on the stack at most once, so that it loses its two references,
the parameter and `$this`, when that call returns and not before. An action that
ends with `Settle()` may destroy loops and push their destructors; what it has to
show before that is `Prepared`, and `AfterSettle` draws the invariant from it, once
for all actions (the lemmas named `...Settles`).

`SoleLoopStays` and `RunningLoopStays` are about the step that takes a loop away:
`NothingLeft` says that it had no reference left then, and the invariant that it
had. Neither needs to know what callbacks do, replace or clear. `NothingAfterClear`
goes through the actions: without the FFI instance the program can call nothing
and a destructor returns at once; what is left are the steps of a `uv_run()` that
was not over.

`NoCallsForEver` is the variant behind `CallsReturn`. Each destructor or shutdown
function that is still to be called has a weight that covers whatever it can
call for (`Weight`, `Rank`; a destructor's that of the `uv_run()` it makes, too), a
live loop has that of its destructor, and `CallsLeft` adds them up: until the
program or a callback goes on, every step makes a call and lowers the sum. From there to `CallsReturn` it takes the induction over natural
numbers in a temporal formula and the fact that `Unwind` is enabled, both out of
reach; that last step is TLC's. `LastLoopClears` proves `ClearsWithLastLoop` from
`CallsReturn`: what the last loop's destructor put on the stack is not popped
before `module_clear()` is called.

**Streams, requests and files.** `SystemInv` counts on both sides: what keeps a
handle covers everything libuv still has to call it for (`StreamInv`, `UdpInv`),
and what keeps a request is exactly what the end of its callback gives back
(`RequestInv`, `PoolInv`). A stream may have more references than it needs, since
closures are never given back; for a UDP handle the balance is exact, since
`send()` takes none and its answer gives one back. `UdpInv` therefore counts
the datagrams on their way, and needs the assumption `Tidy`.

That assumption is kept where it belongs: `HandleOK` asks for the count of a
stream always and for that of a UDP handle if the program is tidy, and
`HandlesStep` shows that a handle which is not counted stays such a handle. So
requests and files (`RequestsAlive`, `RequestsReclaimed`, `CallbackKept`,
`UnlistedWhenClosed`) and streams (`StreamsAlive`) are safe in every program,
also in the one that `udp_close` shows losing its UDP handle; only
`UseAfterDestroy`, `SendersFound` and `LendingKept`, which are about UDP handles
too, assume `Tidy`.

**Children.** `Owed(h)` adds up what a process or a stream is owed by libuv, by
the exit callback, by the containers that name it and by the children that were
given it. References of a stream only move, from containers to the process;
`Moved` shows that this keeps the balance, for a forgotten container, for a
refusal half way and for a spawn. `SpentInv` says that what a child was given is
empty for ever, so that `SpentOnce` follows for a list that names a container
twice as well.

**Keys and libraries.** `KeyInv` is `KeysKept` and that an object which was not
created is as its constructor finds it; `LibInv` is `LoadedWhileOpen` and that
only live objects have a struct, and of a library that exists. Either half of
the module leaves the other's variables alone.

The type invariant of every module is a theorem (`TypeCorrect`); `locks`,
`loop_pair` and `types` check theirs as well.

Only model-checked: `CallsReturn`, for the reason given with its variant, and the
five properties of the runs that are expected to fail. Of these `SenderAlive` and
`MutualExclusion` are proved under the assumptions that the runs drop
(`SendersFound`, `ClientsExclude`); `SoleLoopStays` is what remains of
`HeldAlive`, and `KeysStay` of `RefusalHarmless`. That the bounds of the runs (`MaxClosures`, `MaxPins` and the
like) do not hide anything is part of every theorem: they may be any numbers.

## Assumptions and abstractions

- libuv is external: handles change state as on Unix, a request or an event
  calls back at most once, a closing handle's requests are answered before its
  close is finished. Its preconditions are assumed where the wrapper passes a
  call on (a handle is open before it is read, is not used after `uv_close()`,
  is of the right class).
- `zval_del_ref()` lowers the count by one; that a count reaches zero shows
  when the next reference is released by PHP itself.
- A rejected call (a warning and an early return) that changes nothing is not a
  step. Errors of level `E_ERROR` are taken to end the call, not the program.
- Contents of buffers, addresses, paths, results and messages are left out.
- `uv_ref()` and `uv_unref()` do not change what is modelled of a handle.

## Known deviations

What the model, read from the code, shows of it beside the five runs that are
expected to fail, and what the properties exclude by an assumption:

- `uv_fs_event_stop()` gives back a reference of a handle that is not active
  (`UVFunctions` 3012): a second stop destroys an object in use.
  `NoUseAfterDestroy` excludes fs_event.
- `uv_fs_event_init()` returns the int of `start()` (`UVHandles` 2000), so the
  program has no variable for the handle until its callback.
- A second `uv_close()` leaves a reference behind (`UVHandler` 66 before 70);
  `PinnedWhileActive` and `AsyncReclaimed` exclude it by `ClosesTwice`.
- On Windows the C struct is freed with the object, also while libuv closes it.
- `uv_default_loop()` returns the loop made last, not libuv's default.
- A loop that no variable refers to is destroyed after its first run, and ext_uv
  still points to it: `$loop = uv_default_loop()` then holds a loop without a
  `uv_loop_t`, and a second `uv_run()` without an argument passes null to libuv,
  which ends the process (`ext_uv` 51, `UVHandles` 59).
- Four stops destroy a loop during its run; two loops run once each destroy the
  first while its variable is in use.
- What the destructor closes need not be closed when the loop is freed: a close
  callback may close another handle and stop the loop that is being drained
  (`UVHandles` 48), and after a stop outside a run the first `uv_run()` is left out
  and the second returns at once (`UVHandles` 36).
- The last lock object shuts the library down under a loop that has active
  handles, also in a callback of its `uv_run()` (`UVThreader` 64); with
  `uv_destruct_set()` so does the end of any loop that was the default, or that
  ended after the default was forgotten, under the others (`UVHandles` 62).
- A lock that was given up by its public `free()` is not counted down
  (`UVThreader` 121): the locks never clear the module again, and since they were
  to do it, neither does the end of the request. UVLock has it; UVLoop assumes
  that locks are left to their destructors.
- A loop that libuv refused to initialise stays the default (`UVHandles` 138
  before 139); nothing is modelled of its use.
- `uv_rwlock_rdlock()` discards the refusal of `UVLock::rdlock()`.
- UVUdp: `send()` takes no reference and its callback gives one back unless the
  handle is closing; `stop()` of a handle that only sends gives one back too;
  `recv()` is refused while a datagram is on its way. `NoUseAfterDestroy` assumes
  a tidy program (`Tidy`); `udp_close` does not.
- A write that libuv refuses and that has no callback gives back a reference to
  its buffer that nobody took; so does `getnameinfo()` without a callback to its
  request. A shutdown request is never reclaimed, and streams are not after
  reads, connections or answers.
- `uv_fs_lstat()` never works: `FS_LSTAT` has no case for paths, and the call
  of libuv's lstat is under `FS_FSTAT` (`UVHandles` 1840).
- Every file operation with a callback, and every one that fails, removes the
  file's entry from the resource table although the file is open (`UVHandles`
  1698 from 1795 and 1959); a blocking `fstat` that fails is not noticed, since its
  result is replaced (`UVHandles` 1886); `uv_fs_open()` without a callback makes a resource
  of a negative error.
- `uv_fs_read()` without a callback returns a count and drops the data.
- `getaddrinfo()` looks for the hints' names among their values, so no hint is
  ever used, and would store `ai_protocol` as `ai_socktype`.
- A key that the program deletes with `uv_key_delete()` is deleted again by the
  destructor (`UVFunctions` 1705, `UVHandles` 1451): by then the number may be
  somebody else's, and if it is free libuv aborts the process. `KeysKept`
  excludes it.
- `uv_key_get()` of a key without a value returns null against its return type
  (`UVFunctions` 1711), which PHP reports as a TypeError.
- When `uv_dlopen()` fails it drops the object, so the program has nothing to
  ask `uv_dlerror()` about, although its comment says to (`UVFunctions` 690).
- The destructors of UVKey and UVLib fail with an Error once the module is
  cleared; what they own stays with the process.
- `uv_init()` catches `Exception` (`preload.php` 272), but `FFI::scope()` throws
  an `FFI\Exception`, which is an Error; after the module was cleared a program
  without preloading therefore gets that error instead of a new instance, and
  one with preloading an instance without the ext_uv that would clear it.
- `spawn()` refuses `UV::IGNORE` containers, which `uv_stdio_new()` documents
  and makes of null; a refusal half way leaves the earlier containers empty.

## Not modelled

- **Threads**: a PHP closure in another thread uses the engine's state without
  the engine's isolation; every interleaving is undefined. The UVThread object
  has only an identifier. Work queued with `uv_queue_work()` is modelled from
  the side of the loop. Locks belong to one PHP thread in the model: under ZTS
  two threads that make lock objects share neither object nor counter.
- **Addresses, names, system information, constants**: conversions and single
  calls, without state.
- **Options and queries** of handles, `uv_walk()`, the emulated console pipe of
  Windows: no effect on what the properties tell apart. `remove_fd_resource()`
  in `uv_close()` belongs to the package ze-ffi, which is not in the repository,
  and so does the memory of a symbol of a library.
- **FFI loader and libraries**: chosen once, before everything else.
- **The C headers** (`headers/*.h`, most of the repository's lines): declarations
  of libuv for FFI, one copy per system. They have no behaviour; what the
  wrapper does with the functions they declare is modelled where it calls them.
  Only the enumerations of handle, request and lock types are definitions of the
  models.

## Plan

Done, in this order: watchers and their proofs; locks, the abstract lock and
the refinement; loops and the module's end; requests, transport, pool and their
composition; processes; keys and libraries; Lending and its three refinements;
proofs for all of them, and of the liveness of closes from its fairness.

Next:

1. The table of file resources as a module of its own, shared by UVFs, UVPoll,
   UVPipe and `uv_close()`, if the behaviour of ze-ffi is at hand.
2. Handles and their loop in one composition: which handles a loop destroyed at
   the end of the request leaves behind, and what their destructors find.
3. An abstract specification of a request (asked, answered once, reclaimed),
   finer than Lending, that UVTransport and UVPool implement.
4. Liveness of requests: that an answer comes for each that was queued, under
   fairness of the loop and the pool, proved as that of closes is.
5. What the abstract specifications promise by themselves: that a lock is never
   shared and owned at once (SharedExclusive), that what is gone is neither lent
   nor called about (Lending), as theorems that every refinement inherits.
