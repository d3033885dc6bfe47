------------------------------- MODULE UVLoop -------------------------------
(***************************************************************************)
(* UVLoop objects, the extension module ext_uv that remembers one of them  *)
(* as the default, and the end of both.  A loop is destroyed when PHP's    *)
(* reference count says so; run(), stop() and close() each give back a     *)
(* reference, meant to be the one ext_uv keeps.  The destructor drains and *)
(* frees the loop and may shut the whole module down, as the last lock     *)
(* object does, and as the end of the request does.                        *)
(*                                                                         *)
(* All this happens on one call stack.  A uv_run() calls the program back, *)
(* whether the program called it or a destructor did; destructors and      *)
(* shutdown functions call each other.  `stack` holds the calls that have  *)
(* not returned, or are still to be made, innermost first.  The program    *)
(* goes on when it is empty or a uv_run() is innermost.                    *)
(***************************************************************************)
EXTENDS Integers, SequencesExt

CONSTANTS
  Loops,         \* the UVLoop objects a program may create
  NoLoop,        \* null
  IsWindows,     \* IS_WINDOWS
  StopsOutside,  \* whether uv_stop() is also called outside of a uv_run()
  MaxHandles,    \* bound: handles of a loop
  MaxCalls,      \* bound: calls of run(RUN_DEFAULT), stop() and close() per loop
  MaxRuns,       \* bound: calls of uv_run() within one another
  MaxLocks       \* bound: lock objects alive

ASSUME LoopAssumption ==
  /\ NoLoop \notin Loops /\ IsFiniteSet(Loops)
  /\ IsWindows \in BOOLEAN
  /\ StopsOutside \in BOOLEAN
  /\ MaxHandles \in Nat /\ MaxCalls \in Nat
  /\ MaxRuns \in Nat /\ MaxLocks \in Nat

VARIABLES
  loop,      \* the UVLoop objects, see Blank
  ext,       \* the ext_uv module
  locks,     \* UVThreader::$locking_counter
  lockLoop,  \* UVThreader::$default_loop
  stack,     \* calls that have not returned or are still to be made
  phase      \* "script", "ending" (globals are being destroyed), "done" or "crashed"

vars == <<loop, ext, locks, lockLoop, stack, phase>>

\* A loop before it is constructed.  `dels` counts zval_del_ref($this) calls;
\* active, inactive and closing count its uv_handle_t's; native is the state of
\* the uv_loop_t and stopping its stop flag; calls is for the bound.
Blank ==
  [object |-> "none", held |-> FALSE, dels |-> 0, calls |-> 0, mode |-> "default",
   native |-> "none", freed |-> FALSE, stopping |-> FALSE,
   active |-> 0, inactive |-> 0, closing |-> 0,
   is_default |-> FALSE, run_called |-> FALSE, close_called |-> FALSE, stop_called |-> FALSE]

LoopType ==
  [object : {"none", "live", "dying", "destroyed"}, held : BOOLEAN, dels : Nat, calls : Nat,
   mode : {"default", "nowait"},
   native : {"none", "open", "closed", "deleted"}, freed : BOOLEAN, stopping : BOOLEAN,
   active : Nat, inactive : Nat, closing : Nat,
   is_default : BOOLEAN, run_called : BOOLEAN, close_called : BOOLEAN, stop_called : BOOLEAN]

\* "run" is UVLoop::run(), "drain" the uv_run() of a destructor; "destruct" and
\* "free" are a destructor before and after it; "init" is the rest of init().
CallType ==
  [call : {"run", "drain", "init", "destruct", "free", "request_shutdown", "module_clear"},
   loop : Loops \cup {NoLoop}]

TypeOK ==
  /\ loop \in [Loops -> LoopType]
  /\ ext \in [uv_default : Loops \cup {NoLoop}, shutdown_on_request : BOOLEAN,
              uv_exited : BOOLEAN, destructor_linked : BOOLEAN, ffi : BOOLEAN]
  /\ locks \in Nat
  /\ lockLoop \in Loops \cup {NoLoop}
  /\ stack \in Seq(CallType)
  /\ phase \in {"script", "ending", "done", "crashed"}

Init ==
  /\ loop = [l \in Loops |-> Blank]
  /\ ext = [uv_default |-> NoLoop, shutdown_on_request |-> FALSE, uv_exited |-> FALSE,
            destructor_linked |-> FALSE, ffi |-> TRUE]
  /\ locks = 0
  /\ lockLoop = NoLoop
  /\ stack = <<>>
  /\ phase = "script"

------------------------------------------------------------------------------
(* References and calls *)

One(b) == IF b THEN 1 ELSE 0

Call(name, l) == [call |-> name, loop |-> l]

Calls(s) == {s[i] : i \in 1 .. Len(s)}

\* Of a process that has crashed nothing goes on.
NextCall(name, l) == phase # "crashed" /\ stack # <<>> /\ Head(stack) = Call(name, l)

\* What will refer to l: a variable, ext_uv, UVThreader, the parameter and $this
\* during run(), init()'s own variable, less what zval_del_ref() took away.
References(L, calls, l) ==
  One(L[l].held) + One(ext'.uv_default = l) + One(lockLoop' = l)
    + 2 * One(Call("run", l) \in calls) + One(Call("init", l) \in calls) - L[l].dels

\* The step gives the loops the values L.  Those without a reference are
\* destroyed: their destructors are called first, then `rest`.
Settle(L, rest) ==
  LET dying == {l \in Loops : L[l].object = "live" /\ References(L, Calls(rest), l) =< 0}
  IN  /\ loop' = [l \in Loops |-> IF l \in dying THEN [L[l] EXCEPT !.object = "dying"] ELSE L[l]]
      /\ \E order \in SetToSeqs({Call("destruct", l) : l \in dying}) : stack' = order \o rest

\* Nothing is called but uv_run(), which calls back.
InCallback == stack # <<>> /\ Head(stack).call \in {"run", "drain"}

\* Variables and objects can be given up, by the program or at its end.
CanForget == phase \in {"script", "ending"} /\ (stack = <<>> \/ InCallback)

Program == CanForget /\ (phase = "script" \/ InCallback)

\* The functions of libuv are reached through the FFI instance: without it
\* every call is a TypeError.
Calling == Program /\ ext.ffi

\* A loop can be passed to a function, or meant by passing none.  Nobody asks
\* whether it is still alive.
CanReach(l) == loop[l].held \/ ext.uv_default = l

\* The object has its uv_loop_ptr; its destructor takes it away at its end.
HasPointer(l) == l # NoLoop /\ loop[l].object \in {"live", "dying"}

Open(l) == loop[l].native = "open" /\ ~loop[l].freed

\* A uv_run() of the loop has not returned.
Runs(l) == Call("run", l) \in Calls(stack) \/ Call("drain", l) \in Calls(stack)

\* That uv_run() is executing, or one of its callbacks.
Executing(l) == NextCall("run", l) \/ NextCall("drain", l)

Handles(l) == loop[l].active + loop[l].inactive + loop[l].closing

ModuleUnchanged == UNCHANGED <<ext, locks, lockLoop, phase>>

------------------------------------------------------------------------------
(* Making loops and locks *)

\* The next new object; which one it is makes no difference.
Fresh(l) ==
  /\ loop[l].object = "none"
  /\ l = CHOOSE k \in Loops : loop[k].object = "none"

\* `new self()`, which makes itself the default.  A default loop that is given
\* up for it is destroyed before init() goes on.
LoopInit(l) ==
  /\ Calling
  /\ Fresh(l)
  /\ ext' = [ext EXCEPT !.uv_default = l]
  /\ UNCHANGED <<locks, lockLoop, phase>>
  /\ Settle([loop EXCEPT ![l].object = "live"], <<Call("init", l)>> \o stack)

\* uv_loop_init().  A loop libuv refuses stays the default.
InitReturn(l, success) ==
  /\ NextCall("init", l)
  /\ success => ext.ffi
  /\ ModuleUnchanged
  /\ Settle([loop EXCEPT ![l].held = success, ![l].native = IF success THEN "open" ELSE @],
            Tail(stack))

\* uv_default_loop() wraps libuv's default loop if ext_uv remembers none.  That
\* at most one wrapper is alive is a bound.
CanWrap(l) ==
  /\ ext.uv_default = NoLoop
  /\ Fresh(l)
  /\ \A k \in Loops : loop[k].is_default => loop[k].object = "destroyed"

Wrapper == [Blank EXCEPT !.object = "live", !.native = "open", !.is_default = TRUE]

\* The loop that UVLoop::default() returns.
IsDefaultLoop(l) == ext.uv_default = l \/ CanWrap(l)

Wrapped(l) == IF loop[l].object = "none" THEN Wrapper ELSE loop[l]

\* `$loop = uv_default_loop()`
DefaultLoop(l) ==
  /\ Calling
  /\ IsDefaultLoop(l)
  /\ loop' = [loop EXCEPT ![l] = [Wrapped(l) EXCEPT !.held = TRUE]]
  /\ ext' = [ext EXCEPT !.uv_default = l]
  /\ UNCHANGED <<locks, lockLoop, stack, phase>>

\* A lock object.  The first one keeps the default loop in UVThreader and links
\* the destructor: module_shutdown() will leave the clearing to the last lock.
LockInit ==
  /\ Calling
  /\ locks < MaxLocks
  /\ locks' = locks + 1
  /\ \/ lockLoop # NoLoop /\ UNCHANGED <<loop, ext, lockLoop>>
     \/ \E l \in Loops :
          /\ lockLoop = NoLoop /\ lockLoop' = l
          /\ IsDefaultLoop(l)
          /\ loop' = [loop EXCEPT ![l] = Wrapped(l)]
          /\ ext' = [ext EXCEPT !.uv_default = l, !.destructor_linked = TRUE]
  /\ UNCHANGED <<stack, phase>>

LockDestructWith(n) ==
  /\ CanForget /\ ext.ffi
  /\ locks > 0
  /\ locks' = locks - n
  /\ lockLoop' = IF locks' = 0 THEN NoLoop ELSE lockLoop
  /\ UNCHANGED <<ext, phase>>
  /\ Settle(loop, IF locks' = 0 THEN <<Call("module_clear", NoLoop)>> \o stack ELSE stack)

\* Mutant: the counter goes down with the native lock and again at the end.
LockDestructTwice == LockDestructWith(2)

\* The destructor of a lock object.  That no lock was given up by its public
\* free() is an assumption: such a lock is never counted down.
LockDestruct == LockDestructWith(1)

\* uv_destruct_set()
DestructSet ==
  /\ Program /\ ~ext.uv_exited
  /\ ext' = [ext EXCEPT !.shutdown_on_request = TRUE]
  /\ UNCHANGED <<loop, locks, lockLoop, stack, phase>>

------------------------------------------------------------------------------
(* Using them *)

\* The program opens, starts, stops and closes the handles of a loop, as far as
\* the loop goes.  That one loop at a time has handles is a bound: handles of
\* two loops do not meet.
MoveHandle(l) ==
  /\ Calling
  /\ Open(l)
  /\ \/ /\ CanReach(l) /\ HasPointer(l) /\ Handles(l) < MaxHandles
        /\ \A k \in Loops \ {l} : Handles(k) = 0
        /\ loop' = [loop EXCEPT ![l].inactive = @ + 1]
     \/ /\ loop[l].inactive > 0
        /\ loop' = [loop EXCEPT ![l].inactive = @ - 1, ![l].active = @ + 1]
     \/ /\ loop[l].active > 0
        /\ loop' = [loop EXCEPT ![l].active = @ - 1, ![l].inactive = @ + 1]
     \/ /\ loop[l].active > 0
        /\ loop' = [loop EXCEPT ![l].active = @ - 1, ![l].closing = @ + 1]
     \/ /\ loop[l].inactive > 0
        /\ loop' = [loop EXCEPT ![l].inactive = @ - 1, ![l].closing = @ + 1]
  /\ UNCHANGED stack /\ ModuleUnchanged

\* What libuv does in uv_run(), whatever became of the FFI instance: a timer
\* ends, a close is finished.
LoopStep(l) ==
  /\ Executing(l) /\ Open(l)
  /\ \/ /\ loop[l].active > 0
        /\ loop' = [loop EXCEPT ![l].active = @ - 1, ![l].inactive = @ + 1]
     \/ /\ loop[l].closing > 0
        /\ loop' = [loop EXCEPT ![l].closing = @ - 1]
  /\ UNCHANGED stack /\ ModuleUnchanged

\* uv_run() of a loop that runs is forbidden by libuv; one of another loop is
\* not.  Without an argument it is the default loop's, which DefaultLoop makes
\* if there is none.
RunBegin(l, mode) ==
  /\ Calling
  /\ CanReach(l) /\ HasPointer(l) /\ Open(l) /\ ~Runs(l)
  /\ Cardinality({k \in Loops : Runs(k)}) < MaxRuns
  /\ mode = "default" => loop[l].calls < MaxCalls
  /\ stack' = <<Call("run", l)>> \o stack
  /\ loop' = [loop EXCEPT ![l].mode = mode, ![l].calls = @ + One(mode = "default")]
  /\ ModuleUnchanged

\* uv_run() is not over before it was stopped or has nothing left to do.
MayReturn(l) == loop[l].stopping \/ (loop[l].active = 0 /\ loop[l].closing = 0)

RunEnd(l, released) ==
  /\ NextCall("run", l)
  /\ loop[l].mode = "nowait" \/ MayReturn(l)
  /\ ModuleUnchanged
  /\ Settle([loop EXCEPT ![l].stopping = FALSE, ![l].run_called = TRUE,
                         ![l].mode = "default", ![l].dels = @ + One(released)],
            Tail(stack))

\* Mutant: a reference is given back by every run, whatever its mode.
RunReturnAnyMode(l) == RunEnd(l, TRUE)

\* uv_run() returns, also if the module was cleared in a callback, and run()
\* gives back a reference if it was to run to the end.
RunReturn(l) == RunEnd(l, loop[l].mode = "default")

Stop(l) ==
  /\ Calling
  /\ CanReach(l) /\ HasPointer(l) /\ loop[l].native # "deleted"
  /\ StopsOutside \/ Runs(l)
  /\ loop[l].calls < MaxCalls
  /\ ModuleUnchanged
  /\ Settle([loop EXCEPT ![l].calls = @ + 1, ![l].stopping = TRUE, ![l].stop_called = TRUE,
                         ![l].dels = @ + One(~loop[l].close_called)], stack)

\* Whether uv_loop_close() finds the loop closable decides what becomes of the
\* uv_loop_t, but not what the object records.
Close(l) ==
  /\ Calling
  /\ CanReach(l) /\ HasPointer(l) /\ Open(l) /\ ~Runs(l)
  /\ loop[l].calls < MaxCalls
  /\ ModuleUnchanged
  /\ Settle([loop EXCEPT ![l].calls = @ + 1, ![l].close_called = TRUE,
                         ![l].native = IF Handles(l) = 0 THEN "closed" ELSE "open",
                         ![l].dels = @ + One(~loop[l].run_called /\ ~loop[l].stop_called)], stack)

\* uv_loop_delete(), deprecated; libuv insists that the loop is closable.  That
\* no other loop is the default, which could be destroyed half way, is a bound.
Delete(l) ==
  /\ Calling
  /\ CanReach(l) /\ HasPointer(l) /\ Open(l) /\ ~Runs(l) /\ Handles(l) = 0
  /\ ext.uv_default \in {NoLoop, l}
  /\ ext' = [ext EXCEPT !.shutdown_on_request = TRUE, !.uv_default = NoLoop]
  /\ UNCHANGED <<locks, lockLoop, phase>>
  /\ Settle([loop EXCEPT ![l].stop_called = TRUE, ![l].close_called = TRUE,
                         ![l].is_default = TRUE, ![l].native = "deleted",
                         ![l].freed = ~loop[l].is_default, ![l].dels = @ + 1], stack)

\* Any of these on a loop whose destructor has run passes null to libuv, which
\* does not look: the process is gone.
CallDestroyed(l) ==
  /\ Calling
  /\ CanReach(l) /\ loop[l].object = "destroyed"
  /\ phase' = "crashed"
  /\ UNCHANGED <<loop, ext, locks, lockLoop, stack>>

\* The program gives up its variable; globals go at the end of the script.
Forget(l) ==
  /\ CanForget
  /\ loop[l].held
  /\ ModuleUnchanged
  /\ Settle([loop EXCEPT ![l].held = FALSE], stack)

------------------------------------------------------------------------------
(* The destructor *)

\* The object ends, and with it what it records (run_called stays for the
\* properties), its count, and a struct that it owns.
Ended(r) ==
  [r EXCEPT !.object = "destroyed", !.freed = @ \/ (IsWindows /\ ~r.is_default),
            !.dels = 0, !.calls = 0, !.close_called = FALSE, !.stop_called = FALSE]

\* uv_stop() and a uv_run() that only takes the stop flag back, unless stop()
\* was called; then active handles are closed.
Drained(r) ==
  [r EXCEPT !.stopping = @ /\ r.stop_called, !.active = 0, !.closing = @ + r.active]

\* A loop that was run and not closed is run again until its handles are
\* closed; meanwhile their callbacks may do what the program may do.
DestructWith(l, ffi) ==
  /\ NextCall("destruct", l)
  /\ \/ /\ ffi /\ loop[l].run_called /\ ~loop[l].close_called
        /\ loop' = [loop EXCEPT ![l] = Drained(@)]
        /\ stack' = <<Call("drain", l), Call("free", l)>> \o Tail(stack)
     \/ /\ ffi /\ ~(loop[l].run_called /\ ~loop[l].close_called)
        /\ stack' = <<Call("free", l)>> \o Tail(stack)
        /\ UNCHANGED loop
     \/ /\ ~ffi
        /\ loop' = [loop EXCEPT ![l] = Ended(@)]
        /\ stack' = Tail(stack)
  /\ ModuleUnchanged

\* Mutant: is_uv_ffi() is not asked.
DestructUnguarded(l) == DestructWith(l, TRUE)

\* __destruct() does nothing once the FFI instance is gone.
Destruct(l) == DestructWith(l, ext.ffi)

\* The destructor's uv_run() returns, and uv_loop_close() follows.  If a callback
\* cleared the module that is a TypeError, which ends the destructor.
DrainReturn(l) ==
  /\ NextCall("drain", l)
  /\ MayReturn(l)
  /\ loop' = [loop EXCEPT
       ![l].stopping = FALSE,
       ![l].native = IF ext.ffi /\ Handles(l) = 0 THEN "closed" ELSE @]
  /\ stack' = Tail(stack)
  /\ ModuleUnchanged

\* FFI::free(), the pointers are forgotten, and request_shutdown().
Free(l) ==
  /\ NextCall("free", l)
  /\ loop' = [loop EXCEPT ![l] =
       Ended([loop[l] EXCEPT !.freed = \/ loop[l].freed
                                       \/ /\ ext.ffi /\ ~loop[l].is_default
                                          /\ ~(loop[l].run_called /\ loop[l].close_called)])]
  /\ stack' = (IF ext.ffi /\ ext.shutdown_on_request
                THEN <<Call("request_shutdown", NoLoop)>> ELSE <<>>) \o Tail(stack)
  /\ ModuleUnchanged

------------------------------------------------------------------------------
(* The module's end *)

Shutdown(forgets) ==
  /\ NextCall("request_shutdown", NoLoop)
  /\ ext' = IF forgets THEN [ext EXCEPT !.uv_default = NoLoop] ELSE ext
  /\ UNCHANGED <<locks, lockLoop, phase>>
  /\ Settle(loop, IF forgets \/ ext.uv_exited \/ ext.destructor_linked
                  THEN Tail(stack)
                  ELSE <<Call("module_clear", NoLoop)>> \o Tail(stack))

\* Mutant: any default loop is forgotten, destroyed or not.
RequestShutdownAnyLoop == Shutdown(ext.uv_default # NoLoop)

\* Mutant: module_shutdown() leaves a linked destructor to request_shutdown().
RequestShutdownAgain ==
  \/ ~ext.destructor_linked /\ Shutdown(HasPointer(ext.uv_default))
  \/ /\ ext.destructor_linked /\ NextCall("request_shutdown", NoLoop)
     /\ UNCHANGED vars

\* request_shutdown(): forget the default loop, or else module_shutdown().
RequestShutdown == Shutdown(HasPointer(ext.uv_default))

\* module_clear().  It asks uv_exited first: a second time all is done already.
ModuleClear ==
  /\ NextCall("module_clear", NoLoop)
  /\ stack' = Tail(stack)
  /\ ext' = [ext EXCEPT !.uv_exited = TRUE, !.ffi = FALSE]
  /\ UNCHANGED <<loop, locks, lockLoop, phase>>

\* The script has ended: globals and locks go, then PHP calls the destructors
\* of the objects that are left, then the request shutdown of the module.
ScriptEnd ==
  /\ stack = <<>> /\ phase = "script"
  /\ phase' = "ending"
  /\ UNCHANGED <<loop, ext, locks, lockLoop, stack>>

Leftovers == {l \in Loops : loop[l].object = "live"}

GlobalsGone ==
  /\ stack = <<>> /\ phase = "ending"
  /\ \A l \in Loops : ~loop[l].held
  /\ ext.ffi => locks = 0

DestroyLeftover(l) ==
  /\ GlobalsGone
  /\ l \in Leftovers
  /\ loop' = [loop EXCEPT ![l].object = "dying"]
  /\ stack' = <<Call("destruct", l)>>
  /\ ModuleUnchanged

RequestEnd ==
  /\ GlobalsGone
  /\ Leftovers = {}
  /\ phase' = "done"
  /\ stack' = <<Call("request_shutdown", NoLoop)>>
  /\ UNCHANGED <<loop, ext, locks, lockLoop>>

------------------------------------------------------------------------------

Make ==
  \/ \E l \in Loops : LoopInit(l) \/ DefaultLoop(l)
  \/ LockInit
  \/ LockDestruct
  \/ DestructSet

Use(l) ==
  \/ MoveHandle(l)
  \/ \E mode \in {"default", "nowait"} : RunBegin(l, mode)
  \/ Stop(l)
  \/ Close(l)
  \/ Delete(l)
  \/ CallDestroyed(l)
  \/ Forget(l)

\* uv_run() goes on or is over.
Running(l) == LoopStep(l) \/ RunReturn(l) \/ DrainReturn(l)

\* The calls on the stack that PHP makes before anything else.
Unwind ==
  \/ \E l \in Loops :
       \/ Destruct(l)
       \/ Free(l)
       \/ \E success \in BOOLEAN : InitReturn(l, success)
  \/ RequestShutdown
  \/ ModuleClear

End == ScriptEnd \/ RequestEnd \/ \E l \in Loops : DestroyLeftover(l)

Next == Make \/ Unwind \/ End \/ \E l \in Loops : Use(l) \/ Running(l)

Spec == Init /\ [][Next]_vars

\* Calls return, except for uv_run().
FairSpec == Spec /\ WF_vars(Unwind)

------------------------------------------------------------------------------
(* What holding a loop and ending the module promise *)

\* The step leaves the uv_loop_t of l alone, unless a uv_run() of it is on the
\* stack, and its handles, unless that is what is executing.
LeftAlone(l) ==
  /\ loop'[l].native = loop[l].native
  /\ loop'[l].stopping # loop[l].stopping => Runs(l)
  /\ Handles(l)' # Handles(l) \/ loop'[l].active # loop[l].active => Executing(l)

\* Once the module is cleared libuv is not called ("Don't call libuv functions
\* after calling uv_library_shutdown()", UVFunctions.php), not even by the
\* destructors that are still to come.  Only a uv_run() that was not over when a
\* callback cleared the module goes on with the handles of its loop.
NoCallAfterClear == [][~ext.ffi => \A l \in Loops : LeftAlone(l)]_vars

\* The step takes the only loop away from a variable that refers to it, after at
\* most one call that gives a reference back.
TakesSole(l) ==
  /\ loop[l].object = "live" /\ loop'[l].object # "live"
  /\ \A k \in Loops \ {l} : loop'[k].object = "none"
  /\ loop[l].held /\ loop'[l].held
  /\ loop'[l].calls =< 1 /\ loop'[l].native # "deleted"

\* A program with one loop of its own that makes no more than one call of
\* run(RUN_DEFAULT), stop() and close() does not lose it while a variable refers
\* to it, whatever locks, other runs and uv_destruct_set() do.
SoleLoopKept == [][\A l \in Loops : ~TakesSole(l)]_vars

\* The step takes a loop away from its own run(), after at most one more call that
\* gives a reference back.
TakesRunning(l) ==
  /\ loop[l].object = "live" /\ loop'[l].object # "live"
  /\ Call("run", l) \in Calls(stack) /\ Call("run", l) \in Calls(stack')
  /\ loop'[l].calls =< 1 + One(loop'[l].mode = "default")

\* run() keeps its loop: the parameter and $this of a run that is not over
\* outlast whatever its callbacks give up, stop, close, replace as the default or
\* clear, if there is at most one more call that gives a reference back.
RunKeepsLoop == [][\A l \in Loops : ~TakesRunning(l)]_vars

\* A variable that refers to a loop refers to a live one, unless the program
\* deleted that loop.
HeldAlive ==
  \A l \in Loops : loop[l].held /\ loop[l].native # "deleted" => loop[l].object = "live"

\* The memory of a loop that was run is given back when libuv has closed it, not
\* when it is busy with handles ("After this function returns, the user can free
\* the memory allocated for the loop", UVFunctions.php).
FreedClosed ==
  \A l \in Loops : loop[l].freed /\ loop[l].run_called => loop[l].native # "open"

\* Whatever the script did, the module is cleared when the request has ended:
\* by the last lock, by a loop's destructor, or by request_shutdown().
ClearedAtEnd == phase = "done" /\ stack = <<>> => ext.uv_exited

\* Destructors and shutdown functions, which call each other, come back to the
\* program or to a callback: none calls for another for ever.
CallsReturn == []<>(stack = <<>> \/ InCallback)

\* With uv_destruct_set() the loop that goes out of scope as the last one takes
\* the module with it when it is drained, unless locks are to do so ("Instructs
\* the UVLoop instance to destruct/shutdown when out of scope, perform a request
\* shutdown").
LastLoop(l) ==
  /\ ext.shutdown_on_request /\ ~ext.destructor_linked
  /\ NextCall("free", l)
  /\ \A k \in Loops \ {l} : loop[k].object \in {"none", "destroyed"}

ClearsWithLastLoop == (\E l \in Loops : LastLoop(l)) ~> ext.uv_exited
==============================================================================
