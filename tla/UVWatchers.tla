----------------------------- MODULE UVWatchers -----------------------------
(***************************************************************************)
(* The watcher handles of uv-ffi: async, timer, idle, prepare, check,      *)
(* signal, poll, fs_poll and fs_event.  Each class pairs zval_add_ref()    *)
(* and zval_del_ref() with its start, stop and callback in its own way;    *)
(* the properties say that every pairing keeps an object alive while libuv *)
(* or the program can still reach it.                                      *)
(*                                                                         *)
(* A call the wrapper rejects (starting an active timer, stopping a        *)
(* stopped one) warns and changes nothing: it is a stuttering step.  The   *)
(* program is assumed not to start a handle it has closed, and not to stop *)
(* polling one, which libuv forbids.                                       *)
(***************************************************************************)
EXTENDS UVHandler

VARIABLE
  timer  \* what uv_timer_start() last asked for: "unset", "once" or "repeat"

vars == <<kind, object, native, held, closures, pins, onClose, running, entry, timer>>

TypeOK ==
  /\ HandlerTypeOK
  /\ timer \in [Handles -> {"unset", "once", "repeat"}]

Init ==
  /\ HandlerInit
  /\ timer = [h \in Handles |-> "unset"]

PhaseKinds == {"idle", "prepare", "check"}

------------------------------------------------------------------------------
(* What the operations below have in common *)

CanStart(h, k) ==
  /\ kind[h] = k /\ CanCall(h)
  /\ ~IsClosing(h)
  /\ closures[h] < MaxClosures

\* A start adds `refs` references and a closure, which FFI makes of the
\* callback before libuv sees it: a failed start leaves the closure behind.
Started(h, refs, state) ==
  /\ pins[h] + refs =< MaxPins
  /\ native' = [native EXCEPT ![h] = state]
  /\ pins' = [pins EXCEPT ![h] = @ + refs]
  /\ closures' = [closures EXCEPT ![h] = @ + 1]
  /\ UNCHANGED <<kind, object, held, onClose, running, entry>>

\* A stop gives one reference back.
Stopped(h) ==
  /\ native' = [native EXCEPT ![h] = IF @ = "active" THEN "inactive" ELSE @]
  /\ pins' = [pins EXCEPT ![h] = @ - 1]
  /\ UNCHANGED <<kind, held, closures, onClose, running, entry, timer>>
  /\ Settle(h)

\* The loop calls the handle's callback, whose argument is the object.
Called(h, refs, state) ==
  /\ running = NoHandle
  /\ native[h] = "active"
  /\ pins[h] + refs =< MaxPins
  /\ running' = h /\ entry' = "event"
  /\ native' = [native EXCEPT ![h] = state]
  /\ pins' = [pins EXCEPT ![h] = @ + refs]
  /\ UNCHANGED <<kind, object, held, closures, onClose, timer>>

------------------------------------------------------------------------------
(* Starting and stopping, class by class *)

PhaseStart(h) ==
  /\ \E k \in PhaseKinds : CanStart(h, k)
  /\ native[h] # "active"
  /\ Started(h, 1, "active")
  /\ UNCHANGED timer

\* Mutant: the guard is dropped.
PhaseStopUnguarded(h) == kind[h] \in PhaseKinds /\ CanCall(h) /\ Stopped(h)

PhaseStop(h) ==
  /\ kind[h] \in PhaseKinds /\ CanCall(h)
  /\ native[h] = "active"
  /\ Stopped(h)

TimerStart(h, mode) ==
  /\ CanStart(h, "timer")
  /\ native[h] # "active"
  /\ timer' = [timer EXCEPT ![h] = mode]
  /\ Started(h, 1, "active")

TimerStop(h) ==
  /\ kind[h] = "timer" /\ CanCall(h)
  /\ native[h] = "active"
  /\ Stopped(h)

\* uv_timer_again() adds its reference before libuv decides: a timer that was
\* never started is refused, a one-shot timer is left alone.
TimerAgain(h) ==
  /\ kind[h] = "timer" /\ CanCall(h)
  /\ native[h] = "inactive"
  /\ pins[h] < MaxPins
  /\ pins' = [pins EXCEPT ![h] = @ + 1]
  /\ native' = [native EXCEPT ![h] = IF timer[h] = "repeat" THEN "active" ELSE @]
  /\ UNCHANGED <<kind, object, held, closures, onClose, running, entry, timer>>

\* uv_timer_set_repeat() of a timer that was started before.
TimerSetRepeat(h, mode) ==
  /\ kind[h] = "timer" /\ CanCall(h)
  /\ timer[h] # "unset"
  /\ timer' = [timer EXCEPT ![h] = mode]
  /\ UNCHANGED handlerVars

\* No reference is taken: the closure is what keeps the object.
SignalStart(h, success) ==
  /\ CanStart(h, "signal")
  /\ native[h] # "active"
  /\ Started(h, 0, IF success THEN "active" ELSE native[h])
  /\ UNCHANGED timer

\* Mutant: the guard is dropped.
SignalStopUnguarded(h) == kind[h] = "signal" /\ CanCall(h) /\ Stopped(h)

SignalStop(h) ==
  /\ kind[h] = "signal" /\ CanCall(h)
  /\ native[h] = "active"
  /\ Stopped(h)

\* start() may be repeated to change the events; asking for none stops the
\* handle, and a descriptor that is polled elsewhere is refused.
PollStart(h, outcome) ==
  /\ CanStart(h, "poll")
  /\ Started(h, One(native[h] # "active"),
             CASE outcome = "events" -> "active"
               [] outcome = "none"   -> "inactive"
               [] outcome = "failed" -> native[h])
  /\ UNCHANGED timer

\* uv_poll_stop() is passed straight to libuv.
PollStop(h) ==
  /\ kind[h] = "poll" /\ CanCall(h)
  /\ native[h] = "active"
  /\ native' = [native EXCEPT ![h] = "inactive"]
  /\ UNCHANGED <<kind, object, held, closures, pins, onClose, running, entry, timer>>

\* libuv ignores the start of an active handle, the wrapper counts it.
FsPollStart(h, success) ==
  /\ CanStart(h, "fs_poll")
  /\ ~success => native[h] = "inactive"
  /\ Started(h, One(success), IF success THEN "active" ELSE native[h])
  /\ UNCHANGED timer

FsPollStop(h) ==
  /\ kind[h] = "fs_poll" /\ CanCall(h)
  /\ native[h] = "active"
  /\ Stopped(h)

\* uv_fs_event_init() starts the handle it constructs and returns the status:
\* the object is reachable from its callback only.
FsEventInit(h, success) ==
  /\ object[h] = "none"
  /\ kind' = [kind EXCEPT ![h] = "fs_event"]
  /\ native' = [native EXCEPT ![h] = IF success THEN "active" ELSE "inactive"]
  /\ object' = [object EXCEPT ![h] = "live"]
  /\ pins' = [pins EXCEPT ![h] = 1]
  /\ closures' = [closures EXCEPT ![h] = 1]
  /\ UNCHANGED <<held, onClose, running, entry, timer>>

\* uv_fs_event_start() takes a reference and start() another; an error gives
\* back the first one only.
FsEventStart(h, success) ==
  /\ CanStart(h, "fs_event")
  /\ success => native[h] # "active"
  /\ Started(h, IF success THEN 2 ELSE 1, IF success THEN "active" ELSE native[h])
  /\ UNCHANGED timer

\* uv_fs_event_stop() does not ask whether the handle is active.
FsEventStop(h) ==
  /\ kind[h] = "fs_event" /\ CanCall(h)
  /\ Stopped(h)

------------------------------------------------------------------------------
(* The loop *)

TimerExpire(h) ==
  /\ kind[h] = "timer"
  /\ Called(h, 0, IF timer[h] = "once" THEN "inactive" ELSE "active")

\* Mutant: the callback gives back a reference it never took.
SignalEventUnpinned(h) == kind[h] = "signal" /\ Called(h, 0, "active")

SignalEvent(h) ==
  /\ kind[h] = "signal"
  /\ Called(h, 1, "active")

\* A readiness event adds a reference that nothing gives back; an error stops
\* the handle before the callback is told.
PollEvent(h, status) ==
  /\ kind[h] = "poll"
  /\ Called(h, One(status = 0), IF status = 0 THEN "active" ELSE "inactive")

WatcherEvent(h) ==
  /\ kind[h] \in PhaseKinds \cup {"async", "fs_poll", "fs_event"}
  /\ Called(h, 0, "active")

\* The callback returns: its argument is released, and the closure of a signal
\* gives back the reference it took.
CallbackReturn(h) ==
  /\ running = h
  /\ running' = NoHandle /\ entry' = "none"
  /\ pins' = [pins EXCEPT ![h] = @ - One(kind[h] = "signal" /\ entry = "event")]
  /\ UNCHANGED <<kind, native, held, closures, onClose, timer>>
  /\ Settle(h)

------------------------------------------------------------------------------

AnyHandle(h) ==
  /\ \/ \E k \in Kinds, success \in BOOLEAN : Construct(h, k, success)
     \/ \E callback \in BOOLEAN : CloseHandle(h, callback)
     \/ CloseAgain(h)
     \/ Forget(h)
     \/ Keep(h)
  /\ UNCHANGED timer

Start(h) ==
  \/ PhaseStart(h)
  \/ \E mode \in {"once", "repeat"} : TimerStart(h, mode) \/ TimerSetRepeat(h, mode)
  \/ TimerAgain(h)
  \/ \E success \in BOOLEAN : \/ SignalStart(h, success)
                              \/ FsPollStart(h, success)
                              \/ "fs_event" \in Kinds /\ FsEventInit(h, success)
                              \/ FsEventStart(h, success)
  \/ \E outcome \in {"events", "none", "failed"} : PollStart(h, outcome)

Stop(h) ==
  \/ PhaseStop(h)
  \/ TimerStop(h)
  \/ SignalStop(h)
  \/ PollStop(h)
  \/ FsPollStop(h)
  \/ FsEventStop(h)

FinishClose(h) == CloseCallback(h) /\ UNCHANGED timer

Loop(h) ==
  \/ FinishClose(h)
  \/ TimerExpire(h)
  \/ SignalEvent(h)
  \/ \E status \in {0, -1} : PollEvent(h, status)
  \/ WatcherEvent(h)
  \/ CallbackReturn(h)

Next == \E h \in Handles : AnyHandle(h) \/ Start(h) \/ Stop(h) \/ Loop(h)

Spec == Init /\ [][Next]_vars

\* The program keeps the loop running and its callbacks return.
Fairness ==
  \A h \in Handles : WF_vars(CallbackReturn(h)) /\ SF_vars(FinishClose(h))

FairSpec == Spec /\ Fairness

------------------------------------------------------------------------------
(* What the pairing of references promises *)

\* libuv will call into h, or the program can name it.
InUse(h) ==
  \/ native[h] = "active"
  \/ native[h] = "closing" /\ onClose[h]
  \/ held[h]
  \/ running = h

\* An active handle's object is never destroyed: the next event finds the
\* object its closure was bound to.  Start, stop, close, expiry and repeated
\* starts all move the count, each class differently.
ActiveHandleAlive ==
  \A h \in Handles : native[h] = "active" => object[h] = "live"

\* For every class but fs_event nobody can meet a destroyed object: not the
\* loop's event, not a pending close callback, not a program variable, not the
\* argument of the running callback.
NoUseAfterDestroy ==
  \A h \in Handles : kind[h] # "fs_event" /\ InUse(h) => object[h] = "live"

\* What start() takes, exactly one stop(), or the close, gives back: idle,
\* prepare and check handles carry one reference while active and none when
\* not, unless the program closes a handle twice.
PinnedWhileActive ==
  ~ClosesTwice => \A h \in Handles :
    kind[h] \in PhaseKinds => pins[h] = One(native[h] = "active")

\* An async handle closed without a callback is destroyed as soon as the
\* program forgets it, although its init closure still captures it: the close
\* gives back the closure's reference (tests/006).
AsyncReclaimed ==
  ~ClosesTwice => \A h \in Handles :
    kind[h] = "async" /\ IsClosing(h) /\ ~onClose[h] /\ ~held[h] /\ running # h
      => object[h] = "destroyed"

PairedHandles == {h \in Handles : kind[h] # "fs_event"}

LentHandle(h) ==
  \/ native[h] = "active"
  \/ native[h] = "closing" /\ onClose[h]

\* Every class but fs_event lends its handles to libuv as it should: no object
\* goes while libuv watches it, has its close callback to make, or is in one,
\* none comes back, and callbacks are about handles that were lent.
Lent == INSTANCE Lending WITH
  Things <- Handles,
  lent <- {h \in PairedHandles : LentHandle(h)},
  called <- {h \in PairedHandles : running = h},
  gone <- {h \in PairedHandles : object[h] = "destroyed"}

LendingSpec == Lent!Spec

\* A handle is closed once: a second uv_close(), from wherever it comes, does
\* not reopen it and does not replace or drop the callback of the first.
ClosesKept ==
  \A h \in Handles : IsClosing(h) =>
    /\ native'[h] \in {native[h], "closed"}
    /\ onClose'[h] = onClose[h]

ClosedOnce == [][ClosesKept]_vars

\* A close that was given a callback is followed by that callback, whatever
\* else the loop runs in between.
CloseCallbackRuns ==
  \A h \in Handles :
    native[h] = "closing" /\ onClose[h] ~> running = h /\ entry = "close"

\* A handle that is being closed ends up closed, with a callback or without.
CloseCompletes ==
  \A h \in Handles : native[h] = "closing" ~> native[h] = "closed"
==============================================================================
