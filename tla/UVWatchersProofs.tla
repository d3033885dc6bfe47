-------------------------- MODULE UVWatchersProofs --------------------------
(***************************************************************************)
(* Proofs about the watcher handles, for any set of handles and any        *)
(* bounds.  The inductive invariant counts: the closures and pins of a     *)
(* handle cover every way libuv can still reach the object, so the count   *)
(* cannot be zero while one is left.                                       *)
(***************************************************************************)
EXTENDS UVWatchers, TLAPS

\* What libuv, and the closure of a signal, will still use or give back.
Needs(h) ==
  One(native[h] = "active")
    + One(native[h] = "closing" /\ onClose[h])
    + One(kind[h] = "signal" /\ running = h /\ entry = "event")

\* An object that was not constructed has no references and no uv_handle_t.
Unborn(h) ==
  object[h] = "none" =>
    /\ native[h] = "none" /\ ~held[h] /\ running # h
    /\ closures[h] = 0 /\ pins[h] = 0 /\ kind[h] = "none"

\* A live object is counted; a destroyed one, unless it is an fs_event, is
\* referred to by nothing.
Counted(h) ==
  /\ object[h] = "live" => References(h) >= 1 /\ kind[h] # "none"
  /\ object[h] = "destroyed" /\ kind[h] # "fs_event" => References(h) =< 0

Covered(h) ==
  /\ kind[h] # "fs_event" => closures[h] + pins[h] >= Needs(h)
  /\ kind[h] = "fs_event" /\ native[h] = "active" => 
        closures[h] + pins[h] >= 1 /\ object[h] = "live"

HandleInv(h) == Unborn(h) /\ Counted(h) /\ Covered(h)

IInv == TypeOK /\ \A h \in Handles : HandleInv(h)

------------------------------------------------------------------------------

\* Every variable keeps its type: counts of closures stay natural numbers, and
\* a callback's kind is recorded exactly while one is running.
THEOREM TypeCorrect == Spec => []TypeOK
<1>1. Init => TypeOK
  BY DEF Init, HandlerInit, TypeOK, HandlerTypeOK
<1>2. TypeOK /\ [Next]_vars => TypeOK'
  <2> SUFFICES ASSUME TypeOK, [Next]_vars
               PROVE  TypeOK'
    OBVIOUS
  <2>1. ASSUME NEW h \in Handles, AnyHandle(h)
         PROVE  TypeOK'
    <3>1. ASSUME NEW k \in Kinds, NEW success \in BOOLEAN, Construct(h, k, success), UNCHANGED timer
           PROVE  TypeOK'
      BY HandlerAssumption, <3>1 DEF Construct, HandlerAssumption, AllKinds, TypeOK,
         HandlerTypeOK, One
    <3>2. ASSUME NEW callback \in BOOLEAN, CloseHandle(h, callback), UNCHANGED timer
           PROVE  TypeOK'
      BY <3>2 DEF CloseHandle, CloseNow, Settle, TypeOK, HandlerTypeOK, One
    <3>3. ASSUME CloseAgain(h), UNCHANGED timer
           PROVE  TypeOK'
      BY <3>3 DEF CloseAgain, TypeOK, HandlerTypeOK, One
    <3>4. ASSUME Forget(h), UNCHANGED timer
           PROVE  TypeOK'
      BY <3>4 DEF Forget, Settle, TypeOK, HandlerTypeOK, One
    <3>5. ASSUME Keep(h), UNCHANGED timer
           PROVE  TypeOK'
      BY <3>5 DEF Keep, TypeOK, HandlerTypeOK, One
    <3> QED
      BY <2>1, <3>1, <3>2, <3>3, <3>4, <3>5 DEF AnyHandle
  <2>2. ASSUME NEW h \in Handles, Start(h)
         PROVE  TypeOK'
    <3>1. CASE PhaseStart(h)
      BY <3>1 DEF PhaseStart, CanStart, Started, PhaseKinds, TypeOK, HandlerTypeOK, One
    <3>2. ASSUME NEW mode \in {"once", "repeat"}, TimerStart(h, mode)
           PROVE  TypeOK'
      BY <3>2 DEF TimerStart, CanStart, Started, TypeOK, HandlerTypeOK, One
    <3>3. ASSUME NEW mode \in {"once", "repeat"}, TimerSetRepeat(h, mode)
           PROVE  TypeOK'
      BY <3>3 DEF TimerSetRepeat, handlerVars, TypeOK, HandlerTypeOK, One
    <3>4. CASE TimerAgain(h)
      BY <3>4 DEF TimerAgain, TypeOK, HandlerTypeOK, One
    <3>5. ASSUME NEW success \in BOOLEAN, SignalStart(h, success)
           PROVE  TypeOK'
      BY <3>5 DEF SignalStart, CanStart, Started, TypeOK, HandlerTypeOK, One
    <3>6. ASSUME NEW success \in BOOLEAN, FsPollStart(h, success)
           PROVE  TypeOK'
      BY <3>6 DEF FsPollStart, CanStart, Started, TypeOK, HandlerTypeOK, One
    <3>7. ASSUME NEW success \in BOOLEAN, FsEventInit(h, success)
           PROVE  TypeOK'
      BY HandlerAssumption, <3>7 DEF FsEventInit, AllKinds, TypeOK, HandlerTypeOK, One
    <3>8. ASSUME NEW success \in BOOLEAN, FsEventStart(h, success)
           PROVE  TypeOK'
      BY <3>8 DEF FsEventStart, CanStart, Started, TypeOK, HandlerTypeOK, One
    <3>9. ASSUME NEW outcome \in {"events", "none", "failed"}, PollStart(h, outcome)
           PROVE  TypeOK'
      BY <3>9 DEF PollStart, CanStart, Started, TypeOK, HandlerTypeOK, One
    <3> QED
      BY <2>2, <3>1, <3>2, <3>3, <3>4, <3>5, <3>6, <3>7, <3>8, <3>9 DEF Start
  <2>3. ASSUME NEW h \in Handles, Stop(h)
         PROVE  TypeOK'
    <3>1. CASE PhaseStop(h)
      BY <3>1 DEF PhaseStop, PhaseKinds, Stopped, Settle, TypeOK, HandlerTypeOK, One
    <3>2. CASE TimerStop(h)
      BY <3>2 DEF TimerStop, Stopped, Settle, TypeOK, HandlerTypeOK, One
    <3>3. CASE SignalStop(h)
      BY <3>3 DEF SignalStop, Stopped, Settle, TypeOK, HandlerTypeOK, One
    <3>4. CASE PollStop(h)
      BY <3>4 DEF PollStop, TypeOK, HandlerTypeOK, One
    <3>5. CASE FsPollStop(h)
      BY <3>5 DEF FsPollStop, Stopped, Settle, TypeOK, HandlerTypeOK, One
    <3>6. CASE FsEventStop(h)
      BY <3>6 DEF FsEventStop, Stopped, Settle, TypeOK, HandlerTypeOK, One
    <3> QED
      BY <2>3, <3>1, <3>2, <3>3, <3>4, <3>5, <3>6 DEF Stop
  <2>4. ASSUME NEW h \in Handles, Loop(h)
         PROVE  TypeOK'
    <3>1. CASE FinishClose(h)
      BY HandlerAssumption, <3>1 DEF HandlerAssumption, FinishClose, CloseCallback,
         Closed, TypeOK, HandlerTypeOK, One
    <3>2. CASE TimerExpire(h)
      BY HandlerAssumption, <3>2 DEF TimerExpire, Called, TypeOK, HandlerTypeOK, One
    <3>3. CASE SignalEvent(h)
      BY HandlerAssumption, <3>3 DEF SignalEvent, Called, TypeOK, HandlerTypeOK, One
    <3>4. ASSUME NEW status \in {0, -1}, PollEvent(h, status)
           PROVE  TypeOK'
      BY HandlerAssumption, <3>4 DEF PollEvent, Called, TypeOK, HandlerTypeOK, One
    <3>5. CASE WatcherEvent(h)
      BY HandlerAssumption, <3>5 DEF WatcherEvent, PhaseKinds, Called, TypeOK,
         HandlerTypeOK, One
    <3>6. CASE CallbackReturn(h)
      BY HandlerAssumption, <3>6 DEF CallbackReturn, Settle, TypeOK,
         HandlerTypeOK, One
    <3> QED
      BY <2>4, <3>1, <3>2, <3>3, <3>4, <3>5, <3>6 DEF Loop
  <2>5. CASE UNCHANGED vars
    BY <2>5 DEF vars, TypeOK, HandlerTypeOK
  <2> QED
    BY <2>1, <2>2, <2>3, <2>4, <2>5 DEF Next
<1>3. QED
  BY <1>1, <1>2, PTL DEF Spec

\* The counting argument: references are released only where the wrapper has
\* taken them, whatever order starts, stops, events and closes come in.
THEOREM CountInvariant == Spec => []IInv
<1>1. Init => IInv
  BY HandlerAssumption DEF Init, HandlerInit, TypeOK, HandlerTypeOK, IInv, HandleInv,
     Unborn, Counted, Covered, References, Needs, One
<1>2. TypeOK /\ TypeOK' /\ IInv /\ [Next]_vars => IInv'
  <2> SUFFICES ASSUME TypeOK, TypeOK', IInv, [Next]_vars
               PROVE  \A g \in Handles : HandleInv(g)'
    BY DEF IInv
  <2>1. ASSUME NEW h \in Handles, AnyHandle(h)
         PROVE  \A g \in Handles : HandleInv(g)'
    <3>1. ASSUME NEW k \in Kinds, NEW success \in BOOLEAN, Construct(h, k, success), UNCHANGED timer
           PROVE  \A g \in Handles : HandleInv(g)'
      BY HandlerAssumption, <3>1 DEF Construct, HandlerAssumption, AllKinds, IInv,
         TypeOK, HandlerTypeOK, CanCall, IsClosing,
         HandleInv, Unborn, Counted, Covered, References, Needs, One
    <3>2. ASSUME NEW callback \in BOOLEAN, CloseHandle(h, callback), UNCHANGED timer
           PROVE  \A g \in Handles : HandleInv(g)'
      BY <3>2 DEF CloseHandle, CloseNow, Settle, IInv, TypeOK, HandlerTypeOK,
         CanCall, IsClosing,
         HandleInv, Unborn, Counted, Covered, References, Needs, One
    <3>3. ASSUME CloseAgain(h), UNCHANGED timer
           PROVE  \A g \in Handles : HandleInv(g)'
      BY <3>3 DEF CloseAgain, IInv, TypeOK, HandlerTypeOK, CanCall, IsClosing,
         HandleInv, Unborn, Counted, Covered, References, Needs, One
    <3>4. ASSUME Forget(h), UNCHANGED timer
           PROVE  \A g \in Handles : HandleInv(g)'
      BY <3>4 DEF Forget, Settle, IInv, TypeOK, HandlerTypeOK, CanCall, IsClosing,
         HandleInv, Unborn, Counted, Covered, References, Needs, One
    <3>5. ASSUME Keep(h), UNCHANGED timer
           PROVE  \A g \in Handles : HandleInv(g)'
      BY <3>5 DEF Keep, IInv, TypeOK, HandlerTypeOK, CanCall, IsClosing,
         HandleInv, Unborn, Counted, Covered, References, Needs, One
    <3> QED
      BY <2>1, <3>1, <3>2, <3>3, <3>4, <3>5 DEF AnyHandle
  <2>2. ASSUME NEW h \in Handles, Start(h)
         PROVE  \A g \in Handles : HandleInv(g)'
    <3>1. CASE PhaseStart(h)
      BY <3>1 DEF PhaseStart, CanStart, Started, PhaseKinds, IInv, TypeOK,
         HandlerTypeOK, CanCall, IsClosing,
         HandleInv, Unborn, Counted, Covered, References, Needs, One
    <3>2. ASSUME NEW mode \in {"once", "repeat"}, TimerStart(h, mode)
           PROVE  \A g \in Handles : HandleInv(g)'
      BY <3>2 DEF TimerStart, CanStart, Started, IInv, TypeOK, HandlerTypeOK,
         CanCall, IsClosing,
         HandleInv, Unborn, Counted, Covered, References, Needs, One
    <3>3. ASSUME NEW mode \in {"once", "repeat"}, TimerSetRepeat(h, mode)
           PROVE  \A g \in Handles : HandleInv(g)'
      BY <3>3 DEF TimerSetRepeat, handlerVars, IInv, TypeOK, HandlerTypeOK, CanCall,
         IsClosing,
         HandleInv, Unborn, Counted, Covered, References, Needs, One
    <3>4. CASE TimerAgain(h)
      BY <3>4 DEF TimerAgain, IInv, TypeOK, HandlerTypeOK, CanCall, IsClosing,
         HandleInv, Unborn, Counted, Covered, References, Needs, One
    <3>5. ASSUME NEW success \in BOOLEAN, SignalStart(h, success)
           PROVE  \A g \in Handles : HandleInv(g)'
      BY <3>5 DEF SignalStart, CanStart, Started, IInv, TypeOK, HandlerTypeOK,
         CanCall, IsClosing,
         HandleInv, Unborn, Counted, Covered, References, Needs, One
    <3>6. ASSUME NEW success \in BOOLEAN, FsPollStart(h, success)
           PROVE  \A g \in Handles : HandleInv(g)'
      BY <3>6 DEF FsPollStart, CanStart, Started, IInv, TypeOK, HandlerTypeOK,
         CanCall, IsClosing,
         HandleInv, Unborn, Counted, Covered, References, Needs, One
    <3>7. ASSUME NEW success \in BOOLEAN, FsEventInit(h, success)
           PROVE  \A g \in Handles : HandleInv(g)'
      BY HandlerAssumption, <3>7 DEF FsEventInit, AllKinds, IInv, TypeOK,
         HandlerTypeOK, CanCall, IsClosing,
         HandleInv, Unborn, Counted, Covered, References, Needs, One
    <3>8. ASSUME NEW success \in BOOLEAN, FsEventStart(h, success)
           PROVE  \A g \in Handles : HandleInv(g)'
      BY <3>8 DEF FsEventStart, CanStart, Started, IInv, TypeOK, HandlerTypeOK,
         CanCall, IsClosing,
         HandleInv, Unborn, Counted, Covered, References, Needs, One
    <3>9. ASSUME NEW outcome \in {"events", "none", "failed"}, PollStart(h, outcome)
           PROVE  \A g \in Handles : HandleInv(g)'
      BY <3>9 DEF PollStart, CanStart, Started, IInv, TypeOK, HandlerTypeOK, CanCall,
         IsClosing,
         HandleInv, Unborn, Counted, Covered, References, Needs, One
    <3> QED
      BY <2>2, <3>1, <3>2, <3>3, <3>4, <3>5, <3>6, <3>7, <3>8, <3>9 DEF Start
  <2>3. ASSUME NEW h \in Handles, Stop(h)
         PROVE  \A g \in Handles : HandleInv(g)'
    <3>1. CASE PhaseStop(h)
      BY <3>1 DEF PhaseStop, PhaseKinds, Stopped, Settle, IInv, TypeOK,
         HandlerTypeOK, CanCall, IsClosing,
         HandleInv, Unborn, Counted, Covered, References, Needs, One
    <3>2. CASE TimerStop(h)
      BY <3>2 DEF TimerStop, Stopped, Settle, IInv, TypeOK, HandlerTypeOK, CanCall,
         IsClosing,
         HandleInv, Unborn, Counted, Covered, References, Needs, One
    <3>3. CASE SignalStop(h)
      BY <3>3 DEF SignalStop, Stopped, Settle, IInv, TypeOK, HandlerTypeOK, CanCall,
         IsClosing,
         HandleInv, Unborn, Counted, Covered, References, Needs, One
    <3>4. CASE PollStop(h)
      BY <3>4 DEF PollStop, IInv, TypeOK, HandlerTypeOK, CanCall, IsClosing,
         HandleInv, Unborn, Counted, Covered, References, Needs, One
    <3>5. CASE FsPollStop(h)
      BY <3>5 DEF FsPollStop, Stopped, Settle, IInv, TypeOK, HandlerTypeOK, CanCall,
         IsClosing,
         HandleInv, Unborn, Counted, Covered, References, Needs, One
    <3>6. CASE FsEventStop(h)
      BY <3>6 DEF FsEventStop, Stopped, Settle, IInv, TypeOK, HandlerTypeOK, CanCall,
         IsClosing,
         HandleInv, Unborn, Counted, Covered, References, Needs, One
    <3> QED
      BY <2>3, <3>1, <3>2, <3>3, <3>4, <3>5, <3>6 DEF Stop
  <2>4. ASSUME NEW h \in Handles, Loop(h)
         PROVE  \A g \in Handles : HandleInv(g)'
    <3>1. CASE FinishClose(h)
      BY HandlerAssumption, <3>1 DEF HandlerAssumption, FinishClose, CloseCallback,
         Closed, IInv, TypeOK, HandlerTypeOK, CanCall, IsClosing,
         HandleInv, Unborn, Counted, Covered, References, Needs, One
    <3>2. CASE TimerExpire(h)
      BY HandlerAssumption, <3>2 DEF TimerExpire, Called, IInv, TypeOK,
         HandlerTypeOK, CanCall, IsClosing,
         HandleInv, Unborn, Counted, Covered, References, Needs, One
    <3>3. CASE SignalEvent(h)
      BY HandlerAssumption, <3>3 DEF SignalEvent, Called, IInv, TypeOK,
         HandlerTypeOK, CanCall, IsClosing,
         HandleInv, Unborn, Counted, Covered, References, Needs, One
    <3>4. ASSUME NEW status \in {0, -1}, PollEvent(h, status)
           PROVE  \A g \in Handles : HandleInv(g)'
      BY HandlerAssumption, <3>4 DEF PollEvent, Called, IInv, TypeOK, HandlerTypeOK,
         CanCall, IsClosing,
         HandleInv, Unborn, Counted, Covered, References, Needs, One
    <3>5. CASE WatcherEvent(h)
      BY HandlerAssumption, <3>5 DEF WatcherEvent, PhaseKinds, Called, IInv, TypeOK,
         HandlerTypeOK, CanCall, IsClosing,
         HandleInv, Unborn, Counted, Covered, References, Needs, One
    <3>6. CASE CallbackReturn(h)
      BY HandlerAssumption, <3>6 DEF CallbackReturn, Settle, IInv, TypeOK,
         HandlerTypeOK, CanCall, IsClosing,
         HandleInv, Unborn, Counted, Covered, References, Needs, One
    <3> QED
      BY <2>4, <3>1, <3>2, <3>3, <3>4, <3>5, <3>6 DEF Loop
  <2>5. CASE UNCHANGED vars
    BY <2>5 DEF vars, IInv, HandleInv, Unborn, Counted, Covered, References, Needs
  <2> QED
    BY <2>1, <2>2, <2>3, <2>4, <2>5 DEF Next
<1>3. QED
  BY <1>1, <1>2, TypeCorrect, PTL DEF Spec

\* An active uv_handle_t never outlives the object its callback is bound to.
THEOREM ActiveAlive == Spec => []ActiveHandleAlive
<1>1. IInv => ActiveHandleAlive
  BY DEF IInv, TypeOK, HandlerTypeOK, HandleInv, Unborn, Counted, Covered,
         References, Needs, One, ActiveHandleAlive
<1>2. QED
  BY <1>1, CountInvariant, PTL

\* Except for fs_event, neither libuv nor the program meets a destroyed object.
THEOREM NeverDangles == Spec => []NoUseAfterDestroy
<1>1. IInv => NoUseAfterDestroy
  BY DEF IInv, TypeOK, HandlerTypeOK, HandleInv, Unborn, Counted, Covered,
         References, Needs, One, NoUseAfterDestroy, InUse
<1>2. QED
  BY <1>1, CountInvariant, PTL

\* The references of idle, prepare and check handles are exactly paired.
THEOREM PairedReferences == Spec => []PinnedWhileActive
<1>1. Init => PinnedWhileActive
  BY DEF Init, HandlerInit, PinnedWhileActive, PhaseKinds, One
<1>2. IInv /\ PinnedWhileActive /\ [Next]_vars => PinnedWhileActive'
  <2> SUFFICES ASSUME IInv, PinnedWhileActive, [Next]_vars
               PROVE  PinnedWhileActive'
    OBVIOUS
  <2>1. ASSUME NEW h \in Handles, AnyHandle(h)
         PROVE  PinnedWhileActive'
    <3>1. ASSUME NEW k \in Kinds, NEW success \in BOOLEAN, Construct(h, k, success), UNCHANGED timer
           PROVE  PinnedWhileActive'
      BY HandlerAssumption, <3>1 DEF Construct, HandlerAssumption, AllKinds, IInv,
         TypeOK, HandlerTypeOK, CanCall, IsClosing,
         HandleInv, Unborn, PinnedWhileActive, PhaseKinds, One
    <3>2. ASSUME NEW callback \in BOOLEAN, CloseHandle(h, callback), UNCHANGED timer
           PROVE  PinnedWhileActive'
      BY <3>2 DEF CloseHandle, CloseNow, Settle, IInv, TypeOK, HandlerTypeOK,
         CanCall, IsClosing,
         HandleInv, Unborn, PinnedWhileActive, PhaseKinds, One
    <3>3. ASSUME CloseAgain(h), UNCHANGED timer
           PROVE  PinnedWhileActive'
      BY <3>3 DEF CloseAgain, IInv, TypeOK, HandlerTypeOK, CanCall, IsClosing,
         HandleInv, Unborn, PinnedWhileActive, PhaseKinds, One
    <3>4. ASSUME Forget(h), UNCHANGED timer
           PROVE  PinnedWhileActive'
      BY <3>4 DEF Forget, Settle, IInv, TypeOK, HandlerTypeOK, CanCall, IsClosing,
         HandleInv, Unborn, PinnedWhileActive, PhaseKinds, One
    <3>5. ASSUME Keep(h), UNCHANGED timer
           PROVE  PinnedWhileActive'
      BY <3>5 DEF Keep, IInv, TypeOK, HandlerTypeOK, CanCall, IsClosing,
         HandleInv, Unborn, PinnedWhileActive, PhaseKinds, One
    <3> QED
      BY <2>1, <3>1, <3>2, <3>3, <3>4, <3>5 DEF AnyHandle
  <2>2. ASSUME NEW h \in Handles, Start(h)
         PROVE  PinnedWhileActive'
    <3>1. CASE PhaseStart(h)
      BY <3>1 DEF PhaseStart, CanStart, Started, PhaseKinds, IInv, TypeOK,
         HandlerTypeOK, CanCall, IsClosing,
         HandleInv, Unborn, PinnedWhileActive, PhaseKinds, One
    <3>2. ASSUME NEW mode \in {"once", "repeat"}, TimerStart(h, mode)
           PROVE  PinnedWhileActive'
      BY <3>2 DEF TimerStart, CanStart, Started, IInv, TypeOK, HandlerTypeOK,
         CanCall, IsClosing,
         HandleInv, Unborn, PinnedWhileActive, PhaseKinds, One
    <3>3. ASSUME NEW mode \in {"once", "repeat"}, TimerSetRepeat(h, mode)
           PROVE  PinnedWhileActive'
      BY <3>3 DEF TimerSetRepeat, handlerVars, IInv, TypeOK, HandlerTypeOK, CanCall,
         IsClosing,
         HandleInv, Unborn, PinnedWhileActive, PhaseKinds, One
    <3>4. CASE TimerAgain(h)
      BY <3>4 DEF TimerAgain, IInv, TypeOK, HandlerTypeOK, CanCall, IsClosing,
         HandleInv, Unborn, PinnedWhileActive, PhaseKinds, One
    <3>5. ASSUME NEW success \in BOOLEAN, SignalStart(h, success)
           PROVE  PinnedWhileActive'
      BY <3>5 DEF SignalStart, CanStart, Started, IInv, TypeOK, HandlerTypeOK,
         CanCall, IsClosing,
         HandleInv, Unborn, PinnedWhileActive, PhaseKinds, One
    <3>6. ASSUME NEW success \in BOOLEAN, FsPollStart(h, success)
           PROVE  PinnedWhileActive'
      BY <3>6 DEF FsPollStart, CanStart, Started, IInv, TypeOK, HandlerTypeOK,
         CanCall, IsClosing,
         HandleInv, Unborn, PinnedWhileActive, PhaseKinds, One
    <3>7. ASSUME NEW success \in BOOLEAN, FsEventInit(h, success)
           PROVE  PinnedWhileActive'
      BY HandlerAssumption, <3>7 DEF FsEventInit, AllKinds, IInv, TypeOK,
         HandlerTypeOK, CanCall, IsClosing,
         HandleInv, Unborn, PinnedWhileActive, PhaseKinds, One
    <3>8. ASSUME NEW success \in BOOLEAN, FsEventStart(h, success)
           PROVE  PinnedWhileActive'
      BY <3>8 DEF FsEventStart, CanStart, Started, IInv, TypeOK, HandlerTypeOK,
         CanCall, IsClosing,
         HandleInv, Unborn, PinnedWhileActive, PhaseKinds, One
    <3>9. ASSUME NEW outcome \in {"events", "none", "failed"}, PollStart(h, outcome)
           PROVE  PinnedWhileActive'
      BY <3>9 DEF PollStart, CanStart, Started, IInv, TypeOK, HandlerTypeOK, CanCall,
         IsClosing,
         HandleInv, Unborn, PinnedWhileActive, PhaseKinds, One
    <3> QED
      BY <2>2, <3>1, <3>2, <3>3, <3>4, <3>5, <3>6, <3>7, <3>8, <3>9 DEF Start
  <2>3. ASSUME NEW h \in Handles, Stop(h)
         PROVE  PinnedWhileActive'
    <3>1. CASE PhaseStop(h)
      BY <3>1 DEF PhaseStop, PhaseKinds, Stopped, Settle, IInv, TypeOK,
         HandlerTypeOK, CanCall, IsClosing,
         HandleInv, Unborn, PinnedWhileActive, PhaseKinds, One
    <3>2. CASE TimerStop(h)
      BY <3>2 DEF TimerStop, Stopped, Settle, IInv, TypeOK, HandlerTypeOK, CanCall,
         IsClosing,
         HandleInv, Unborn, PinnedWhileActive, PhaseKinds, One
    <3>3. CASE SignalStop(h)
      BY <3>3 DEF SignalStop, Stopped, Settle, IInv, TypeOK, HandlerTypeOK, CanCall,
         IsClosing,
         HandleInv, Unborn, PinnedWhileActive, PhaseKinds, One
    <3>4. CASE PollStop(h)
      BY <3>4 DEF PollStop, IInv, TypeOK, HandlerTypeOK, CanCall, IsClosing,
         HandleInv, Unborn, PinnedWhileActive, PhaseKinds, One
    <3>5. CASE FsPollStop(h)
      BY <3>5 DEF FsPollStop, Stopped, Settle, IInv, TypeOK, HandlerTypeOK, CanCall,
         IsClosing,
         HandleInv, Unborn, PinnedWhileActive, PhaseKinds, One
    <3>6. CASE FsEventStop(h)
      BY <3>6 DEF FsEventStop, Stopped, Settle, IInv, TypeOK, HandlerTypeOK, CanCall,
         IsClosing,
         HandleInv, Unborn, PinnedWhileActive, PhaseKinds, One
    <3> QED
      BY <2>3, <3>1, <3>2, <3>3, <3>4, <3>5, <3>6 DEF Stop
  <2>4. ASSUME NEW h \in Handles, Loop(h)
         PROVE  PinnedWhileActive'
    <3>1. CASE FinishClose(h)
      BY HandlerAssumption, <3>1 DEF HandlerAssumption, FinishClose, CloseCallback,
         Closed, IInv, TypeOK, HandlerTypeOK, CanCall, IsClosing,
         HandleInv, Unborn, PinnedWhileActive, PhaseKinds, One
    <3>2. CASE TimerExpire(h)
      BY HandlerAssumption, <3>2 DEF TimerExpire, Called, IInv, TypeOK,
         HandlerTypeOK, CanCall, IsClosing,
         HandleInv, Unborn, PinnedWhileActive, PhaseKinds, One
    <3>3. CASE SignalEvent(h)
      BY HandlerAssumption, <3>3 DEF SignalEvent, Called, IInv, TypeOK,
         HandlerTypeOK, CanCall, IsClosing,
         HandleInv, Unborn, PinnedWhileActive, PhaseKinds, One
    <3>4. ASSUME NEW status \in {0, -1}, PollEvent(h, status)
           PROVE  PinnedWhileActive'
      BY HandlerAssumption, <3>4 DEF PollEvent, Called, IInv, TypeOK, HandlerTypeOK,
         CanCall, IsClosing,
         HandleInv, Unborn, PinnedWhileActive, PhaseKinds, One
    <3>5. CASE WatcherEvent(h)
      BY HandlerAssumption, <3>5 DEF WatcherEvent, PhaseKinds, Called, IInv, TypeOK,
         HandlerTypeOK, CanCall, IsClosing,
         HandleInv, Unborn, PinnedWhileActive, PhaseKinds, One
    <3>6. CASE CallbackReturn(h)
      BY HandlerAssumption, <3>6 DEF CallbackReturn, Settle, IInv, TypeOK,
         HandlerTypeOK, CanCall, IsClosing,
         HandleInv, Unborn, PinnedWhileActive, PhaseKinds, One
    <3> QED
      BY <2>4, <3>1, <3>2, <3>3, <3>4, <3>5, <3>6 DEF Loop
  <2>5. CASE UNCHANGED vars
    BY <2>5 DEF vars, PinnedWhileActive
  <2> QED
    BY <2>1, <2>2, <2>3, <2>4, <2>5 DEF Next
<1>3. QED
  BY <1>1, <1>2, CountInvariant, PTL DEF Spec

\* A close is final, and its callback is decided once.
THEOREM CloseIsFinal == Spec => ClosedOnce
<1>1. IInv /\ [Next]_vars => ClosesKept
  <2> SUFFICES ASSUME IInv, [Next]_vars
               PROVE  ClosesKept
    OBVIOUS
  <2>1. ASSUME NEW h \in Handles, AnyHandle(h)
         PROVE  ClosesKept
    <3>1. ASSUME NEW k \in Kinds, NEW success \in BOOLEAN, Construct(h, k, success), UNCHANGED timer
           PROVE  ClosesKept
      BY HandlerAssumption, <3>1 DEF Construct, HandlerAssumption, AllKinds, IInv,
         TypeOK, HandlerTypeOK, IsClosing,
         HandleInv, Unborn, ClosesKept
    <3>2. ASSUME NEW callback \in BOOLEAN, CloseHandle(h, callback), UNCHANGED timer
           PROVE  ClosesKept
      BY <3>2 DEF CloseHandle, CloseNow, Settle, IInv, TypeOK, HandlerTypeOK, IsClosing,
         HandleInv, Unborn, ClosesKept
    <3>3. ASSUME CloseAgain(h), UNCHANGED timer
           PROVE  ClosesKept
      BY <3>3 DEF CloseAgain, IInv, TypeOK, HandlerTypeOK, IsClosing,
         HandleInv, Unborn, ClosesKept
    <3>4. ASSUME Forget(h), UNCHANGED timer
           PROVE  ClosesKept
      BY <3>4 DEF Forget, Settle, IInv, TypeOK, HandlerTypeOK, IsClosing,
         HandleInv, Unborn, ClosesKept
    <3>5. ASSUME Keep(h), UNCHANGED timer
           PROVE  ClosesKept
      BY <3>5 DEF Keep, IInv, TypeOK, HandlerTypeOK, IsClosing,
         HandleInv, Unborn, ClosesKept
    <3> QED
      BY <2>1, <3>1, <3>2, <3>3, <3>4, <3>5 DEF AnyHandle
  <2>2. ASSUME NEW h \in Handles, Start(h)
         PROVE  ClosesKept
    <3>1. CASE PhaseStart(h)
      BY <3>1 DEF PhaseStart, CanStart, Started, PhaseKinds, IInv, TypeOK,
         HandlerTypeOK, IsClosing,
         HandleInv, Unborn, ClosesKept
    <3>2. ASSUME NEW mode \in {"once", "repeat"}, TimerStart(h, mode)
           PROVE  ClosesKept
      BY <3>2 DEF TimerStart, CanStart, Started, IInv, TypeOK, HandlerTypeOK, IsClosing,
         HandleInv, Unborn, ClosesKept
    <3>3. ASSUME NEW mode \in {"once", "repeat"}, TimerSetRepeat(h, mode)
           PROVE  ClosesKept
      BY <3>3 DEF TimerSetRepeat, handlerVars, IInv, TypeOK, HandlerTypeOK, IsClosing,
         HandleInv, Unborn, ClosesKept
    <3>4. CASE TimerAgain(h)
      BY <3>4 DEF TimerAgain, IInv, TypeOK, HandlerTypeOK, IsClosing,
         HandleInv, Unborn, ClosesKept
    <3>5. ASSUME NEW success \in BOOLEAN, SignalStart(h, success)
           PROVE  ClosesKept
      BY <3>5 DEF SignalStart, CanStart, Started, IInv, TypeOK, HandlerTypeOK,
         IsClosing,
         HandleInv, Unborn, ClosesKept
    <3>6. ASSUME NEW success \in BOOLEAN, FsPollStart(h, success)
           PROVE  ClosesKept
      BY <3>6 DEF FsPollStart, CanStart, Started, IInv, TypeOK, HandlerTypeOK,
         IsClosing,
         HandleInv, Unborn, ClosesKept
    <3>7. ASSUME NEW success \in BOOLEAN, FsEventInit(h, success)
           PROVE  ClosesKept
      BY HandlerAssumption, <3>7 DEF FsEventInit, AllKinds, IInv, TypeOK,
         HandlerTypeOK, IsClosing,
         HandleInv, Unborn, ClosesKept
    <3>8. ASSUME NEW success \in BOOLEAN, FsEventStart(h, success)
           PROVE  ClosesKept
      BY <3>8 DEF FsEventStart, CanStart, Started, IInv, TypeOK, HandlerTypeOK,
         IsClosing,
         HandleInv, Unborn, ClosesKept
    <3>9. ASSUME NEW outcome \in {"events", "none", "failed"}, PollStart(h, outcome)
           PROVE  ClosesKept
      BY <3>9 DEF PollStart, CanStart, Started, IInv, TypeOK, HandlerTypeOK, IsClosing,
         HandleInv, Unborn, ClosesKept
    <3> QED
      BY <2>2, <3>1, <3>2, <3>3, <3>4, <3>5, <3>6, <3>7, <3>8, <3>9 DEF Start
  <2>3. ASSUME NEW h \in Handles, Stop(h)
         PROVE  ClosesKept
    <3>1. CASE PhaseStop(h)
      BY <3>1 DEF PhaseStop, PhaseKinds, Stopped, Settle, IInv, TypeOK,
         HandlerTypeOK, IsClosing,
         HandleInv, Unborn, ClosesKept
    <3>2. CASE TimerStop(h)
      BY <3>2 DEF TimerStop, Stopped, Settle, IInv, TypeOK, HandlerTypeOK, IsClosing,
         HandleInv, Unborn, ClosesKept
    <3>3. CASE SignalStop(h)
      BY <3>3 DEF SignalStop, Stopped, Settle, IInv, TypeOK, HandlerTypeOK, IsClosing,
         HandleInv, Unborn, ClosesKept
    <3>4. CASE PollStop(h)
      BY <3>4 DEF PollStop, IInv, TypeOK, HandlerTypeOK, IsClosing,
         HandleInv, Unborn, ClosesKept
    <3>5. CASE FsPollStop(h)
      BY <3>5 DEF FsPollStop, Stopped, Settle, IInv, TypeOK, HandlerTypeOK, IsClosing,
         HandleInv, Unborn, ClosesKept
    <3>6. CASE FsEventStop(h)
      BY <3>6 DEF FsEventStop, Stopped, Settle, IInv, TypeOK, HandlerTypeOK, IsClosing,
         HandleInv, Unborn, ClosesKept
    <3> QED
      BY <2>3, <3>1, <3>2, <3>3, <3>4, <3>5, <3>6 DEF Stop
  <2>4. ASSUME NEW h \in Handles, Loop(h)
         PROVE  ClosesKept
    <3>1. CASE FinishClose(h)
      BY HandlerAssumption, <3>1 DEF HandlerAssumption, FinishClose, CloseCallback,
         Closed, IInv, TypeOK, HandlerTypeOK, IsClosing,
         HandleInv, Unborn, ClosesKept
    <3>2. CASE TimerExpire(h)
      BY HandlerAssumption, <3>2 DEF TimerExpire, Called, IInv, TypeOK,
         HandlerTypeOK, IsClosing,
         HandleInv, Unborn, ClosesKept
    <3>3. CASE SignalEvent(h)
      BY HandlerAssumption, <3>3 DEF SignalEvent, Called, IInv, TypeOK,
         HandlerTypeOK, IsClosing,
         HandleInv, Unborn, ClosesKept
    <3>4. ASSUME NEW status \in {0, -1}, PollEvent(h, status)
           PROVE  ClosesKept
      BY HandlerAssumption, <3>4 DEF PollEvent, Called, IInv, TypeOK, HandlerTypeOK,
         IsClosing,
         HandleInv, Unborn, ClosesKept
    <3>5. CASE WatcherEvent(h)
      BY HandlerAssumption, <3>5 DEF WatcherEvent, PhaseKinds, Called, IInv, TypeOK,
         HandlerTypeOK, IsClosing,
         HandleInv, Unborn, ClosesKept
    <3>6. CASE CallbackReturn(h)
      BY HandlerAssumption, <3>6 DEF CallbackReturn, Settle, IInv, TypeOK,
         HandlerTypeOK, IsClosing,
         HandleInv, Unborn, ClosesKept
    <3> QED
      BY <2>4, <3>1, <3>2, <3>3, <3>4, <3>5, <3>6 DEF Loop
  <2>5. CASE UNCHANGED vars
    BY <2>5 DEF vars, IsClosing, ClosesKept
  <2> QED
    BY <2>1, <2>2, <2>3, <2>4, <2>5 DEF Next
<1>2. QED
  BY <1>1, CountInvariant, PTL DEF Spec, ClosedOnce
------------------------------------------------------------------------------

\* How a step may change what Lending sees: a destroyed object stays destroyed,
\* an object that exists keeps its class, and a callback is entered from the
\* loop, about a handle that libuv had.
LendingStep ==
  /\ \A g \in Handles : object[g] # "none" => kind'[g] = kind[g]
  /\ \A g \in Handles : object[g] = "destroyed" => object'[g] = "destroyed"
  /\ \/ running' = running
     \/ running' = NoHandle
     \/ running = NoHandle /\ LentHandle(running')

LEMMA StepLends == IInv /\ [Next]_vars => LendingStep
<1> SUFFICES ASSUME IInv, [Next]_vars
             PROVE  LendingStep
  OBVIOUS
<1>1. ASSUME NEW h \in Handles, AnyHandle(h)
      PROVE  LendingStep
  <2>1. ASSUME NEW k \in Kinds, NEW success \in BOOLEAN, Construct(h, k, success), UNCHANGED timer
        PROVE  LendingStep
    BY <2>1 DEF Construct, IInv, TypeOK, HandlerTypeOK,
       LendingStep, LentHandle
  <2>2. ASSUME NEW callback \in BOOLEAN, CloseHandle(h, callback), UNCHANGED timer
        PROVE  LendingStep
    BY <2>2 DEF CloseHandle, CloseNow, Settle, IInv, TypeOK, HandlerTypeOK,
       LendingStep, LentHandle
  <2>3. ASSUME CloseAgain(h), UNCHANGED timer
        PROVE  LendingStep
    BY <2>3 DEF CloseAgain, IInv, TypeOK, HandlerTypeOK,
       LendingStep, LentHandle
  <2>4. ASSUME Forget(h), UNCHANGED timer
        PROVE  LendingStep
    BY <2>4 DEF Forget, Settle, IInv, TypeOK, HandlerTypeOK,
       LendingStep, LentHandle
  <2>5. ASSUME Keep(h), UNCHANGED timer
        PROVE  LendingStep
    BY <2>5 DEF Keep, IInv, TypeOK, HandlerTypeOK,
       LendingStep, LentHandle
  <2> QED
    BY <1>1, <2>1, <2>2, <2>3, <2>4, <2>5 DEF AnyHandle
<1>2. ASSUME NEW h \in Handles, Start(h)
      PROVE  LendingStep
  <2>1. CASE PhaseStart(h)
    BY <2>1 DEF PhaseStart, CanStart, Started, IInv, TypeOK, HandlerTypeOK,
       LendingStep, LentHandle
  <2>2. ASSUME NEW mode \in {"once", "repeat"}, TimerStart(h, mode)
        PROVE  LendingStep
    BY <2>2 DEF TimerStart, CanStart, Started, IInv, TypeOK, HandlerTypeOK,
       LendingStep, LentHandle
  <2>3. ASSUME NEW mode \in {"once", "repeat"}, TimerSetRepeat(h, mode)
        PROVE  LendingStep
    BY <2>3 DEF TimerSetRepeat, handlerVars, IInv, TypeOK, HandlerTypeOK,
       LendingStep, LentHandle
  <2>4. CASE TimerAgain(h)
    BY <2>4 DEF TimerAgain, IInv, TypeOK, HandlerTypeOK,
       LendingStep, LentHandle
  <2>5. ASSUME NEW success \in BOOLEAN, SignalStart(h, success)
        PROVE  LendingStep
    BY <2>5 DEF SignalStart, CanStart, Started, IInv, TypeOK, HandlerTypeOK,
       LendingStep, LentHandle
  <2>6. ASSUME NEW success \in BOOLEAN, FsPollStart(h, success)
        PROVE  LendingStep
    BY <2>6 DEF FsPollStart, CanStart, Started, IInv, TypeOK, HandlerTypeOK,
       LendingStep, LentHandle
  <2>7. ASSUME NEW success \in BOOLEAN, FsEventInit(h, success)
        PROVE  LendingStep
    BY <2>7 DEF FsEventInit, IInv, TypeOK, HandlerTypeOK,
       LendingStep, LentHandle
  <2>8. ASSUME NEW success \in BOOLEAN, FsEventStart(h, success)
        PROVE  LendingStep
    BY <2>8 DEF FsEventStart, CanStart, Started, IInv, TypeOK, HandlerTypeOK,
       LendingStep, LentHandle
  <2>9. ASSUME NEW outcome \in {"events", "none", "failed"}, PollStart(h, outcome)
        PROVE  LendingStep
    BY <2>9 DEF PollStart, CanStart, Started, IInv, TypeOK, HandlerTypeOK,
       LendingStep, LentHandle
  <2> QED
    BY <1>2, <2>1, <2>2, <2>3, <2>4, <2>5, <2>6, <2>7, <2>8, <2>9 DEF Start
<1>3. ASSUME NEW h \in Handles, Stop(h)
      PROVE  LendingStep
  <2>1. CASE PhaseStop(h)
    BY <2>1 DEF PhaseStop, Stopped, Settle, IInv, TypeOK, HandlerTypeOK,
       LendingStep, LentHandle
  <2>2. CASE TimerStop(h)
    BY <2>2 DEF TimerStop, Stopped, Settle, IInv, TypeOK, HandlerTypeOK,
       LendingStep, LentHandle
  <2>3. CASE SignalStop(h)
    BY <2>3 DEF SignalStop, Stopped, Settle, IInv, TypeOK, HandlerTypeOK,
       LendingStep, LentHandle
  <2>4. CASE PollStop(h)
    BY <2>4 DEF PollStop, IInv, TypeOK, HandlerTypeOK,
       LendingStep, LentHandle
  <2>5. CASE FsPollStop(h)
    BY <2>5 DEF FsPollStop, Stopped, Settle, IInv, TypeOK, HandlerTypeOK,
       LendingStep, LentHandle
  <2>6. CASE FsEventStop(h)
    BY <2>6 DEF FsEventStop, Stopped, Settle, IInv, TypeOK, HandlerTypeOK,
       LendingStep, LentHandle
  <2> QED
    BY <1>3, <2>1, <2>2, <2>3, <2>4, <2>5, <2>6 DEF Stop
<1>4. ASSUME NEW h \in Handles, Loop(h)
      PROVE  LendingStep
  <2>1. CASE FinishClose(h)
    BY <2>1 DEF FinishClose, CloseCallback, Closed, IInv, TypeOK, HandlerTypeOK,
       LendingStep, LentHandle
  <2>2. CASE TimerExpire(h)
    BY <2>2 DEF TimerExpire, Called, IInv, TypeOK, HandlerTypeOK,
       LendingStep, LentHandle
  <2>3. CASE SignalEvent(h)
    BY <2>3 DEF SignalEvent, Called, IInv, TypeOK, HandlerTypeOK,
       LendingStep, LentHandle
  <2>4. ASSUME NEW status \in {0, -1}, PollEvent(h, status)
        PROVE  LendingStep
    BY <2>4 DEF PollEvent, Called, IInv, TypeOK, HandlerTypeOK,
       LendingStep, LentHandle
  <2>5. CASE WatcherEvent(h)
    BY <2>5 DEF WatcherEvent, Called, IInv, TypeOK, HandlerTypeOK,
       LendingStep, LentHandle
  <2>6. CASE CallbackReturn(h)
    BY <2>6 DEF CallbackReturn, Settle, IInv, TypeOK, HandlerTypeOK,
       LendingStep, LentHandle
  <2> QED
    BY <1>4, <2>1, <2>2, <2>3, <2>4, <2>5, <2>6 DEF Loop
<1>5. CASE UNCHANGED vars
  BY <1>5 DEF vars, LendingStep
<1> QED
  BY <1>1, <1>2, <1>3, <1>4, <1>5 DEF Next

\* Whatever the program starts, stops and closes, the wrapper honours what it
\* owes libuv: every handle but an fs_event is there while libuv may call.
THEOREM LendingKept == Spec => LendingSpec
<1> DEFINE lentNow == {h \in PairedHandles : LentHandle(h)}
           calledNow == {h \in PairedHandles : running = h}
           goneNow == {h \in PairedHandles : object[h] = "destroyed"}
<1>1. Init => Lent!Init
  BY HandlerAssumption
  DEF Init, HandlerInit, HandlerAssumption, Lent!Init, LentHandle, PairedHandles
<1>2. IInv /\ NoUseAfterDestroy' /\ [Next]_vars => [Lent!Next]_Lent!vars
  <2> SUFFICES ASSUME IInv, NoUseAfterDestroy', [Next]_vars
               PROVE  Lent!Next
    OBVIOUS
  <2>1. LendingStep
    BY StepLends
  <2>2. lentNow' \subseteq Handles /\ goneNow' \subseteq Handles
    BY DEF PairedHandles
  <2>3. goneNow \subseteq goneNow'
    BY <2>1 DEF LendingStep, PairedHandles
  <2>4. (lentNow' \cup calledNow') \cap goneNow' = {}
    BY DEF NoUseAfterDestroy, InUse, LentHandle, PairedHandles
  <2>5. \/ calledNow = {} /\ calledNow' \subseteq lentNow
        \/ calledNow' = {}
        \/ calledNow' = calledNow
    <3>1. CASE running' = NoHandle
      BY <3>1, HandlerAssumption DEF HandlerAssumption, PairedHandles
    <3>2. CASE running = NoHandle /\ LentHandle(running')
      <4>1. calledNow = {}
        BY <3>2, HandlerAssumption DEF HandlerAssumption, PairedHandles
      <4>2. \A g \in Handles : LentHandle(g) => object[g] # "none"
        BY DEF IInv, HandleInv, Unborn, LentHandle
      <4>3. calledNow' \subseteq lentNow
        BY <3>2, <4>2, <2>1 DEF LendingStep, PairedHandles
      <4> QED
        BY <4>1, <4>3
    <3>3. CASE running' = running
      <4>1. \A g \in Handles : running = g => object[g] # "none"
        BY DEF IInv, HandleInv, Unborn
      <4> QED
        BY <3>3, <4>1, <2>1 DEF LendingStep, PairedHandles
    <3> QED
      BY <2>1, <3>1, <3>2, <3>3 DEF LendingStep
  <2> QED
    BY <2>2, <2>3, <2>4, <2>5 DEF Lent!Next, Lent!Managed, Lent!Call, Lent!Return
<1>3. QED
  BY <1>1, <1>2, CountInvariant, NeverDangles, PTL DEF Spec, LendingSpec, Lent!Spec

\* The exact count of an async handle, unless the program closes twice: one
\* closure of its init, whose reference the close gives back, and one of the
\* close callback.  The program has no handle whose init failed.
AsyncCount(h) ==
  kind[h] = "async" =>
    /\ native[h] # "inactive"
    /\ native[h] = "none" => ~held[h] /\ running # h
    /\ native[h] \in {"none", "active"} => closures[h] = 1 /\ pins[h] = 0
    /\ IsClosing(h) => closures[h] = 1 + One(onClose[h]) /\ pins[h] = -1
    /\ IsClosing(h) /\ ~onClose[h] /\ ~held[h] /\ running # h => object[h] = "destroyed"

AsyncCounted == ~ClosesTwice => \A h \in Handles : AsyncCount(h)

\* An async handle that was closed goes when the program forgets it: nothing
\* the wrapper holds outlasts the close.
THEOREM AsyncGoes == Spec => []AsyncReclaimed
<1>1. Init => AsyncCounted
  BY DEF Init, HandlerInit, AsyncCounted, AsyncCount
<1>2. IInv /\ AsyncCounted /\ [Next]_vars => AsyncCounted'
  <2> SUFFICES ASSUME IInv, AsyncCounted, ~ClosesTwice, [Next]_vars
               PROVE  \A g \in Handles : AsyncCount(g)'
    BY DEF AsyncCounted
  <2>1. ASSUME NEW h \in Handles, AnyHandle(h)
        PROVE  \A g \in Handles : AsyncCount(g)'
    <3>1. ASSUME NEW k \in Kinds, NEW success \in BOOLEAN, Construct(h, k, success), UNCHANGED timer
          PROVE  \A g \in Handles : AsyncCount(g)'
      BY <3>1 DEF Construct, IInv, TypeOK, HandlerTypeOK, PhaseKinds, References,
         HandleInv, Unborn, Counted, IsClosing, CanCall, AsyncCounted, AsyncCount, One
    <3>2. ASSUME NEW callback \in BOOLEAN, CloseHandle(h, callback), UNCHANGED timer
          PROVE  \A g \in Handles : AsyncCount(g)'
      BY <3>2 DEF CloseHandle, CloseNow, Settle, IInv, TypeOK, HandlerTypeOK, PhaseKinds, References,
         HandleInv, Unborn, Counted, IsClosing, CanCall, AsyncCounted, AsyncCount, One
    <3>3. ASSUME CloseAgain(h), UNCHANGED timer
          PROVE  \A g \in Handles : AsyncCount(g)'
      BY <3>3 DEF CloseAgain, IInv, TypeOK, HandlerTypeOK, PhaseKinds, References,
         HandleInv, Unborn, Counted, IsClosing, CanCall, AsyncCounted, AsyncCount, One
    <3>4. ASSUME Forget(h), UNCHANGED timer
          PROVE  \A g \in Handles : AsyncCount(g)'
      BY <3>4 DEF Forget, Settle, IInv, TypeOK, HandlerTypeOK, PhaseKinds, References,
         HandleInv, Unborn, Counted, IsClosing, CanCall, AsyncCounted, AsyncCount, One
    <3>5. ASSUME Keep(h), UNCHANGED timer
          PROVE  \A g \in Handles : AsyncCount(g)'
      BY <3>5 DEF Keep, IInv, TypeOK, HandlerTypeOK, PhaseKinds, References,
         HandleInv, Unborn, Counted, IsClosing, CanCall, AsyncCounted, AsyncCount, One
    <3> QED
      BY <2>1, <3>1, <3>2, <3>3, <3>4, <3>5 DEF AnyHandle
  <2>2. ASSUME NEW h \in Handles, Start(h)
        PROVE  \A g \in Handles : AsyncCount(g)'
    <3>1. CASE PhaseStart(h)
      BY <3>1 DEF PhaseStart, CanStart, Started, IInv, TypeOK, HandlerTypeOK, PhaseKinds, References,
         HandleInv, Unborn, Counted, IsClosing, CanCall, AsyncCounted, AsyncCount, One
    <3>2. ASSUME NEW mode \in {"once", "repeat"}, TimerStart(h, mode)
          PROVE  \A g \in Handles : AsyncCount(g)'
      BY <3>2 DEF TimerStart, CanStart, Started, IInv, TypeOK, HandlerTypeOK, PhaseKinds, References,
         HandleInv, Unborn, Counted, IsClosing, CanCall, AsyncCounted, AsyncCount, One
    <3>3. ASSUME NEW mode \in {"once", "repeat"}, TimerSetRepeat(h, mode)
          PROVE  \A g \in Handles : AsyncCount(g)'
      BY <3>3 DEF TimerSetRepeat, handlerVars, IInv, TypeOK, HandlerTypeOK, PhaseKinds, References,
         HandleInv, Unborn, Counted, IsClosing, CanCall, AsyncCounted, AsyncCount, One
    <3>4. CASE TimerAgain(h)
      BY <3>4 DEF TimerAgain, IInv, TypeOK, HandlerTypeOK, PhaseKinds, References,
         HandleInv, Unborn, Counted, IsClosing, CanCall, AsyncCounted, AsyncCount, One
    <3>5. ASSUME NEW success \in BOOLEAN, SignalStart(h, success)
          PROVE  \A g \in Handles : AsyncCount(g)'
      BY <3>5 DEF SignalStart, CanStart, Started, IInv, TypeOK, HandlerTypeOK, PhaseKinds, References,
         HandleInv, Unborn, Counted, IsClosing, CanCall, AsyncCounted, AsyncCount, One
    <3>6. ASSUME NEW success \in BOOLEAN, FsPollStart(h, success)
          PROVE  \A g \in Handles : AsyncCount(g)'
      BY <3>6 DEF FsPollStart, CanStart, Started, IInv, TypeOK, HandlerTypeOK, PhaseKinds, References,
         HandleInv, Unborn, Counted, IsClosing, CanCall, AsyncCounted, AsyncCount, One
    <3>7. ASSUME NEW success \in BOOLEAN, FsEventInit(h, success)
          PROVE  \A g \in Handles : AsyncCount(g)'
      BY <3>7 DEF FsEventInit, IInv, TypeOK, HandlerTypeOK, PhaseKinds, References,
         HandleInv, Unborn, Counted, IsClosing, CanCall, AsyncCounted, AsyncCount, One
    <3>8. ASSUME NEW success \in BOOLEAN, FsEventStart(h, success)
          PROVE  \A g \in Handles : AsyncCount(g)'
      BY <3>8 DEF FsEventStart, CanStart, Started, IInv, TypeOK, HandlerTypeOK, PhaseKinds, References,
         HandleInv, Unborn, Counted, IsClosing, CanCall, AsyncCounted, AsyncCount, One
    <3>9. ASSUME NEW outcome \in {"events", "none", "failed"}, PollStart(h, outcome)
          PROVE  \A g \in Handles : AsyncCount(g)'
      BY <3>9 DEF PollStart, CanStart, Started, IInv, TypeOK, HandlerTypeOK, PhaseKinds, References,
         HandleInv, Unborn, Counted, IsClosing, CanCall, AsyncCounted, AsyncCount, One
    <3> QED
      BY <2>2, <3>1, <3>2, <3>3, <3>4, <3>5, <3>6, <3>7, <3>8, <3>9 DEF Start
  <2>3. ASSUME NEW h \in Handles, Stop(h)
        PROVE  \A g \in Handles : AsyncCount(g)'
    <3>1. CASE PhaseStop(h)
      BY <3>1 DEF PhaseStop, Stopped, Settle, IInv, TypeOK, HandlerTypeOK, PhaseKinds, References,
         HandleInv, Unborn, Counted, IsClosing, CanCall, AsyncCounted, AsyncCount, One
    <3>2. CASE TimerStop(h)
      BY <3>2 DEF TimerStop, Stopped, Settle, IInv, TypeOK, HandlerTypeOK, PhaseKinds, References,
         HandleInv, Unborn, Counted, IsClosing, CanCall, AsyncCounted, AsyncCount, One
    <3>3. CASE SignalStop(h)
      BY <3>3 DEF SignalStop, Stopped, Settle, IInv, TypeOK, HandlerTypeOK, PhaseKinds, References,
         HandleInv, Unborn, Counted, IsClosing, CanCall, AsyncCounted, AsyncCount, One
    <3>4. CASE PollStop(h)
      BY <3>4 DEF PollStop, IInv, TypeOK, HandlerTypeOK, PhaseKinds, References,
         HandleInv, Unborn, Counted, IsClosing, CanCall, AsyncCounted, AsyncCount, One
    <3>5. CASE FsPollStop(h)
      BY <3>5 DEF FsPollStop, Stopped, Settle, IInv, TypeOK, HandlerTypeOK, PhaseKinds, References,
         HandleInv, Unborn, Counted, IsClosing, CanCall, AsyncCounted, AsyncCount, One
    <3>6. CASE FsEventStop(h)
      BY <3>6 DEF FsEventStop, Stopped, Settle, IInv, TypeOK, HandlerTypeOK, PhaseKinds, References,
         HandleInv, Unborn, Counted, IsClosing, CanCall, AsyncCounted, AsyncCount, One
    <3> QED
      BY <2>3, <3>1, <3>2, <3>3, <3>4, <3>5, <3>6 DEF Stop
  <2>4. ASSUME NEW h \in Handles, Loop(h)
        PROVE  \A g \in Handles : AsyncCount(g)'
    <3>1. CASE FinishClose(h)
      BY HandlerAssumption, <3>1 DEF FinishClose, CloseCallback, Closed, HandlerAssumption, IInv, TypeOK, HandlerTypeOK, PhaseKinds, References,
         HandleInv, Unborn, Counted, IsClosing, CanCall, AsyncCounted, AsyncCount, One
    <3>2. CASE TimerExpire(h)
      BY HandlerAssumption, <3>2 DEF TimerExpire, Called, HandlerAssumption, IInv, TypeOK, HandlerTypeOK, PhaseKinds, References,
         HandleInv, Unborn, Counted, IsClosing, CanCall, AsyncCounted, AsyncCount, One
    <3>3. CASE SignalEvent(h)
      BY HandlerAssumption, <3>3 DEF SignalEvent, Called, HandlerAssumption, IInv, TypeOK, HandlerTypeOK, PhaseKinds, References,
         HandleInv, Unborn, Counted, IsClosing, CanCall, AsyncCounted, AsyncCount, One
    <3>4. ASSUME NEW status \in {0, -1}, PollEvent(h, status)
          PROVE  \A g \in Handles : AsyncCount(g)'
      BY HandlerAssumption, <3>4 DEF PollEvent, Called, HandlerAssumption, IInv, TypeOK, HandlerTypeOK, PhaseKinds, References,
         HandleInv, Unborn, Counted, IsClosing, CanCall, AsyncCounted, AsyncCount, One
    <3>5. CASE WatcherEvent(h)
      BY HandlerAssumption, <3>5 DEF WatcherEvent, Called, HandlerAssumption, IInv, TypeOK, HandlerTypeOK, PhaseKinds, References,
         HandleInv, Unborn, Counted, IsClosing, CanCall, AsyncCounted, AsyncCount, One
    <3>6. CASE CallbackReturn(h)
      BY HandlerAssumption, <3>6 DEF CallbackReturn, Settle, HandlerAssumption, IInv, TypeOK, HandlerTypeOK, PhaseKinds, References,
         HandleInv, Unborn, Counted, IsClosing, CanCall, AsyncCounted, AsyncCount, One
    <3> QED
      BY <2>4, <3>1, <3>2, <3>3, <3>4, <3>5, <3>6 DEF Loop
  <2>5. CASE UNCHANGED vars
    BY <2>5 DEF vars, AsyncCounted, AsyncCount, IsClosing
  <2> QED
    BY <2>1, <2>2, <2>3, <2>4, <2>5 DEF Next
<1>3. AsyncCounted => AsyncReclaimed
  BY DEF AsyncCounted, AsyncCount, AsyncReclaimed
<1>4. QED
  BY <1>1, <1>2, <1>3, CountInvariant, PTL DEF Spec

------------------------------------------------------------------------------
(* Closes are finished *)

\* The strong fairness of FairSpec with the enabling condition of FinishClose(h)
\* written out, and what its weak fairness is for: callbacks return.
CallbacksReturn == []<>(running = NoHandle)

CanFinish(h) == running = NoHandle /\ native[h] = "closing"

LoopFinishes(h) == []<>CanFinish(h) => []<><<FinishClose(h)>>_vars

\* A handle that is being closed stays so, its callback decided, until the loop
\* finishes the close and enters the callback.
LEMMA ClosingStays ==
  ASSUME IInv, [Next]_vars, ClosesKept, NEW h \in Handles, native[h] = "closing"
  PROVE  \/ native'[h] = "closing" /\ onClose'[h] = onClose[h]
         \/ FinishClose(h)
<1>1. native \in [Handles -> {"none", "inactive", "active", "closing", "closed"}]
  BY DEF IInv, TypeOK, HandlerTypeOK
<1>2. native'[h] \in {"closing", "closed"} /\ onClose'[h] = onClose[h]
  BY DEF ClosesKept, IsClosing
<1>3. CASE UNCHANGED vars
  BY <1>3 DEF vars
<1>4. ASSUME NEW g \in Handles, AnyHandle(g), native'[h] = "closed"
      PROVE  FALSE
  BY <1>1, <1>4 DEF AnyHandle, Construct, CloseHandle, CloseNow, CloseAgain, Forget, Keep
<1>5. ASSUME NEW g \in Handles, Start(g), native'[h] = "closed"
      PROVE  FALSE
  <2>1. ASSUME NEW refs, NEW state, Started(g, refs, state), native'[h] = "closed"
        PROVE  g = h /\ state = "closed"
    BY <1>1, <2>1 DEF Started
  <2> QED
    BY <1>1, <1>5, <2>1
    DEF Start, PhaseStart, TimerStart, TimerSetRepeat, TimerAgain, SignalStart, FsPollStart,
        FsEventInit, FsEventStart, PollStart, handlerVars, CanStart, IsClosing
<1>6. ASSUME NEW g \in Handles, Stop(g), native'[h] = "closed"
      PROVE  FALSE
  BY <1>1, <1>6
  DEF Stop, PhaseStop, TimerStop, SignalStop, PollStop, FsPollStop, FsEventStop, Stopped
<1>7. ASSUME NEW g \in Handles, Loop(g), native'[h] = "closed"
      PROVE  FinishClose(h)
  <2>1. ASSUME NEW refs, NEW state, Called(g, refs, state), native'[h] = "closed"
        PROVE  g = h /\ native[h] = "active"
    BY <1>1, <2>1 DEF Called
  <2>2. CASE FinishClose(g)
    BY <1>1, <1>7, <2>2 DEF FinishClose, CloseCallback, Closed
  <2>3. ~CallbackReturn(g)
    BY <1>1, <1>7 DEF CallbackReturn
  <2> QED
    BY <1>7, <2>1, <2>2, <2>3 DEF Loop, TimerExpire, SignalEvent, PollEvent, WatcherEvent
<1> QED
  BY <1>2, <1>3, <1>4, <1>5, <1>6, <1>7 DEF Next

\* What finishing the close does to the handle.
LEMMA Finishing ==
  ASSUME IInv, NEW h \in Handles, FinishClose(h)
  PROVE  native'[h] = "closed" /\ (onClose[h] => running' = h /\ entry' = "close")
  BY DEF FinishClose, CloseCallback, Closed, IInv, TypeOK, HandlerTypeOK

\* One handle that is being closed ends up closed.
LEMMA CloseCompletesOne ==
  ASSUME NEW h \in Handles
  PROVE  Spec /\ CallbacksReturn /\ LoopFinishes(h) =>
           (native[h] = "closing" ~> native[h] = "closed")
<1> DEFINE P == native[h] = "closing"
           Q == native[h] = "closed"
           N == running = NoHandle
<1>1. IInv /\ [Next]_vars /\ [ClosesKept]_vars /\ P => P' \/ Q'
  <2>1. UNCHANGED vars => P' = P
    BY DEF vars
  <2> QED
    BY <2>1, ClosingStays, Finishing
<1>2. IInv /\ P /\ <<FinishClose(h)>>_vars => Q'
  BY Finishing
<1>3. P /\ N => CanFinish(h)
  BY DEF CanFinish
<1> QED
  BY <1>1, <1>2, <1>3, CountInvariant, CloseIsFinal, PTL
  DEF Spec, ClosedOnce, CallbacksReturn, LoopFinishes

\* The callback of one close runs.
LEMMA CloseCallbackRunsOne ==
  ASSUME NEW h \in Handles
  PROVE  Spec /\ CallbacksReturn /\ LoopFinishes(h) =>
           (native[h] = "closing" /\ onClose[h] ~> running = h /\ entry = "close")
<1> DEFINE P == native[h] = "closing" /\ onClose[h]
           Q == running = h /\ entry = "close"
           N == running = NoHandle
<1>1. IInv /\ [Next]_vars /\ [ClosesKept]_vars /\ P => P' \/ Q'
  <2>1. UNCHANGED vars => P' = P
    BY DEF vars
  <2> QED
    BY <2>1, ClosingStays, Finishing
<1>2. IInv /\ P /\ <<FinishClose(h)>>_vars => Q'
  BY Finishing
<1>3. P /\ N => CanFinish(h)
  BY DEF CanFinish
<1> QED
  BY <1>1, <1>2, <1>3, CountInvariant, CloseIsFinal, PTL
  DEF Spec, ClosedOnce, CallbacksReturn, LoopFinishes

\* Whatever else the loop runs in between, a handle that is being closed ends up
\* closed: the close waits for callbacks to return only.
THEOREM ClosesComplete ==
  Spec /\ CallbacksReturn /\ (\A h \in Handles : LoopFinishes(h)) => CloseCompletes
  BY CloseCompletesOne DEF CloseCompletes

\* A close that was given a callback is followed by that callback: nothing that
\* happens in between, a second close least of all, takes it away.
THEOREM CloseCallbacksRun ==
  Spec /\ CallbacksReturn /\ (\A h \in Handles : LoopFinishes(h)) => CloseCallbackRuns
  BY CloseCallbackRunsOne DEF CloseCallbackRuns
==============================================================================
