------------------------------ MODULE UVHandler ------------------------------
(***************************************************************************)
(* The part of a libuv handle's life that every UV class shares: the PHP   *)
(* object and its reference count, the uv_handle_t behind it, uv_close()   *)
(* and the delivery of callbacks.                                          *)
(*                                                                         *)
(* PHP destroys an object when its reference count reaches zero.  libuv    *)
(* does not know about that count, so the wrapper keeps a handle alive by  *)
(* zval_add_ref() and by the closures it hands to FFI, which capture the   *)
(* object and live until the request ends.  The count of a handle is       *)
(*    program variables + running callback + closures + (adds - dels).     *)
(***************************************************************************)
EXTENDS Integers

CONSTANTS
  Handles,      \* the UV objects a program may create
  Kinds,        \* the handle classes the program uses
  NoHandle,     \* "no callback is running"
  ClosesTwice,  \* whether the program may uv_close() a handle again
  MaxClosures,  \* bound: FFI closures that capture one handle
  MaxPins       \* bound: zval_add_ref()s outstanding on one handle

AllKinds == {"async", "timer", "idle", "prepare", "check",
             "signal", "poll", "fs_poll", "fs_event",
             "tcp", "pipe", "tty", "udp", "process"}

ASSUME HandlerAssumption ==
  /\ NoHandle \notin Handles
  /\ Kinds \subseteq AllKinds
  /\ ClosesTwice \in BOOLEAN
  /\ MaxClosures \in Nat
  /\ MaxPins \in Nat

VARIABLES
  kind,      \* the class of each object, "none" until it is constructed
  object,    \* the PHP object: "none", "live" or "destroyed"
  native,    \* the uv_handle_t: "none", "inactive", "active", "closing", "closed"
  held,      \* whether a program variable refers to the object
  closures,  \* FFI closures that capture the object
  pins,      \* zval_add_ref() calls minus zval_del_ref() calls, and references
             \* that other objects of the wrapper have to it
  onClose,   \* whether uv_close() was given a callback
  running,   \* the handle whose callback the loop is in, or NoHandle
  entry      \* that callback: "event", "close", or "none"

handlerVars == <<kind, object, native, held, closures, pins, onClose, running, entry>>

HandlerTypeOK ==
  /\ kind \in [Handles -> AllKinds \cup {"none"}]
  /\ object \in [Handles -> {"none", "live", "destroyed"}]
  /\ native \in [Handles -> {"none", "inactive", "active", "closing", "closed"}]
  /\ held \in [Handles -> BOOLEAN]
  /\ closures \in [Handles -> Nat]
  /\ pins \in [Handles -> Int]
  /\ onClose \in [Handles -> BOOLEAN]
  /\ running \in Handles \cup {NoHandle}
  /\ entry \in IF running = NoHandle THEN {"none"} ELSE {"event", "close"}

HandlerInit ==
  /\ kind = [h \in Handles |-> "none"]
  /\ object = [h \in Handles |-> "none"]
  /\ native = [h \in Handles |-> "none"]
  /\ held = [h \in Handles |-> FALSE]
  /\ closures = [h \in Handles |-> 0]
  /\ pins = [h \in Handles |-> 0]
  /\ onClose = [h \in Handles |-> FALSE]
  /\ running = NoHandle
  /\ entry = "none"

------------------------------------------------------------------------------

One(b) == IF b THEN 1 ELSE 0

References(h) == One(held[h]) + One(running = h) + closures[h] + pins[h]

\* A reference to h may have been released: PHP runs the destructor at zero.
\* free() drops the pointers and does not close the handle.
Settle(h) ==
  object' = [object EXCEPT ![h] = IF References(h)' =< 0 THEN "destroyed" ELSE @]

\* To call a function on h the program needs h in a variable or as the
\* argument of the callback it is in.
CanCall(h) == object[h] = "live" /\ (held[h] \/ running = h)

IsClosing(h) == native[h] \in {"closing", "closed"}

\* `new self('struct _php_uv_s', ...)` followed by the uv_*_init() of class k.
\* An async handle's callback is given to init, which also starts the handle.
Construct(h, k, success) ==
  /\ object[h] = "none"
  /\ k # "fs_event"
  /\ kind' = [kind EXCEPT ![h] = k]
  /\ native' = [native EXCEPT ![h] =
                  IF ~success THEN @ ELSE IF k = "async" THEN "active" ELSE "inactive"]
  /\ held' = [held EXCEPT ![h] = success]
  /\ closures' = [closures EXCEPT ![h] = One(k = "async")]
  /\ object' = [object EXCEPT ![h] =
                  IF success \/ k = "async" THEN "live" ELSE "destroyed"]
  /\ UNCHANGED <<pins, onClose, running, entry>>

\* uv_close() and what close() does to the count around it.
CloseNow(h, callback, refs) ==
  /\ CanCall(h)
  /\ callback => closures[h] < MaxClosures
  /\ native' = [native EXCEPT ![h] = "closing"]
  /\ onClose' = [onClose EXCEPT ![h] = callback]
  /\ closures' = [closures EXCEPT ![h] = @ + One(callback)]
  /\ pins' = [pins EXCEPT ![h] = @ + refs]
  /\ UNCHANGED <<kind, held, running, entry>>
  /\ Settle(h)

\* Mutants: the reference is added whether or not the handle is active; the
\* closing guard is dropped.
CloseAlwaysPins(h, callback) == ~IsClosing(h) /\ CloseNow(h, callback, 0)
CloseUnguarded(h, callback) == CloseNow(h, callback, One(native[h] # "active") - 1)

\* close(): an inactive handle gets a reference first, and it is given back
\* once uv_close() is done; an active one loses the reference of its start.
CloseHandle(h, callback) ==
  /\ ~IsClosing(h)
  /\ CloseNow(h, callback, One(native[h] # "active") - 1)

\* close() of a handle that is closing or closed warns and returns, after the
\* reference was added.
CloseAgain(h) ==
  /\ ClosesTwice
  /\ CanCall(h)
  /\ IsClosing(h)
  /\ pins[h] < MaxPins
  /\ pins' = [pins EXCEPT ![h] = @ + 1]
  /\ UNCHANGED <<kind, object, native, held, closures, onClose, running, entry>>

\* The uv_handle_t is closed, and the callback is entered or not.
Closed(h, enter) ==
  /\ running = NoHandle
  /\ native[h] = "closing"
  /\ native' = [native EXCEPT ![h] = "closed"]
  /\ IF enter THEN running' = h /\ entry' = "close"
              ELSE UNCHANGED <<running, entry>>
  /\ UNCHANGED <<kind, object, held, closures, pins, onClose>>

\* Mutants: a callback is run for a variable's handle only; a close without a
\* callback is never finished.
CloseCallbackIfHeld(h) == Closed(h, onClose[h] /\ held[h])
CloseCallbackRequired(h) == onClose[h] /\ Closed(h, TRUE)

\* The loop finishes a close and calls the callback, if there is one.
CloseCallback(h) == Closed(h, onClose[h])

------------------------------------------------------------------------------

\* The program forgets its variable, or keeps the argument of a callback.
Forget(h) ==
  /\ held[h] /\ object[h] = "live"
  /\ held' = [held EXCEPT ![h] = FALSE]
  /\ UNCHANGED <<kind, native, closures, pins, onClose, running, entry>>
  /\ Settle(h)

Keep(h) ==
  /\ running = h /\ ~held[h]
  /\ held' = [held EXCEPT ![h] = TRUE]
  /\ UNCHANGED <<kind, object, native, closures, pins, onClose, running, entry>>
==============================================================================
