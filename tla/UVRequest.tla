----------------------------- MODULE UVRequest -----------------------------
(***************************************************************************)
(* Requests: what a program asks libuv for once and gets an answer to, as  *)
(* against handles, which call back again and again.  Every class of       *)
(* request shares the base class UVRequest and the life described here;    *)
(* UVTransport has the requests made of a handle, UVPool those that work   *)
(* in libuv's thread pool.                                                 *)
(*                                                                         *)
(* A request is an object of its own.  FFI frees its C struct with the     *)
(* object, so the object has to live until libuv has answered.  No         *)
(* variable of the program refers to it (uv_queue_work() gives it one, of  *)
(* which nothing depends), only the closure made for the answer, which     *)
(* lives until the end, and zval_add_ref().                                *)
(***************************************************************************)
EXTENDS UVHandler

CONSTANTS
  Requests,  \* the request objects
  NoRequest  \* "no request is being answered"

ASSUME RequestAssumption == NoRequest \notin Requests

VARIABLES
  req,     \* the requests, see NewRequest
  serving  \* the request whose callback the loop is in, or NoRequest

requestVars == <<req, serving>>

\* `refs` are the references to a request's object, `buffer` those to the
\* UVBuffer of its data, once the function that made them has returned; `freed`
\* says whether free() was called on it.
NewRequest ==
  [kind |-> "none", handle |-> NoHandle, callback |-> FALSE, state |-> "none",
   refs |-> 0, buffer |-> 0, freed |-> FALSE]

HandleRequests == {"write", "shutdown", "connect", "send"}
PoolRequests == {"fs", "getaddrinfo", "getnameinfo", "work"}

RequestType ==
  [kind : {"none"} \cup HandleRequests \cup PoolRequests,
   handle : Handles \cup {NoHandle}, callback : BOOLEAN,
   state : {"none", "pending", "failed", "done"},
   refs : Int, buffer : Int, freed : BOOLEAN]

RequestTypeOK ==
  /\ req \in [Requests -> RequestType]
  /\ serving \in Requests \cup {NoRequest}

RequestInit ==
  /\ req = [r \in Requests |-> NewRequest]
  /\ serving = NoRequest

------------------------------------------------------------------------------

Pending(r) == req[r].state = "pending"

PendingOn(h) == {r \in Requests : Pending(r) /\ req[r].handle = h}

\* libuv is given a new request, and takes it, refuses it, or is done at once.
Submit(r, k, h, callback, state, refs, buffer) ==
  /\ req[r].state = "none"
  /\ req' = [req EXCEPT ![r] =
       [kind |-> k, handle |-> h, callback |-> callback, state |-> state,
        refs |-> refs, buffer |-> buffer, freed |-> FALSE]]
  /\ UNCHANGED serving

\* No callback is running.
Polling == running = NoHandle /\ serving = NoRequest

\* libuv answers: it is done with the request, and the callback is entered.  A
\* shutdown waits for the writes before it.
Answer(r) ==
  /\ Polling
  /\ Pending(r)
  /\ req[r].kind = "shutdown" => \A q \in PendingOn(req[r].handle) : req[q].kind # "write"
  /\ req' = [req EXCEPT ![r].state = "done"]
  /\ IF req[r].callback
       THEN /\ serving' = r
            /\ running' = req[r].handle
            /\ entry' = IF req[r].handle = NoHandle THEN "none" ELSE "event"
       ELSE UNCHANGED <<running, entry, serving>>
  /\ UNCHANGED <<kind, object, native, held, closures, pins, onClose>>

\* The callback returns, and the closure gives back references to the request
\* and the buffer.
Answered(r, given, buffers) ==
  /\ serving = r
  /\ req' = [req EXCEPT ![r].refs = @ - given, ![r].buffer = @ - buffers]
  /\ serving' = NoRequest

------------------------------------------------------------------------------
(* What a request promises *)

\* The C struct of a request that libuv works on is there until it has answered,
\* and as long as the callback runs ("Pointers ... must remain valid for the
\* duration of the requested operation", UV.php).  Each class keeps its requests
\* in another way.
RequestAlive ==
  \A r \in Requests : Pending(r) \/ serving = r => req[r].refs > 0 /\ ~req[r].freed

\* When a request was answered to a callback its buffer is given back, and so is
\* its object, of every class but shutdown and fs; never twice, of any class.
RequestReclaimed ==
  \A r \in Requests :
    req[r].state = "done" /\ req[r].callback /\ serving # r =>
      /\ req[r].buffer = 0 /\ req[r].refs >= 0
      /\ req[r].kind \notin {"shutdown", "fs"} => req[r].refs = 0 \/ req[r].freed
==============================================================================
