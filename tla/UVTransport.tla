---------------------------- MODULE UVTransport ----------------------------
(***************************************************************************)
(* Handles that carry data: the streams UVTcp, UVPipe and UVTty, and       *)
(* UVUdp, with the requests a program makes of them: UVWriter, UVShutdown, *)
(* UVConnect and UVUdpSend.  The closures made for events and answers      *)
(* capture the handle and are never given back.                            *)
(*                                                                         *)
(* The program is assumed to ask nothing of a handle it has closed.        *)
(* Whether a request makes its handle active is as in libuv for Unix.      *)
(***************************************************************************)
EXTENDS UVRequest

CONSTANT
  Tidy  \* whether the program keeps the variable of a UDP handle that sends,
        \* and stops receiving only when it receives

ASSUME TransportAssumption == Tidy \in BOOLEAN

VARIABLES
  opened,  \* whether the handle has a file descriptor
  mode     \* what it was started for: "idle", "reading" or "listening"

transportVars == <<opened, mode>>

TransportTypeOK ==
  /\ opened \in [Handles -> BOOLEAN]
  /\ mode \in [Handles -> {"idle", "reading", "listening"}]

TransportInit ==
  /\ opened = [h \in Handles |-> FALSE]
  /\ mode = [h \in Handles |-> "idle"]

StreamKinds == {"tcp", "pipe", "tty"}

------------------------------------------------------------------------------
(* What the operations below have in common *)

CanUse(h, kinds) ==
  /\ kind[h] \in kinds /\ CanCall(h)
  /\ ~IsClosing(h)

\* A function that gives libuv `made` closures which capture the handle, also
\* if libuv refuses.
Starts(h, kinds, made) ==
  /\ CanUse(h, kinds)
  /\ closures[h] + made =< MaxClosures
  /\ closures' = [closures EXCEPT ![h] = @ + made]

Activate(h, m) ==
  /\ native' = [native EXCEPT ![h] = "active"]
  /\ mode' = [mode EXCEPT ![h] = m]

\* The loop calls h's callback.
Enter(h, refs, state) ==
  /\ Polling
  /\ native[h] = "active"
  /\ pins[h] + refs =< MaxPins
  /\ running' = h /\ entry' = "event"
  /\ pins' = [pins EXCEPT ![h] = @ + refs]
  /\ native' = [native EXCEPT ![h] = state]
  /\ mode' = [mode EXCEPT ![h] = IF state = "active" THEN @ ELSE "idle"]
  /\ UNCHANGED <<kind, object, held, closures, onClose, opened>> /\ UNCHANGED requestVars

------------------------------------------------------------------------------
(* Streams *)

\* uv_tcp_init(), uv_pipe_init(), uv_tty_init(), uv_udp_init()
Make(h, k, success) ==
  /\ Construct(h, k, success)
  /\ opened' = [opened EXCEPT ![h] = success /\ k = "tty"]
  /\ UNCHANGED mode /\ UNCHANGED requestVars

\* uv_*_open() and uv_*_bind()
Open(h) ==
  /\ CanUse(h, StreamKinds \cup {"udp"})
  /\ opened' = [opened EXCEPT ![h] = TRUE]
  /\ UNCHANGED <<kind, object, native, held, closures, pins, onClose, running, entry, mode>>
  /\ UNCHANGED requestVars

\* uv_accept(), which wants both sides of one class and changes the client.
Accept(h) == kind[h] \in {"tcp", "pipe"} /\ Open(h)

\* UVStream::read().  A second start is refused by libuv.
ReadStart(h, success) ==
  /\ Starts(h, StreamKinds, 1)
  /\ opened[h]
  /\ IF success THEN mode[h] = "idle" /\ Activate(h, "reading") ELSE UNCHANGED <<native, mode>>
  /\ UNCHANGED <<kind, object, held, pins, onClose, running, entry, opened>>
  /\ UNCHANGED requestVars

ReadStop(h) ==
  /\ CanUse(h, StreamKinds)
  /\ mode[h] = "reading"
  /\ native' = [native EXCEPT ![h] = "inactive"]
  /\ mode' = [mode EXCEPT ![h] = "idle"]
  /\ UNCHANGED <<kind, object, held, closures, pins, onClose, running, entry, opened>>
  /\ UNCHANGED requestVars

\* uv_listen(), which gives back a reference when libuv refuses.
Listen(h, success) ==
  /\ Starts(h, {"tcp", "pipe"}, 1)
  /\ IF success
       THEN mode[h] # "reading" /\ Activate(h, "listening") /\ UNCHANGED pins
       ELSE pins' = [pins EXCEPT ![h] = @ - 1] /\ UNCHANGED <<native, mode>>
  /\ UNCHANGED <<kind, held, onClose, running, entry, opened>>
  /\ UNCHANGED requestVars
  /\ Settle(h)

\* Data and the end of it add a reference, errors and empty reads do not.  The
\* end stops the handle; an error does so before or after the callback.
ReadEvent(h, result) ==
  /\ kind[h] \in StreamKinds /\ mode[h] = "reading"
  /\ \/ result = "data" /\ Enter(h, 1, "active")
     \/ result = "empty" /\ Enter(h, 0, "active")
     \/ result = "eof" /\ Enter(h, 1, "inactive")
     \/ result = "error" /\ \E state \in {"active", "inactive"} : Enter(h, 0, state)

\* A connection adds a reference.
ConnectionEvent(h) == mode[h] = "listening" /\ Enter(h, 1, "active")

------------------------------------------------------------------------------
(* Datagrams *)

\* UVUdp::recv() makes two closures, for the memory and for the data, and is
\* refused while the handle is active, also when it only sends.
RecvStart(h, success) ==
  /\ native[h] # "active"
  /\ Starts(h, {"udp"}, 2)
  /\ opened' = [opened EXCEPT ![h] = @ \/ success]
  /\ IF success THEN Activate(h, "reading") ELSE UNCHANGED <<native, mode>>
  /\ UNCHANGED <<kind, object, held, pins, onClose, running, entry>>
  /\ UNCHANGED requestVars

\* UVUdp::stop() gives back a reference if the handle is active.  libuv may
\* keep it active for what it has still to send.
RecvStop(h) ==
  /\ kind[h] = "udp" /\ CanCall(h)
  /\ native[h] = "active"
  /\ Tidy => mode[h] = "reading"
  /\ mode' = [mode EXCEPT ![h] = "idle"]
  /\ \E state \in {"inactive", "active"} :
       /\ state = "active" => PendingOn(h) # {}
       /\ native' = [native EXCEPT ![h] = state]
  /\ pins' = [pins EXCEPT ![h] = @ - 1]
  /\ UNCHANGED <<kind, held, closures, onClose, running, entry, opened>>
  /\ UNCHANGED requestVars
  /\ Settle(h)

RecvEvent(h) == kind[h] = "udp" /\ mode[h] = "reading" /\ Enter(h, 0, "active")

------------------------------------------------------------------------------
(* Requests *)

\* A request to a handle.
SubmitTo(h, r, k, callback, success, refs, buffer) ==
  /\ Submit(r, k, h, callback, IF success THEN "pending" ELSE "failed", refs, buffer)
  /\ UNCHANGED <<kind, object, held, pins, onClose, running, entry>>

WriteRequest(r, h, callback, success, refs) ==
  /\ Starts(h, StreamKinds, One(callback))
  /\ success => opened[h]
  /\ SubmitTo(h, r, "write", callback, success, refs, One(callback) - One(~success))
  /\ UNCHANGED <<native, opened, mode>>

\* Mutant: the closure that stands in for a missing callback is static.
WriteUnbound(r, h, callback, success) ==
  WriteRequest(r, h, callback, success, One(callback) - One(~success))

\* UVWriter::write() and write2().  Every closure is bound to the request, only
\* that of a callback captures the buffer; if libuv refuses, one reference to
\* either is given back.  write2() takes none to the handle it sends.
Write(r, h, callback, success) ==
  WriteRequest(r, h, callback, success, 1 - One(~success))

\* UVShutdown::shutdown() adds a reference, which a failure gives back.
Shutdown(r, h, callback, success) ==
  /\ Starts(h, StreamKinds, One(callback))
  /\ success => opened[h]
  /\ SubmitTo(h, r, "shutdown", callback, success, 1 + One(callback) - One(~success), 0)
  /\ UNCHANGED <<native, opened, mode>>

\* UVTcp::connect() and UVPipe::connect(), which does not fail.
Connect(r, h, success) ==
  /\ Starts(h, {"tcp", "pipe"}, 1)
  /\ kind[h] = "pipe" => success
  /\ SubmitTo(h, r, "connect", TRUE, success, 1, 0)
  /\ opened' = [opened EXCEPT ![h] = @ \/ success]
  /\ UNCHANGED <<native, mode>>

\* UVUdp::send().  A handle is active while it sends.
Send(r, h, success) ==
  /\ Starts(h, {"udp"}, 1)
  /\ SubmitTo(h, r, "send", TRUE, success, 1, 1)
  /\ opened' = [opened EXCEPT ![h] = @ \/ success]
  /\ native' = [native EXCEPT ![h] = IF success THEN "active" ELSE @]
  /\ UNCHANGED mode

HasBuffer(r) == req[r].kind \in {"write", "send"}

AnswerEnd(r, h, buffers, ofHandle) ==
  /\ req[r].kind \in HandleRequests
  /\ Answered(r, 1, buffers)
  /\ running = h
  /\ running' = NoHandle /\ entry' = "none"
  /\ pins' = [pins EXCEPT ![h] = @ - ofHandle]
  /\ native' = [native EXCEPT ![h] =
       IF @ = "active" /\ mode[h] = "idle" /\ PendingOn(h) = {} THEN "inactive" ELSE @]
  /\ UNCHANGED <<kind, held, closures, onClose, opened, mode>>
  /\ Settle(h)

\* Mutants: the buffer is kept; a sender is released also when it is closing.
AnswerKeepsBuffer(r, h) == AnswerEnd(r, h, 0, One(req[r].kind = "send" /\ ~IsClosing(h)))
AnswerReleasesClosing(r, h) == AnswerEnd(r, h, One(HasBuffer(r)), One(req[r].kind = "send"))

\* The callback returns.  The closure gives back a reference to the request,
\* one to the buffer, and one to a handle that sent, unless uv_close() has.
AnswerReturn(r, h) ==
  AnswerEnd(r, h, One(HasBuffer(r)), One(req[r].kind = "send" /\ ~IsClosing(h)))

------------------------------------------------------------------------------

\* The callback returns, and gives back `refs` references of its handle.
Leave(h, refs) ==
  /\ running = h /\ serving = NoRequest
  /\ running' = NoHandle /\ entry' = "none"
  /\ pins' = [pins EXCEPT ![h] = @ - refs]
  /\ UNCHANGED <<kind, native, held, closures, onClose>>
  /\ UNCHANGED transportVars /\ UNCHANGED requestVars
  /\ Settle(h)

\* The callback of an event or of uv_close() returns.
EventReturn(h) == kind[h] # "process" /\ Leave(h, 0)

\* uv_close(); libuv answers a handle's requests before it is closed.
Close(h, callback) == CloseHandle(h, callback) /\ UNCHANGED transportVars /\ UNCHANGED requestVars
CloseTwice(h) == CloseAgain(h) /\ UNCHANGED transportVars /\ UNCHANGED requestVars
FinishClose(h) ==
  /\ Polling /\ PendingOn(h) = {}
  /\ CloseCallback(h) /\ UNCHANGED transportVars /\ UNCHANGED requestVars

ForgetHandle(h) ==
  /\ Tidy /\ kind[h] = "udp" => PendingOn(h) = {}
  /\ Forget(h) /\ UNCHANGED transportVars /\ UNCHANGED requestVars

KeepHandle(h) == Keep(h) /\ UNCHANGED transportVars /\ UNCHANGED requestVars

Program(h) ==
  \/ \E k \in Kinds \cap (StreamKinds \cup {"udp"}), success \in BOOLEAN : Make(h, k, success)
  \/ Open(h)
  \/ Accept(h)
  \/ \E success \in BOOLEAN : ReadStart(h, success) \/ Listen(h, success) \/ RecvStart(h, success)
  \/ ReadStop(h)
  \/ RecvStop(h)
  \/ \E callback \in BOOLEAN : Close(h, callback)
  \/ CloseTwice(h)
  \/ ForgetHandle(h)
  \/ KeepHandle(h)

Request(r, h) ==
  \E success \in BOOLEAN :
    \/ \E callback \in BOOLEAN : \/ Write(r, h, callback, success)
                                 \/ Shutdown(r, h, callback, success)
    \/ Connect(r, h, success)
    \/ Send(r, h, success)

Events(h) ==
  \/ \E result \in {"data", "empty", "eof", "error"} : ReadEvent(h, result)
  \/ ConnectionEvent(h)
  \/ RecvEvent(h)
  \/ EventReturn(h)
  \/ FinishClose(h)

HandleAnswer(r) ==
  \/ req[r].kind \in HandleRequests /\ Answer(r) /\ UNCHANGED transportVars
  \/ \E h \in Handles : AnswerReturn(r, h)

TransportNext ==
  \/ \E h \in Handles : Program(h) \/ Events(h) \/ \E r \in Requests : Request(r, h)
  \/ \E r \in Requests : HandleAnswer(r)

------------------------------------------------------------------------------
(* What a callback finds *)

Awaited(h) == {r \in PendingOn(h) : req[r].callback}

\* libuv will call into h, or the program can name it.
InUse(h) ==
  \/ native[h] = "active"
  \/ Awaited(h) # {}
  \/ native[h] = "closing" /\ onClose[h]
  \/ held[h]
  \/ running = h

\* Nobody meets a destroyed handle: not the events, not the answers to requests
\* in any order with uv_close(), not the close callback, not a variable, if the
\* program is tidy about its UDP handles.  Each kind of callback counts on
\* another reference, and close() takes one from an active handle.
NoUseAfterDestroy == \A h \in Handles : InUse(h) => object[h] = "live"

\* A datagram's callback finds its handle when uv_close() came before it: "uv_close()
\* will thus *not* increment the refcount and we must then not delete the refcount
\* here" (UVHandles.php).  But close() does take one from an active handle.
SenderAlive ==
  \A h \in Handles : kind[h] = "udp" /\ IsClosing(h) /\ Awaited(h) # {} => object[h] = "live"
==============================================================================
