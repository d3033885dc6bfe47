--------------------------- MODULE UVSystemProofs ---------------------------
(***************************************************************************)
(* Proofs about streams, datagrams, requests and files on one loop, for    *)
(* any sets of them and any bounds.  The inductive invariant counts: what  *)
(* keeps a handle covers everything libuv still has to call it for, and    *)
(* what keeps a request is exactly what the end of its callback gives      *)
(* back.  UDP handles are counted only if the program is tidy about them.  *)
(***************************************************************************)
EXTENDS UVSystem, FiniteSetTheorems, TLAPS

\* The requests of h that libuv has, or whose callback runs.
OpenOn(h) == {r \in Requests : req[r].handle = h /\ (Pending(r) \/ serving = r)}

\* What keeps a handle beside the program's variables and the running callback.
Kept(h) == closures[h] + pins[h]

\* A handle nobody has made yet, and one that somebody has.
MadeInv(h) ==
  /\ object[h] = "none" =>
       /\ kind[h] = "none" /\ native[h] = "none" /\ ~held[h] /\ running # h /\ ~onClose[h]
       /\ closures[h] = 0 /\ pins[h] = 0 /\ mode[h] = "idle"
       /\ \A r \in Requests : req[r].handle # h
  /\ object[h] # "none" => kind[h] \in StreamKinds \cup {"udp"}

\* A destroyed handle has no references left.
DestroyedInv(h) ==
  object[h] = "destroyed" => ~held[h] /\ running # h /\ Kept(h) =< 0

\* A stream has a closure for its start, one for its requests and one for its
\* close, less the reference that close() takes from an active one.
StreamInv(h) ==
  kind[h] \in StreamKinds =>
    Kept(h) >= One(native[h] = "active") + One(onClose[h]) + One(Awaited(h) # {})

\* A UDP handle has a reference for every datagram on its way, and two while it
\* receives.  Its event callback, which may stop receiving, send and close, finds
\* one more.  Once it is closing a datagram finds it by a reference or a variable.
UdpInv(h) ==
  kind[h] = "udp" =>
    /\ mode[h] # "listening"
    /\ native[h] = "active" => mode[h] = "reading" \/ OpenOn(h) # {}
    /\ ~IsClosing(h) =>
         /\ mode[h] = "reading" => native[h] = "active"
         /\ Kept(h) >= Cardinality(OpenOn(h)) + 2 * One(mode[h] = "reading")
         /\ running = h /\ serving = NoRequest =>
              Kept(h) > Cardinality(OpenOn(h)) + One(mode[h] = "reading")
         /\ ~onClose[h]
    /\ IsClosing(h) =>
         /\ Kept(h) >= One(onClose[h])
         /\ PendingOn(h) # {} => held[h] \/ Kept(h) > 0

HandleInv(h) ==
  MadeInv(h) /\ DestroyedInv(h) /\ StreamInv(h) /\ UdpInv(h)

\* The references of a stream can always be counted on, those of a UDP handle
\* only if the program is tidy.
Counted(h) == Tidy \/ kind[h] # "udp"

HandleOK(h) == MadeInv(h) /\ (Counted(h) => HandleInv(h))

\* Whose request it is, and what is left to give back: exactly what the end of
\* its callback gives back.
RequestInv(r) ==
  /\ req[r].state = "none" => req[r] = NewRequest
  /\ req[r].kind \in PoolRequests \cup {"none"} => req[r].handle = NoHandle
  /\ req[r].kind \in HandleRequests =>
       /\ req[r].handle \in Handles
       /\ IF req[r].kind = "send" THEN kind[req[r].handle] = "udp" /\ req[r].callback
                                  ELSE kind[req[r].handle] \in StreamKinds
  /\ serving = r => req[r].state = "done" /\ req[r].callback /\ running = req[r].handle
  /\ Pending(r) \/ serving = r =>
       /\ ~req[r].freed
       /\ req[r].refs = IF req[r].kind = "shutdown" /\ req[r].callback THEN 2 ELSE 1
       /\ req[r].callback /\ req[r].kind # "fs" => req[r].buffer = One(HasBuffer(r))
  /\ req[r].state = "done" /\ req[r].callback /\ serving # r =>
       /\ req[r].buffer = 0 /\ req[r].refs >= 0
       /\ req[r].kind \notin {"shutdown", "fs"} => req[r].refs = 0 \/ req[r].freed

\* What the pool has of a request.
PoolInv(r) ==
  /\ req[r].kind # "fs" => fs[r].op = "none" /\ fs[r].fd_alt = NoFile
  /\ req[r].kind = "fs" /\ (Pending(r) \/ serving = r) =>
       /\ req[r].callback /\ ~fs[r].clean
       /\ fs[r].op \in {"read", "write"} => req[r].buffer > 0
       /\ fs[r].op \in FileFunctions => fs[r].fd_alt # NoFile

\* A closed file is still listed only while somebody works on it.
FileInv(f) == file[f].state = "closed" /\ file[f].listed => Busy(f)

SystemInv ==
  /\ TypeOK
  /\ \A h \in Handles : HandleOK(h)
  /\ \A r \in Requests : RequestInv(r) /\ PoolInv(r)
  /\ \A f \in Files : FileInv(f)

------------------------------------------------------------------------------

\* A new request, an answer and the end of a callback leave records complete.
LEMMA SubmitTyped ==
  ASSUME RequestTypeOK, NEW r \in Requests, NEW k \in HandleRequests \cup PoolRequests,
         NEW h \in Handles \cup {NoHandle}, NEW callback \in BOOLEAN,
         NEW state \in {"pending", "failed", "done"}, NEW refs \in Int, NEW buffer \in Int,
         Submit(r, k, h, callback, state, refs, buffer)
  PROVE  RequestTypeOK'
BY DEF Submit, RequestTypeOK, RequestType

LEMMA AnswerTyped ==
  ASSUME HandlerTypeOK, RequestTypeOK, NEW r \in Requests, Answer(r)
  PROVE  HandlerTypeOK' /\ RequestTypeOK'
<1> USE DEF Answer, Polling, Pending, RequestTypeOK, RequestType
<1>1. req' \in [Requests -> RequestType]
  OBVIOUS
<1>2. serving' \in Requests \cup {NoRequest}
  OBVIOUS
<1>3. req[r].handle \in Handles \cup {NoHandle} /\ req[r].callback \in BOOLEAN
  OBVIOUS
<1>4. HandlerTypeOK'
  BY <1>3, HandlerAssumption DEF HandlerTypeOK, HandlerAssumption
<1> QED
  BY <1>1, <1>2, <1>4

LEMMA AnsweredTyped ==
  ASSUME RequestTypeOK, NEW r \in Requests, NEW given \in Int, NEW buffers \in Int,
         Answered(r, given, buffers)
  PROVE  RequestTypeOK'
<1>1. req[r].refs - given \in Int /\ req[r].buffer - buffers \in Int
  BY DEF RequestTypeOK, RequestType
<1>2. PICK a \in RequestType :
        a = [req[r] EXCEPT !.refs = req[r].refs - given, !.buffer = req[r].buffer - buffers]
  BY <1>1 DEF RequestTypeOK, RequestType
<1>3. req' = [req EXCEPT ![r] = a]
  BY <1>2 DEF Answered, RequestTypeOK, RequestType
<1> QED
  BY <1>3 DEF Answered, RequestTypeOK

LEMMA SettleTyped ==
  ASSUME HandlerTypeOK, NEW h \in Handles, Settle(h)
  PROVE  object' \in [Handles -> {"none", "live", "destroyed"}]
BY DEF Settle, HandlerTypeOK

FileType == [state : {"none", "open", "closed", "invalid"}, listed : BOOLEAN]

LEMMA UnlistedTyped ==
  ASSUME NEW F \in [Files -> FileType], NEW f \in Files \cup {NoFile}
  PROVE  Unlisted(F, f) \in [Files -> FileType]
BY DEF Unlisted, FileType

LEMMA PerformedTyped ==
  ASSUME NEW F \in [Files -> FileType], NEW op, NEW f \in Files \cup {NoFile},
         NEW success \in BOOLEAN
  PROVE  Performed(F, op, f, success) \in [Files -> FileType]
BY DEF Performed, FileType

\* Steps of requests leave the types of all parts as they are.
LEMMA AnswerReturnTyped ==
  ASSUME TypeOK, NEW r \in Requests, NEW h \in Handles, AnswerReturn(r, h), UNCHANGED poolVars
  PROVE  TypeOK'
<1>1. PICK buffers \in Int : Answered(r, 1, buffers)
  <2>1. One(HasBuffer(r)) \in Int
    BY DEF One
  <2> QED
    BY <2>1 DEF AnswerReturn, AnswerEnd
<1>2. RequestTypeOK'
  BY <1>1, AnsweredTyped DEF TypeOK
<1>3. HandlerTypeOK'
  <2>1. object' \in [Handles -> {"none", "live", "destroyed"}]
    BY SettleTyped DEF AnswerReturn, AnswerEnd, TypeOK
  <2>2. native' \in [Handles -> {"none", "inactive", "active", "closing", "closed"}]
    BY DEF AnswerReturn, AnswerEnd, TypeOK, HandlerTypeOK
  <2>3. pins' \in [Handles -> Int]
    BY DEF AnswerReturn, AnswerEnd, TypeOK, HandlerTypeOK, One
  <2> QED
    BY <2>1, <2>2, <2>3 DEF AnswerReturn, AnswerEnd, TypeOK, HandlerTypeOK
<1>4. TransportTypeOK' /\ PoolTypeOK'
  BY DEF AnswerReturn, AnswerEnd, TypeOK, TransportTypeOK, PoolTypeOK, poolVars
<1> QED
  BY <1>2, <1>3, <1>4 DEF TypeOK

LEMMA AskTyped ==
  ASSUME TypeOK, NEW r \in Requests, Ask(r), UNCHANGED transportVars
  PROVE  TypeOK'
<1>1. HandlerTypeOK' /\ TransportTypeOK'
  BY DEF Ask, TypeOK, HandlerTypeOK, TransportTypeOK, handlerVars, transportVars
<1>2. SUFFICES RequestTypeOK' /\ PoolTypeOK'
  BY <1>1 DEF TypeOK
<1> USE DEF PoolRequests
<1>3. RequestTypeOK
  BY DEF TypeOK
<1>4. ASSUME NEW success \in BOOLEAN, NEW callback \in BOOLEAN, GetNameInfo(r, callback, success)
      PROVE  RequestTypeOK' /\ PoolTypeOK'
  <2>1. PICK state \in {"pending", "failed"} : state = IF success THEN "pending" ELSE "failed"
    OBVIOUS
  <2>2. RequestTypeOK'
    <3>1. CASE callback
      <4>1. Submit(r, "getnameinfo", NoHandle, TRUE, state, 1, 0)
        BY <1>4, <2>1, <3>1 DEF GetNameInfo, Queue
      <4> QED
        BY <1>3, <4>1 DEF Submit, RequestTypeOK, RequestType, HandleRequests
    <3>2. CASE ~callback
      <4>1. Submit(r, "getnameinfo", NoHandle, FALSE, "done", -1, 0)
        BY <1>4, <3>2 DEF GetNameInfo, Queue
      <4> QED
        BY <1>3, <4>1 DEF Submit, RequestTypeOK, RequestType, HandleRequests
    <3> QED
      BY <3>1, <3>2
  <2> QED
    BY <1>4, <2>2 DEF GetNameInfo, poolVars, TypeOK, PoolTypeOK
<1>5. ASSUME NEW success \in BOOLEAN, GetAddrInfo(r, success)
      PROVE  RequestTypeOK' /\ PoolTypeOK'
  BY <1>3, <1>5 DEF GetAddrInfo, Queue, Submit, RequestTypeOK, RequestType, HandleRequests, poolVars, TypeOK, PoolTypeOK
<1>6. ASSUME NEW success \in BOOLEAN, QueueWork(r, success)
      PROVE  RequestTypeOK' /\ PoolTypeOK'
  BY <1>3, <1>6 DEF QueueWork, Queue, Submit, RequestTypeOK, RequestType, HandleRequests, poolVars, TypeOK, PoolTypeOK
<1>7. ASSUME NEW success \in BOOLEAN, NEW f \in Files, FsOpenBlock(r, f, success)
      PROVE  RequestTypeOK' /\ PoolTypeOK'
  <2>1. RequestTypeOK'
    BY <1>3, <1>7 DEF FsOpenBlock, Queue, Submit, RequestTypeOK, RequestType, HandleRequests
  <2> QED
    BY <1>7, <2>1 DEF FsOpenBlock, TypeOK, PoolTypeOK, FsFunctions, PathFunctions
<1>8. ASSUME NEW op \in Callers, NEW f \in Files \cup {NoFile}, FsOperation(r, op, f)
      PROVE  RequestTypeOK' /\ PoolTypeOK'
  <2>1. op \in FsFunctions
    BY PoolAssumption DEF PoolAssumption
  <2> USE DEF TypeOK, PoolTypeOK
  <2>2. CASE FsQueue(r, op, f)
    <3>1. RequestTypeOK'
      BY <1>3, <2>2 DEF FsQueue, Queue, Submit, RequestTypeOK, RequestType, HandleRequests, FsQueued, BufferOf, One
    <3> QED
      BY <2>1, <2>2, <3>1 DEF FsQueue, FsQueued
  <2>3. ASSUME NEW callback \in BOOLEAN, FsRefused(r, op, f, callback)
        PROVE  RequestTypeOK' /\ PoolTypeOK'
    <3>1. RequestTypeOK'
      BY <1>3, <2>3 DEF FsRefused, Queue, Submit, RequestTypeOK, RequestType, HandleRequests, One
    <3>2. file' \in [Files -> FileType]
      BY <2>3, UnlistedTyped DEF FsRefused, FileType
    <3> QED
      BY <2>1, <2>3, <3>1, <3>2 DEF FsRefused, FileType
  <2>4. ASSUME NEW success \in BOOLEAN, FsBlock(r, op, f, success)
        PROVE  RequestTypeOK' /\ PoolTypeOK'
    <3>1. RequestTypeOK'
      BY <1>3, <2>4 DEF FsBlock, Queue, Submit, RequestTypeOK, RequestType, HandleRequests
    <3>2. file' \in [Files -> FileType]
      BY <2>4, UnlistedTyped, PerformedTyped DEF FsBlock, FileType
    <3> QED
      BY <2>1, <2>4, <3>1, <3>2 DEF FsBlock, FileType
  <2> QED
    BY <1>8, <2>2, <2>3, <2>4 DEF FsOperation
<1> QED
  BY <1>4, <1>5, <1>6, <1>7, <1>8 DEF Ask

LEMMA PoolAnswerTyped ==
  ASSUME TypeOK, NEW r \in Requests, NEW success \in BOOLEAN, PoolAnswer(r, success),
         UNCHANGED transportVars
  PROVE  TypeOK'
<1>1. HandlerTypeOK' /\ RequestTypeOK'
  BY AnswerTyped DEF PoolAnswer, TypeOK
<1>2. file' \in [Files -> FileType]
  <2>1. file \in [Files -> FileType] /\ fs[r].fd_alt \in Files \cup {NoFile}
    BY DEF TypeOK, PoolTypeOK, FileType
  <2>2. Performed(file, fs[r].op, fs[r].fd_alt, success) \in [Files -> FileType]
    BY <2>1, PerformedTyped
  <2>3. CASE file' = Performed(file, fs[r].op, fs[r].fd_alt, success)
    BY <2>2, <2>3
  <2>4. ASSUME NEW f \in Files, file' = [file EXCEPT ![f] = [state |-> "open", listed |-> TRUE]]
        PROVE  file' \in [Files -> FileType]
    BY <2>1, <2>4 DEF FileType
  <2> QED
    BY <2>3, <2>4 DEF PoolAnswer
<1>3. PoolTypeOK' /\ TransportTypeOK'
  BY <1>2 DEF PoolAnswer, TypeOK, PoolTypeOK, FileType, TransportTypeOK, transportVars
<1> QED
  BY <1>1, <1>3 DEF TypeOK

LEMMA PoolReturnTyped ==
  ASSUME TypeOK, NEW r \in Requests, PoolReturn(r), UNCHANGED transportVars
  PROVE  TypeOK'
<1>1. HandlerTypeOK' /\ TransportTypeOK'
  BY DEF PoolReturn, TypeOK, HandlerTypeOK, TransportTypeOK, handlerVars, transportVars
<1>2. req[r].buffer \in Int /\ RequestTypeOK
  BY DEF TypeOK, RequestTypeOK, RequestType
<1>3. RequestTypeOK'
  <2>1. CASE LookupReturn(r)
    BY <1>2, <2>1, AnsweredTyped DEF LookupReturn
  <2>2. CASE AddrInfoReturn(r)
    BY <1>2, <2>2 DEF AddrInfoReturn, RequestTypeOK, RequestType
  <2>3. CASE FsReturn(r)
    BY <1>2, <2>3, AnsweredTyped DEF FsReturn
  <2> QED
    BY <2>1, <2>2, <2>3 DEF PoolReturn
<1>4. PoolTypeOK'
  <2>1. CASE LookupReturn(r) \/ AddrInfoReturn(r)
    BY <2>1 DEF LookupReturn, AddrInfoReturn, poolVars, TypeOK, PoolTypeOK
  <2>2. CASE FsReturn(r)
    <3>1. file \in [Files -> FileType] /\ fs[r].fd_alt \in Files \cup {NoFile}
      BY DEF TypeOK, PoolTypeOK, FileType
    <3>2. file' \in [Files -> FileType]
      BY <2>2, <3>1, UnlistedTyped DEF FsReturn
    <3>3. fs' \in [Requests -> [op : FsFunctions \cup {"none"}, fd_alt : Files \cup {NoFile},
                               clean : BOOLEAN]]
      BY <2>2 DEF FsReturn, TypeOK, PoolTypeOK
    <3> QED
      BY <3>2, <3>3 DEF PoolTypeOK, FileType
  <2> QED
    BY <2>1, <2>2 DEF PoolReturn
<1> QED
  BY <1>1, <1>3, <1>4 DEF TypeOK

LEMMA TypeStep ==
  ASSUME TypeOK, [Next]_vars
  PROVE  TypeOK'
<1> USE HandlerAssumption, RequestAssumption, PoolAssumption
    DEF HandlerAssumption, RequestAssumption, PoolAssumption
<1> USE DEF TypeOK, HandlerTypeOK, RequestTypeOK, TransportTypeOK, PoolTypeOK, RequestType,
            HandleRequests, PoolRequests, handlerVars, requestVars, transportVars, poolVars
<1> USE DEF One
<1>1. ASSUME NEW h \in Handles, Program(h), UNCHANGED poolVars
      PROVE  TypeOK'
  <2> USE <1>1 DEF CanUse, Starts, Activate, Settle
  <2>1. ASSUME NEW k \in Kinds \cap (StreamKinds \cup {"udp"}), NEW success \in BOOLEAN,
               Make(h, k, success)
        PROVE  TypeOK'
    BY <2>1 DEF Make, Construct, StreamKinds, AllKinds
  <2>2. CASE Open(h)
    BY <2>2 DEF Open
  <2>3. CASE Accept(h)
    BY <2>3 DEF Accept, Open
  <2>4. ASSUME NEW success \in BOOLEAN, ReadStart(h, success)
        PROVE  TypeOK'
    BY <2>4 DEF ReadStart
  <2>5. ASSUME NEW success \in BOOLEAN, Listen(h, success)
        PROVE  TypeOK'
    <3>1. object' \in [Handles -> {"none", "live", "destroyed"}]
      BY <2>5, SettleTyped DEF Listen
    <3>2. CASE success
      BY <2>5, <3>1, <3>2 DEF Listen
    <3>3. CASE ~success
      BY <2>5, <3>1, <3>3 DEF Listen
    <3> QED
      BY <3>2, <3>3
  <2>6. ASSUME NEW success \in BOOLEAN, RecvStart(h, success)
        PROVE  TypeOK'
    BY <2>6 DEF RecvStart
  <2>7. CASE ReadStop(h)
    BY <2>7 DEF ReadStop
  <2>8. CASE RecvStop(h)
    BY <2>8 DEF RecvStop
  <2>9. ASSUME NEW callback \in BOOLEAN, Close(h, callback)
        PROVE  TypeOK'
    BY <2>9 DEF Close, CloseHandle, CloseNow
  <2>10. CASE CloseTwice(h)
    BY <2>10 DEF CloseTwice, CloseAgain
  <2>11. CASE ForgetHandle(h)
    BY <2>11 DEF ForgetHandle, Forget
  <2>12. CASE KeepHandle(h)
    BY <2>12 DEF KeepHandle, Keep
  <2> QED
    BY <1>1, <2>1, <2>2, <2>3, <2>4, <2>5, <2>6, <2>7, <2>8, <2>9, <2>10, <2>11, <2>12
    DEF Program
<1>2. ASSUME NEW h \in Handles, Events(h), UNCHANGED poolVars
      PROVE  TypeOK'
  <2> USE <1>2 DEF Enter, Leave, Settle
  <2>1. ASSUME NEW result \in {"data", "empty", "eof", "error"}, ReadEvent(h, result)
        PROVE  TypeOK'
    <3>1. ASSUME NEW refs \in {0, 1}, NEW state \in {"active", "inactive"}, Enter(h, refs, state)
          PROVE  TypeOK'
      BY <3>1
    <3> QED
      BY <2>1, <3>1 DEF ReadEvent
  <2>2. CASE ConnectionEvent(h)
    BY <2>2 DEF ConnectionEvent
  <2>3. CASE RecvEvent(h)
    BY <2>3 DEF RecvEvent
  <2>4. CASE EventReturn(h)
    BY <2>4 DEF EventReturn
  <2>5. CASE FinishClose(h)
    BY <2>5 DEF FinishClose, CloseCallback, Closed
  <2> QED
    BY <1>2, <2>1, <2>2, <2>3, <2>4, <2>5 DEF Events
<1>3. ASSUME NEW h \in Handles, NEW r \in Requests, Request(r, h), UNCHANGED poolVars
      PROVE  TypeOK'
  <2> USE <1>3 DEF SubmitTo, Submit, Starts, CanUse
  <2>1. ASSUME NEW success \in BOOLEAN, NEW callback \in BOOLEAN, Write(r, h, callback, success)
        PROVE  TypeOK'
    BY <2>1 DEF Write, WriteRequest
  <2>2. ASSUME NEW success \in BOOLEAN, NEW callback \in BOOLEAN, Shutdown(r, h, callback, success)
        PROVE  TypeOK'
    BY <2>2 DEF Shutdown
  <2>3. ASSUME NEW success \in BOOLEAN, Connect(r, h, success)
        PROVE  TypeOK'
    BY <2>3 DEF Connect
  <2>4. ASSUME NEW success \in BOOLEAN, Send(r, h, success)
        PROVE  TypeOK'
    BY <2>4 DEF Send
  <2> QED
    BY <1>3, <2>1, <2>2, <2>3, <2>4 DEF Request
<1>4. ASSUME NEW r \in Requests, HandleAnswer(r), UNCHANGED poolVars
      PROVE  TypeOK'
  <2>1. CASE req[r].kind \in HandleRequests /\ Answer(r) /\ UNCHANGED transportVars
    BY <1>4, <2>1 DEF Answer, Polling, Pending
  <2>2. ASSUME NEW h \in Handles, AnswerReturn(r, h)
        PROVE  TypeOK'
    BY <1>4, <2>2, AnswerReturnTyped
  <2> QED
    BY <1>4, <2>1, <2>2 DEF HandleAnswer
<1>5. ASSUME NEW r \in Requests, Ask(r), UNCHANGED transportVars
      PROVE  TypeOK'
  BY <1>5, AskTyped
<1>6. ASSUME NEW r \in Requests, NEW success \in BOOLEAN, PoolAnswer(r, success),
             UNCHANGED transportVars
      PROVE  TypeOK'
  BY <1>6, PoolAnswerTyped
<1>7. ASSUME NEW r \in Requests, PoolReturn(r), UNCHANGED transportVars
      PROVE  TypeOK'
  BY <1>7, PoolReturnTyped
<1>8. CASE UNCHANGED vars
  BY <1>8 DEF vars
<1> QED
  BY <1>1, <1>2, <1>3, <1>4, <1>5, <1>6, <1>7, <1>8 DEF Next, TransportNext, PoolNext

\* Every variable keeps its type: closures are never given back, a callback's
\* kind is recorded exactly while one runs, and a request's record is complete.
THEOREM TypeCorrect == Spec => []TypeOK
<1>1. Init => TypeOK
  BY HandlerAssumption, RequestAssumption, PoolAssumption
  DEF Init, HandlerInit, RequestInit, TransportInit, PoolInit, NewRequest, TypeOK, HandlerTypeOK,
      RequestTypeOK, TransportTypeOK, PoolTypeOK, RequestType, HandlerAssumption,
      RequestAssumption, PoolAssumption
<1>2. TypeOK /\ [Next]_vars => TypeOK'
  BY TypeStep
<1>3. QED
  BY <1>1, <1>2, PTL DEF Spec
------------------------------------------------------------------------------
(* Handles *)

\* How many requests of h are open.
LEMMA OpenCount ==
  ASSUME NEW h \in Handles
  PROVE  /\ Cardinality(OpenOn(h)) \in Nat
         /\ Cardinality(OpenOn(h)) = 0 <=> OpenOn(h) = {}
         /\ Awaited(h) \subseteq PendingOn(h) /\ PendingOn(h) \subseteq OpenOn(h)
<1>1. IsFiniteSet(OpenOn(h))
  BY FS_Subset, SystemAssumption DEF OpenOn, SystemAssumption
<1> QED
  BY <1>1, FS_CardinalityType, FS_EmptySet DEF OpenOn, PendingOn, Awaited

\* A step leaves g alone: its variables, and its requests.
SameHandle(g) ==
  /\ kind'[g] = kind[g] /\ object'[g] = object[g] /\ native'[g] = native[g]
  /\ held'[g] = held[g] /\ closures'[g] = closures[g] /\ pins'[g] = pins[g]
  /\ onClose'[g] = onClose[g] /\ mode'[g] = mode[g]
  /\ running' = g <=> running = g

SameRequests(g) ==
  /\ OpenOn(g)' = OpenOn(g) /\ PendingOn(g)' = PendingOn(g) /\ Awaited(g)' = Awaited(g)
  /\ (\A r \in Requests : req[r].handle # g) => (\A r \in Requests : req'[r].handle # g)

LEMMA Frame ==
  ASSUME NEW g \in Handles, HandleInv(g), SameHandle(g), SameRequests(g),
         running = g => (serving' = NoRequest <=> serving = NoRequest)
  PROVE  HandleInv(g)'
<1> USE DEF SameHandle, SameRequests
<1>1. MadeInv(g)'
  BY DEF HandleInv, MadeInv
<1>2. DestroyedInv(g)'
  BY DEF HandleInv, DestroyedInv, Kept
<1>3. StreamInv(g)'
  BY DEF HandleInv, StreamInv, Kept, One
<1>4. UdpInv(g)'
  BY DEF HandleInv, UdpInv, Kept, One, IsClosing
<1> QED
  BY <1>1, <1>2, <1>3, <1>4 DEF HandleInv

LEMMA RequestsSame ==
  ASSUME UNCHANGED requestVars, NEW g
  PROVE  SameRequests(g)
BY DEF requestVars, SameRequests, OpenOn, PendingOn, Awaited, Pending

\* A step that only h is concerned by.
LEMMA OneHandle ==
  ASSUME NEW h \in Handles, \A g \in Handles : HandleOK(g),
         \A g \in Handles \ {h} : SameHandle(g), UNCHANGED requestVars,
         Counted(h) => HandleInv(h)'
  PROVE  \A g \in Handles : Counted(g) => HandleInv(g)'
<1> SUFFICES ASSUME NEW g \in Handles \ {h}, Counted(g)
             PROVE  HandleInv(g)'
  OBVIOUS
<1> QED
  BY Frame, RequestsSame DEF requestVars, HandleOK

\* What keeps a handle is never negative, and covers the callbacks to come.
LEMMA KeptEnough ==
  ASSUME TypeOK, NEW h \in Handles, HandleInv(h), object[h] # "none"
  PROVE  /\ Kept(h) \in Int /\ Kept(h) >= 0
         /\ native[h] = "active" => Kept(h) >= 1
         /\ native[h] = "closing" /\ onClose[h] => Kept(h) >= 1
         /\ Awaited(h) # {} => held[h] \/ Kept(h) >= 1
<1>1. Kept(h) \in Int
  BY DEF Kept, TypeOK, HandlerTypeOK
<1>2. CASE kind[h] \in StreamKinds
  BY <1>1, <1>2 DEF HandleInv, StreamInv, One
<1>3. CASE kind[h] = "udp"
  BY <1>1, <1>3, OpenCount DEF HandleInv, UdpInv, One, IsClosing
<1> QED
  BY <1>1, <1>2, <1>3 DEF HandleInv, MadeInv

\* An object that is gone when it has no references left is not referred to.
LEMMA SettleInv ==
  ASSUME TypeOK, TypeOK', NEW h \in Handles, object[h] = "live", Settle(h), Kept(h)' >= 0
  PROVE  /\ object'[h] \in {"live", "destroyed"}
         /\ DestroyedInv(h)'
         /\ \A g \in Handles \ {h} : object'[g] = object[g]
<1>1. object' = [object EXCEPT ![h] = IF References(h)' =< 0 THEN "destroyed" ELSE @]
  BY DEF Settle
<1>2. object'[h] = IF References(h)' =< 0 THEN "destroyed" ELSE "live"
  BY <1>1 DEF TypeOK, HandlerTypeOK
<1>3. Kept(h)' \in Int /\ held'[h] \in BOOLEAN
  BY DEF Kept, TypeOK, HandlerTypeOK
<1>4. References(h)' = One(held'[h]) + One(running' = h) + Kept(h)'
  BY DEF References, Kept, TypeOK, HandlerTypeOK, One
<1>5. DestroyedInv(h)'
  BY <1>2, <1>3, <1>4 DEF DestroyedInv, One
<1>6. \A g \in Handles \ {h} : object'[g] = object[g]
  BY <1>1 DEF TypeOK, HandlerTypeOK
<1> QED
  BY <1>2, <1>5, <1>6

\* A step without requests keeps what is known of them.
LEMMA QuietRequests ==
  ASSUME SystemInv, UNCHANGED requestVars, UNCHANGED poolVars,
         serving \in Requests => running' = running,
         \A g \in Handles : object[g] # "none" => kind'[g] = kind[g]
  PROVE  /\ \A r \in Requests : RequestInv(r)' /\ PoolInv(r)'
         /\ \A f \in Files : FileInv(f)'
<1> USE DEF SystemInv
<1>1. ASSUME NEW r \in Requests
      PROVE  RequestInv(r)'
  <2>1. req' = req /\ serving' = serving /\ RequestInv(r)
    BY DEF requestVars
  <2>2. req[r].kind \in HandleRequests => object[req[r].handle] # "none"
    BY <2>1 DEF RequestInv, HandleOK, MadeInv, HandleRequests
  <2>3. req[r].kind \in HandleRequests => kind'[req[r].handle] = kind[req[r].handle]
    BY <2>1, <2>2 DEF RequestInv
  <2>4. serving = r => running' = req[r].handle
    BY <2>1 DEF RequestInv
  <2> QED
    BY <2>1, <2>3, <2>4 DEF RequestInv, Pending, HasBuffer, One
<1>2. ASSUME NEW r \in Requests
      PROVE  PoolInv(r)'
  <2>1. PoolInv(r)
    OBVIOUS
  <2> QED
    BY <2>1 DEF requestVars, poolVars, PoolInv, Pending
<1>3. ASSUME NEW f \in Files
      PROVE  FileInv(f)'
  <2>1. FileInv(f)
    OBVIOUS
  <2> QED
    BY <2>1 DEF requestVars, poolVars, FileInv, Busy, Pending
<1> QED
  BY <1>1, <1>2, <1>3

\* What a handle's operations have in common: they leave the other handles, the
\* requests and the running callback alone.
LEMMA ProgramFrame ==
  ASSUME TypeOK, NEW h \in Handles, Program(h)
  PROVE  /\ \A g \in Handles \ {h} : SameHandle(g)
         /\ UNCHANGED <<running, entry>> /\ UNCHANGED requestVars
         /\ \A g \in Handles : object[g] # "none" => kind'[g] = kind[g]
<1> USE DEF TypeOK, HandlerTypeOK, TransportTypeOK, SameHandle, requestVars, transportVars
<1>1. ASSUME NEW k \in Kinds \cap (StreamKinds \cup {"udp"}), NEW success \in BOOLEAN,
             Make(h, k, success)
      PROVE  /\ \A g \in Handles \ {h} : SameHandle(g)
             /\ UNCHANGED <<running, entry>> /\ UNCHANGED requestVars
             /\ \A g \in Handles : object[g] # "none" => kind'[g] = kind[g]
  BY <1>1 DEF Make, Construct
<1>2. CASE Open(h) \/ Accept(h)
  BY <1>2 DEF Open, Accept
<1>3. ASSUME NEW success \in BOOLEAN,
             ReadStart(h, success) \/ Listen(h, success) \/ RecvStart(h, success)
      PROVE  /\ \A g \in Handles \ {h} : SameHandle(g)
             /\ UNCHANGED <<running, entry>> /\ UNCHANGED requestVars
             /\ \A g \in Handles : object[g] # "none" => kind'[g] = kind[g]
  <2>1. CASE ReadStart(h, success)
    BY <2>1 DEF ReadStart, Starts, Activate
  <2>2. CASE Listen(h, success)
    BY <2>2 DEF Listen, Starts, Activate, Settle
  <2>3. CASE RecvStart(h, success)
    BY <2>3 DEF RecvStart, Starts, Activate
  <2> QED
    BY <1>3, <2>1, <2>2, <2>3
<1>4. CASE ReadStop(h) \/ RecvStop(h)
  BY <1>4 DEF ReadStop, RecvStop, Settle
<1>5. ASSUME NEW callback \in BOOLEAN, Close(h, callback)
      PROVE  /\ \A g \in Handles \ {h} : SameHandle(g)
             /\ UNCHANGED <<running, entry>> /\ UNCHANGED requestVars
             /\ \A g \in Handles : object[g] # "none" => kind'[g] = kind[g]
  BY <1>5 DEF Close, CloseHandle, CloseNow, Settle
<1>6. CASE CloseTwice(h) \/ ForgetHandle(h) \/ KeepHandle(h)
  BY <1>6 DEF CloseTwice, CloseAgain, ForgetHandle, Forget, KeepHandle, Keep, Settle
<1> QED
  BY <1>1, <1>2, <1>3, <1>4, <1>5, <1>6 DEF Program

\* A handle that was made stays of its class.
LEMMA MadeStays ==
  ASSUME TypeOK, [Next]_vars, NEW h \in Handles, object[h] # "none"
  PROVE  object'[h] # "none" /\ kind'[h] = kind[h]
<1> USE DEF TypeOK, HandlerTypeOK
<1>1. ASSUME NEW g \in Handles, Settle(g)
      PROVE  object'[h] # "none"
  BY <1>1 DEF Settle
<1>2. ASSUME NEW g \in Handles, Program(g)
      PROVE  object'[h] # "none" /\ kind'[h] = kind[h]
  <2>1. object' = object \/ Settle(g) \/ object'[h] # "none"
    BY <1>2
    DEF Program, Make, Construct, Open, Accept, ReadStart, Listen, RecvStart, ReadStop, RecvStop,
        Close, CloseHandle, CloseNow, CloseTwice, CloseAgain, ForgetHandle, Forget, KeepHandle, Keep
  <2> QED
    BY <1>1, <1>2, <2>1, ProgramFrame
<1>3. ASSUME NEW g \in Handles, Events(g)
      PROVE  (object' = object \/ Settle(g)) /\ kind' = kind
  BY <1>3
  DEF Events, ReadEvent, ConnectionEvent, RecvEvent, Enter, EventReturn, Leave, FinishClose,
      CloseCallback, Closed
<1>4. ASSUME NEW g \in Handles, NEW r \in Requests, Request(r, g)
      PROVE  object' = object /\ kind' = kind
  BY <1>4 DEF Request, Write, WriteRequest, Shutdown, Connect, Send, SubmitTo
<1>5. ASSUME NEW r \in Requests, HandleAnswer(r)
      PROVE  (object' = object \/ \E g \in Handles : Settle(g)) /\ kind' = kind
  BY <1>5 DEF HandleAnswer, Answer, AnswerReturn, AnswerEnd
<1>6. PoolNext \/ UNCHANGED vars => object' = object /\ kind' = kind
  BY DEF PoolNext, Ask, PoolAnswer, Answer, PoolReturn, handlerVars, vars
<1> QED
  BY <1>1, <1>2, <1>3, <1>4, <1>5, <1>6 DEF Next, TransportNext

\* So a handle that cannot be counted on stays such a handle.
LEMMA HandlesStep ==
  ASSUME TypeOK, [Next]_vars, \A g \in Handles : HandleOK(g),
         \A g \in Handles : Counted(g) => HandleInv(g)'
  PROVE  \A g \in Handles : HandleOK(g)'
<1> SUFFICES ASSUME NEW g \in Handles
             PROVE  HandleOK(g)'
  OBVIOUS
<1>1. CASE Counted(g)
  BY <1>1 DEF HandleOK, HandleInv
<1>2. CASE ~Counted(g)
  <2>1. object[g] # "none" /\ kind[g] = "udp" /\ ~Tidy
    BY <1>2 DEF HandleOK, MadeInv, Counted
  <2>2. object'[g] # "none" /\ kind'[g] = "udp"
    BY <2>1, MadeStays
  <2> QED
    BY <2>1, <2>2 DEF HandleOK, MadeInv, Counted
<1> QED
  BY <1>1, <1>2

\* A callback of a datagram that was sent is that of an open request.
LEMMA ServedOpen ==
  ASSUME SystemInv, NEW h \in Handles, running = h, serving # NoRequest
  PROVE  serving \in OpenOn(h) /\ serving \notin PendingOn(h)
BY DEF SystemInv, TypeOK, RequestTypeOK, RequestInv, OpenOn, PendingOn, Pending

\* The program starts, stops, closes or forgets a handle.
LEMMA ProgramHandle ==
  ASSUME SystemInv, TypeOK', NEW h \in Handles, Counted(h), Program(h)
  PROVE  HandleInv(h)'
<1>1. TypeOK /\ HandleInv(h)
  BY DEF SystemInv, HandleOK
<1>2. /\ UNCHANGED <<running, entry>> /\ UNCHANGED requestVars
      /\ OpenOn(h)' = OpenOn(h) /\ PendingOn(h)' = PendingOn(h) /\ Awaited(h)' = Awaited(h)
      /\ (\A r \in Requests : req[r].handle # h) => (\A r \in Requests : req'[r].handle # h)
  BY <1>1, ProgramFrame, RequestsSame DEF SameRequests
<1>3. req' = req /\ serving' = serving
  BY <1>2 DEF requestVars
<1>4. /\ Cardinality(OpenOn(h)) \in Nat /\ (Cardinality(OpenOn(h)) = 0 <=> OpenOn(h) = {})
      /\ Awaited(h) \subseteq PendingOn(h) /\ PendingOn(h) \subseteq OpenOn(h)
  BY OpenCount
<1>5. kind[h] \in AllKinds \cup {"none"} /\ closures[h] \in Nat /\ pins[h] \in Int
  BY <1>1 DEF TypeOK, HandlerTypeOK
<1>6. ASSUME object[h] = "live", object'[h] \in {"live", "destroyed"}, kind'[h] = kind[h]
      PROVE  MadeInv(h)'
  BY <1>1, <1>6 DEF HandleInv, MadeInv
<1>7. ASSUME object[h] = "live", object'[h] = "live"
      PROVE  DestroyedInv(h)'
  BY <1>7 DEF DestroyedInv
<1>10. ASSUME NEW k \in Kinds \cap (StreamKinds \cup {"udp"}), NEW success \in BOOLEAN,
              Make(h, k, success)
       PROVE  HandleInv(h)'
  <2>1. object[h] = "none" /\ MadeInv(h)
    BY <1>1, <1>10 DEF Make, Construct, HandleInv
  <2>2. /\ kind'[h] = k /\ native'[h] \in {"none", "inactive"} /\ held'[h] = success
        /\ closures'[h] = 0 /\ pins'[h] = 0 /\ onClose'[h] = FALSE /\ mode'[h] = "idle"
        /\ running' # h /\ object'[h] = IF success THEN "live" ELSE "destroyed"
    BY <1>1, <1>10, <2>1 DEF Make, Construct, MadeInv, StreamKinds, One, TypeOK, HandlerTypeOK,
       TransportTypeOK
  <2>3. OpenOn(h) = {} /\ PendingOn(h) = {} /\ Awaited(h) = {}
    BY <1>4, <2>1 DEF MadeInv, OpenOn, Pending
  <2> QED
    BY <1>2, <1>4, <2>2, <2>3
    DEF HandleInv, MadeInv, DestroyedInv, StreamInv, UdpInv, Kept, One, StreamKinds, IsClosing
<1>11. CASE Open(h) \/ Accept(h)
  <2>1. SameHandle(h) /\ SameRequests(h)
    BY <1>2, <1>11, RequestsSame DEF Open, Accept, SameHandle
  <2> QED
    BY <1>1, <1>3, <2>1, Frame
<1>12. ASSUME NEW success \in BOOLEAN, ReadStart(h, success)
       PROVE  HandleInv(h)'
  <2>1. /\ kind[h] \in StreamKinds /\ object[h] = "live" /\ object'[h] = "live"
        /\ kind'[h] = kind[h] /\ closures'[h] = closures[h] + 1 /\ pins'[h] = pins[h]
        /\ onClose'[h] = onClose[h]
    BY <1>1, <1>12 DEF ReadStart, Starts, CanUse, CanCall, TypeOK, HandlerTypeOK
  <2>2. native'[h] \in {native[h], "active"}
    BY <1>1, <1>12 DEF ReadStart, Activate, TypeOK, HandlerTypeOK
  <2>3. StreamInv(h)'
    BY <1>1, <1>2, <1>5, <2>1, <2>2 DEF HandleInv, StreamInv, Kept, One
  <2> QED
    BY <1>6, <1>7, <2>1, <2>3 DEF HandleInv, UdpInv, StreamKinds
<1>13. ASSUME NEW success \in BOOLEAN, Listen(h, success)
       PROVE  HandleInv(h)'
  <2>1. /\ kind[h] \in {"tcp", "pipe"} /\ object[h] = "live" /\ Settle(h)
        /\ kind'[h] = kind[h] /\ onClose'[h] = onClose[h]
    BY <1>1, <1>13 DEF Listen, Starts, CanUse, CanCall
  <2>2. \/ native'[h] = "active" /\ Kept(h)' = Kept(h) + 1
        \/ native'[h] = native[h] /\ Kept(h)' = Kept(h)
    BY <1>1, <1>13 DEF Listen, Starts, Activate, Kept, TypeOK, HandlerTypeOK
  <2>3. StreamInv(h)' /\ Kept(h)' >= 0
    <3>1. Kept(h) \in Int
      BY <1>5 DEF Kept
    <3> QED
      BY <1>1, <1>2, <2>1, <2>2, <3>1 DEF HandleInv, StreamInv, One, StreamKinds
  <2>4. object'[h] \in {"live", "destroyed"} /\ DestroyedInv(h)'
    BY <1>1, <2>1, <2>3, SettleInv
  <2> QED
    BY <1>6, <2>1, <2>3, <2>4 DEF HandleInv, UdpInv
<1>14. ASSUME NEW success \in BOOLEAN, RecvStart(h, success)
       PROVE  HandleInv(h)'
  <2>1. /\ kind[h] = "udp" /\ object[h] = "live" /\ object'[h] = "live" /\ ~IsClosing(h)
        /\ kind'[h] = kind[h] /\ closures'[h] = closures[h] + 2 /\ pins'[h] = pins[h]
        /\ onClose'[h] = onClose[h] /\ native[h] # "active"
    BY <1>1, <1>14 DEF RecvStart, Starts, CanUse, CanCall, TypeOK, HandlerTypeOK
  <2>2. \/ native'[h] = "active" /\ mode'[h] = "reading"
        \/ native'[h] = native[h] /\ mode'[h] = mode[h]
    BY <1>1, <1>14 DEF RecvStart, Activate, TypeOK, HandlerTypeOK, TransportTypeOK
  <2>3. mode[h] # "reading"
    BY <1>1, <2>1 DEF HandleInv, UdpInv
  <2>4. UdpInv(h)'
    BY <1>1, <1>2, <1>3, <1>4, <1>5, <2>1, <2>2, <2>3 DEF HandleInv, UdpInv, Kept, One, IsClosing
  <2> QED
    BY <1>6, <1>7, <2>1, <2>4 DEF HandleInv, StreamInv, StreamKinds
<1>15. CASE ReadStop(h)
  <2>1. /\ kind[h] \in StreamKinds /\ object[h] = "live" /\ object'[h] = "live"
        /\ kind'[h] = kind[h] /\ closures'[h] = closures[h] /\ pins'[h] = pins[h]
        /\ onClose'[h] = onClose[h] /\ native'[h] = "inactive"
    BY <1>1, <1>15 DEF ReadStop, CanUse, CanCall, TypeOK, HandlerTypeOK
  <2>2. StreamInv(h)'
    BY <1>1, <1>2, <1>5, <2>1 DEF HandleInv, StreamInv, Kept, One
  <2> QED
    BY <1>6, <1>7, <2>1, <2>2 DEF HandleInv, UdpInv, StreamKinds
<1>16. CASE RecvStop(h)
  <2>1. /\ kind[h] = "udp" /\ object[h] = "live" /\ ~IsClosing(h) /\ Settle(h)
        /\ kind'[h] = kind[h] /\ closures'[h] = closures[h] /\ pins'[h] = pins[h] - 1
        /\ onClose'[h] = onClose[h] /\ native[h] = "active"
        /\ mode[h] = "reading" /\ mode'[h] = "idle"
    BY <1>1, <1>16 DEF RecvStop, Counted, CanCall, IsClosing, TypeOK, HandlerTypeOK, TransportTypeOK
  <2>2. native'[h] = "inactive" \/ (native'[h] = "active" /\ PendingOn(h) # {})
    <3>1. PICK state \in {"inactive", "active"} : /\ state = "active" => PendingOn(h) # {}
                                                 /\ native' = [native EXCEPT ![h] = state]
      BY <1>16 DEF RecvStop
    <3>2. native'[h] = state
      BY <1>1, <3>1 DEF TypeOK, HandlerTypeOK
    <3> QED
      BY <3>1, <3>2
  <2>3. UdpInv(h)' /\ Kept(h)' >= 0
    BY <1>1, <1>2, <1>3, <1>4, <1>5, <2>1, <2>2 DEF HandleInv, UdpInv, Kept, One, IsClosing
  <2>4. object'[h] \in {"live", "destroyed"} /\ DestroyedInv(h)'
    BY <1>1, <2>1, <2>3, SettleInv
  <2> QED
    BY <1>6, <2>1, <2>3, <2>4 DEF HandleInv, StreamInv, StreamKinds
<1>17. ASSUME NEW callback \in BOOLEAN, Close(h, callback)
       PROVE  HandleInv(h)'
  <2>1. /\ object[h] = "live" /\ ~IsClosing(h) /\ Settle(h) /\ (held[h] \/ running = h)
        /\ kind'[h] = kind[h] /\ held'[h] = held[h] /\ native'[h] = "closing"
        /\ onClose'[h] = callback /\ mode'[h] = mode[h]
        /\ closures'[h] = closures[h] + One(callback)
        /\ pins'[h] = pins[h] + One(native[h] # "active") - 1
    BY <1>1, <1>17 DEF Close, CloseHandle, CloseNow, CanCall, TypeOK, HandlerTypeOK, One,
       transportVars
  <2>2. Kept(h) \in Int /\ Kept(h)' = Kept(h) + One(callback) - One(native[h] = "active")
    BY <1>5, <2>1 DEF Kept, One
  <2>3. StreamInv(h)'
    BY <1>1, <1>2, <2>1, <2>2 DEF HandleInv, StreamInv, One
  <2>4. UdpInv(h)'
    <3> SUFFICES ASSUME kind[h] = "udp"
                 PROVE  UdpInv(h)'
      BY <2>1 DEF UdpInv
    <3>1. UdpInv(h) /\ IsClosing(h)'
      BY <1>1, <2>1 DEF HandleInv, IsClosing
    <3>2. Kept(h)' >= One(callback)
      BY <1>4, <2>1, <2>2, <3>1 DEF UdpInv, One
    <3>3. PendingOn(h) # {} => held[h] \/ Kept(h)' > 0
      <4> SUFFICES ASSUME PendingOn(h) # {}, ~held[h]
                   PROVE  Kept(h)' > 0
        OBVIOUS
      <4>1. running = h /\ Cardinality(OpenOn(h)) >= 1
        BY <1>4, <2>1
      <4>2. CASE serving = NoRequest
        BY <1>4, <2>1, <2>2, <3>1, <4>1, <4>2 DEF UdpInv, One
      <4>3. CASE serving # NoRequest
        <5>1. PICK r \in PendingOn(h) : TRUE
          OBVIOUS
        <5>2. r # serving /\ r \in OpenOn(h) /\ serving \in OpenOn(h)
          BY <1>4, <4>1, <4>3, ServedOpen
        <5>3. IsFiniteSet(OpenOn(h))
          BY FS_Subset, SystemAssumption DEF OpenOn, SystemAssumption
        <5>4. /\ IsFiniteSet(OpenOn(h) \ {serving})
              /\ Cardinality(OpenOn(h) \ {serving}) = Cardinality(OpenOn(h)) - 1
          BY <5>2, <5>3, FS_RemoveElement
        <5>5. OpenOn(h) \ {serving} # {}
          BY <5>2
        <5>6. Cardinality(OpenOn(h)) >= 2
          <6>1. Cardinality(OpenOn(h) \ {serving}) # 0
            BY <5>4, <5>5, FS_EmptySet
          <6>2. Cardinality(OpenOn(h) \ {serving}) \in Nat
            BY <5>4, FS_CardinalityType
          <6> QED
            BY <1>4, <5>4, <6>1, <6>2
        <5> QED
          BY <1>4, <2>1, <2>2, <3>1, <5>6 DEF UdpInv, One
      <4> QED
        BY <4>2, <4>3
    <3> QED
      BY <1>1, <1>2, <2>1, <3>1, <3>2, <3>3 DEF UdpInv, One, IsClosing
  <2>5. Kept(h)' >= 0
    BY <1>4, <2>1, <2>2, <1>1 DEF HandleInv, StreamInv, UdpInv, MadeInv, One
  <2>6. object'[h] \in {"live", "destroyed"} /\ DestroyedInv(h)'
    BY <1>1, <2>1, <2>5, SettleInv
  <2> QED
    BY <1>6, <2>1, <2>3, <2>4, <2>6 DEF HandleInv
<1>18. CASE CloseTwice(h)
  <2>1. /\ object[h] = "live" /\ object'[h] = "live" /\ IsClosing(h)
        /\ kind'[h] = kind[h] /\ held'[h] = held[h] /\ native'[h] = native[h]
        /\ onClose'[h] = onClose[h] /\ mode'[h] = mode[h] /\ closures'[h] = closures[h]
        /\ pins'[h] = pins[h] + 1
    BY <1>1, <1>18 DEF CloseTwice, CloseAgain, CanCall, TypeOK, HandlerTypeOK, transportVars
  <2>2. StreamInv(h)'
    BY <1>1, <1>2, <1>5, <2>1 DEF HandleInv, StreamInv, Kept, One
  <2>3. UdpInv(h)'
    BY <1>1, <1>2, <1>4, <1>5, <2>1 DEF HandleInv, UdpInv, Kept, One, IsClosing
  <2> QED
    BY <1>6, <1>7, <2>1, <2>2, <2>3 DEF HandleInv
<1>19. CASE ForgetHandle(h)
  <2>1. /\ object[h] = "live" /\ Settle(h) /\ kind'[h] = kind[h] /\ native'[h] = native[h]
        /\ onClose'[h] = onClose[h] /\ mode'[h] = mode[h] /\ closures'[h] = closures[h]
        /\ pins'[h] = pins[h] /\ (kind[h] = "udp" => PendingOn(h) = {})
    BY <1>1, <1>19 DEF ForgetHandle, Counted, Forget, TypeOK, HandlerTypeOK, transportVars
  <2>2. StreamInv(h)'
    BY <1>1, <1>2, <1>5, <2>1 DEF HandleInv, StreamInv, Kept, One
  <2>3. UdpInv(h)'
    BY <1>1, <1>2, <1>3, <1>4, <1>5, <2>1 DEF HandleInv, UdpInv, Kept, One, IsClosing
  <2>4. Kept(h)' >= 0
    BY <1>1, <2>1, KeptEnough DEF Kept
  <2>5. object'[h] \in {"live", "destroyed"} /\ DestroyedInv(h)'
    BY <1>1, <2>1, <2>4, SettleInv
  <2> QED
    BY <1>6, <2>1, <2>2, <2>3, <2>5 DEF HandleInv
<1>20. CASE KeepHandle(h)
  <2>1. /\ object[h] = "live" /\ object'[h] = "live" /\ running = h
        /\ kind'[h] = kind[h] /\ held'[h] = TRUE /\ native'[h] = native[h]
        /\ onClose'[h] = onClose[h] /\ mode'[h] = mode[h] /\ closures'[h] = closures[h]
        /\ pins'[h] = pins[h]
    BY <1>1, <1>20
    DEF KeepHandle, Keep, TypeOK, HandlerTypeOK, transportVars, HandleInv, MadeInv, DestroyedInv
  <2>2. StreamInv(h)'
    BY <1>1, <1>2, <1>5, <2>1 DEF HandleInv, StreamInv, Kept, One
  <2>3. UdpInv(h)'
    BY <1>1, <1>2, <1>3, <1>4, <1>5, <2>1 DEF HandleInv, UdpInv, Kept, One, IsClosing
  <2> QED
    BY <1>6, <1>7, <2>1, <2>2, <2>3 DEF HandleInv
<1> QED
  BY <1>10, <1>11, <1>12, <1>13, <1>14, <1>15, <1>16, <1>17, <1>18, <1>19, <1>20 DEF Program

LEMMA ProgramStep ==
  ASSUME SystemInv, NEW h \in Handles, Program(h), UNCHANGED poolVars
  PROVE  SystemInv'
<1>1. TypeOK
  BY DEF SystemInv
<1>2. TypeOK'
  BY <1>1, TypeStep DEF Next, TransportNext
<1>3. /\ \A g \in Handles \ {h} : SameHandle(g)
      /\ UNCHANGED <<running, entry>> /\ UNCHANGED requestVars
      /\ \A g \in Handles : object[g] # "none" => kind'[g] = kind[g]
  BY <1>1, ProgramFrame
<1>4. Counted(h) => HandleInv(h)'
  BY <1>2, ProgramHandle
<1>5. \A g \in Handles : HandleOK(g)'
  BY <1>1, <1>3, <1>4, OneHandle, HandlesStep DEF SystemInv, Next, TransportNext
<1>6. /\ \A r \in Requests : RequestInv(r)' /\ PoolInv(r)'
      /\ \A f \in Files : FileInv(f)'
  BY <1>3, QuietRequests
<1> QED
  BY <1>2, <1>5, <1>6 DEF SystemInv

\* The loop calls h or is called back to; no request is concerned.
LEMMA EventFrame ==
  ASSUME TypeOK, NEW h \in Handles, Events(h)
  PROVE  /\ \A g \in Handles \ {h} : SameHandle(g)
         /\ serving = NoRequest /\ UNCHANGED requestVars
         /\ kind' = kind
<1> USE DEF TypeOK, HandlerTypeOK, TransportTypeOK, SameHandle, requestVars, transportVars
<1>1. ASSUME NEW refs \in {0, 1}, NEW state \in {"active", "inactive"}, Enter(h, refs, state)
      PROVE  /\ \A g \in Handles \ {h} : SameHandle(g)
             /\ serving = NoRequest /\ UNCHANGED requestVars
             /\ kind' = kind
  BY <1>1, HandlerAssumption DEF Enter, Polling, HandlerAssumption
<1>2. ASSUME NEW result \in {"data", "empty", "eof", "error"}, ReadEvent(h, result)
      PROVE  \E refs \in {0, 1}, state \in {"active", "inactive"} : Enter(h, refs, state)
  BY <1>2 DEF ReadEvent
<1>3. CASE ConnectionEvent(h) \/ RecvEvent(h)
  BY <1>1, <1>3 DEF ConnectionEvent, RecvEvent
<1>4. CASE EventReturn(h)
  BY <1>4, HandlerAssumption DEF EventReturn, Leave, Settle, HandlerAssumption
<1>5. CASE FinishClose(h)
  BY <1>5, HandlerAssumption
  DEF FinishClose, CloseCallback, Closed, Polling, HandlerAssumption
<1> QED
  BY <1>1, <1>2, <1>3, <1>4, <1>5 DEF Events

\* An event that adds `refs` references and leaves the handle in `state`.
LEMMA EnterHandle ==
  ASSUME SystemInv, TypeOK', NEW h \in Handles, Counted(h), NEW refs \in {0, 1},
         NEW state \in {"active", "inactive"}, Enter(h, refs, state),
         kind[h] = "udp" => mode[h] = "reading" /\ state = "active"
  PROVE  HandleInv(h)'
<1>1. TypeOK /\ HandleInv(h)
  BY DEF SystemInv, HandleOK
<1>2. /\ native[h] = "active" /\ running = NoHandle /\ running' = h
      /\ serving' = serving /\ serving = NoRequest /\ req' = req
      /\ kind' = kind /\ object' = object /\ held' = held /\ closures' = closures
      /\ onClose' = onClose
      /\ pins'[h] = pins[h] + refs /\ native'[h] = state
      /\ mode'[h] = IF state = "active" THEN mode[h] ELSE "idle"
  BY <1>1 DEF Enter, Polling, requestVars, TypeOK, HandlerTypeOK, TransportTypeOK
<1>3. /\ OpenOn(h)' = OpenOn(h) /\ PendingOn(h)' = PendingOn(h) /\ Awaited(h)' = Awaited(h)
  BY <1>2 DEF OpenOn, PendingOn, Awaited, Pending
<1>4. /\ Cardinality(OpenOn(h)) \in Nat /\ (Cardinality(OpenOn(h)) = 0 <=> OpenOn(h) = {})
  BY OpenCount
<1>5. closures[h] \in Nat /\ pins[h] \in Int
  BY <1>1 DEF TypeOK, HandlerTypeOK
<1>6. object[h] = "live"
  <2>1. object[h] # "none"
    BY <1>1, <1>2 DEF HandleInv, MadeInv
  <2>2. Kept(h) >= 1
    BY <1>1, <1>2, <2>1, KeptEnough
  <2>3. object[h] # "destroyed"
    BY <1>1, <1>5, <2>2 DEF HandleInv, DestroyedInv, Kept
  <2> QED
    BY <1>1, <2>1, <2>3 DEF TypeOK, HandlerTypeOK
<1>7. MadeInv(h)' /\ DestroyedInv(h)'
  BY <1>1, <1>2, <1>6 DEF HandleInv, MadeInv, DestroyedInv
<1>8. StreamInv(h)'
  BY <1>1, <1>2, <1>3, <1>5 DEF HandleInv, StreamInv, Kept, One
<1>9. UdpInv(h)'
  BY <1>1, <1>2, <1>3, <1>4, <1>5 DEF HandleInv, UdpInv, Kept, One, IsClosing
<1> QED
  BY <1>7, <1>8, <1>9 DEF HandleInv

LEMMA EventHandle ==
  ASSUME SystemInv, TypeOK', NEW h \in Handles, Counted(h), Events(h)
  PROVE  HandleInv(h)'
<1>1. TypeOK /\ HandleInv(h)
  BY DEF SystemInv, HandleOK
<1>2. /\ serving = NoRequest /\ UNCHANGED requestVars
      /\ OpenOn(h)' = OpenOn(h) /\ PendingOn(h)' = PendingOn(h) /\ Awaited(h)' = Awaited(h)
  BY <1>1, EventFrame, RequestsSame DEF SameRequests
<1>3. /\ Cardinality(OpenOn(h)) \in Nat /\ (Cardinality(OpenOn(h)) = 0 <=> OpenOn(h) = {})
  BY OpenCount
<1>4. closures[h] \in Nat /\ pins[h] \in Int
  BY <1>1 DEF TypeOK, HandlerTypeOK
<1>5. ASSUME NEW result \in {"data", "empty", "eof", "error"}, ReadEvent(h, result)
      PROVE  HandleInv(h)'
  <2>1. PICK refs \in {0, 1}, state \in {"active", "inactive"} : Enter(h, refs, state)
    BY <1>5 DEF ReadEvent
  <2>2. kind[h] # "udp"
    BY <1>5 DEF ReadEvent, StreamKinds
  <2> QED
    BY <2>1, <2>2, EnterHandle
<1>6. CASE ConnectionEvent(h)
  <2>1. kind[h] # "udp"
    BY <1>1, <1>6 DEF ConnectionEvent, HandleInv, UdpInv
  <2> QED
    BY <1>6, <2>1, EnterHandle DEF ConnectionEvent
<1>7. CASE RecvEvent(h)
  BY <1>7, EnterHandle DEF RecvEvent
<1>8. CASE EventReturn(h)
  <2>1. /\ running = h /\ running' = NoHandle /\ Settle(h)
        /\ kind' = kind /\ native' = native /\ held' = held /\ closures' = closures
        /\ onClose' = onClose /\ mode' = mode /\ pins'[h] = pins[h]
    BY <1>1, <1>8 DEF EventReturn, Leave, transportVars, TypeOK, HandlerTypeOK
  <2>2. object[h] = "live" /\ running' # h
    BY <1>1, <2>1, HandlerAssumption
    DEF HandlerAssumption, HandleInv, MadeInv, DestroyedInv, TypeOK, HandlerTypeOK
  <2>3. Kept(h)' >= 0
    BY <1>1, <2>1, <2>2, KeptEnough DEF Kept
  <2>4. object'[h] \in {"live", "destroyed"} /\ DestroyedInv(h)'
    BY <1>1, <2>1, <2>2, <2>3, SettleInv
  <2>5. StreamInv(h)'
    BY <1>1, <1>2, <1>4, <2>1 DEF HandleInv, StreamInv, Kept, One
  <2>6. UdpInv(h)'
    BY <1>1, <1>2, <1>3, <1>4, <2>1, <2>2 DEF HandleInv, UdpInv, Kept, One, IsClosing
  <2>7. MadeInv(h)'
    BY <1>1, <2>1, <2>2, <2>4 DEF HandleInv, MadeInv
  <2> QED
    BY <2>4, <2>5, <2>6, <2>7 DEF HandleInv
<1>9. CASE FinishClose(h)
  <2>1. /\ running = NoHandle /\ PendingOn(h) = {} /\ native[h] = "closing" /\ native'[h] = "closed"
        /\ kind' = kind /\ held' = held /\ closures' = closures /\ object' = object
        /\ onClose' = onClose /\ mode' = mode /\ pins' = pins
        /\ running' = IF onClose[h] THEN h ELSE NoHandle
    BY <1>1, <1>9
    DEF FinishClose, CloseCallback, Closed, Polling, transportVars, TypeOK, HandlerTypeOK
  <2>2. object[h] # "none"
    BY <1>1, <2>1 DEF HandleInv, MadeInv
  <2>3. running' = h => object[h] # "destroyed"
    BY <1>1, <1>4, <2>1, <2>2, KeptEnough, HandlerAssumption
    DEF HandleInv, DestroyedInv, HandlerAssumption, Kept
  <2>4. MadeInv(h)' /\ DestroyedInv(h)'
    BY <1>1, <2>1, <2>2, <2>3 DEF HandleInv, MadeInv, DestroyedInv, Kept
  <2>5. StreamInv(h)'
    BY <1>1, <1>2, <1>4, <2>1 DEF HandleInv, StreamInv, Kept, One
  <2>6. UdpInv(h)'
    BY <1>1, <1>2, <1>3, <1>4, <2>1 DEF HandleInv, UdpInv, Kept, One, IsClosing
  <2> QED
    BY <2>4, <2>5, <2>6 DEF HandleInv
<1> QED
  BY <1>5, <1>6, <1>7, <1>8, <1>9 DEF Events

LEMMA EventStep ==
  ASSUME SystemInv, NEW h \in Handles, Events(h), UNCHANGED poolVars
  PROVE  SystemInv'
<1>1. TypeOK
  BY DEF SystemInv
<1>2. TypeOK'
  BY <1>1, TypeStep DEF Next, TransportNext
<1>3. /\ \A g \in Handles \ {h} : SameHandle(g)
      /\ serving = NoRequest /\ UNCHANGED requestVars /\ kind' = kind
  BY <1>1, EventFrame
<1>4. Counted(h) => HandleInv(h)'
  BY <1>2, EventHandle
<1>5. \A g \in Handles : HandleOK(g)'
  BY <1>1, <1>3, <1>4, OneHandle, HandlesStep DEF SystemInv, Next, TransportNext
<1>6. /\ \A r \in Requests : RequestInv(r)' /\ PoolInv(r)'
      /\ \A f \in Files : FileInv(f)'
  BY <1>3, QuietRequests, RequestAssumption DEF RequestAssumption
<1> QED
  BY <1>2, <1>5, <1>6 DEF SystemInv

------------------------------------------------------------------------------
(* Requests of handles *)

\* r is made for h and no other request changes.
Asked(r, h) ==
  /\ req[r].state = "none" /\ serving' = serving
  /\ \A q \in Requests \ {r} : req'[q] = req[q]
  /\ req'[r].handle = h

LEMMA AskedSame ==
  ASSUME SystemInv, NEW r \in Requests, NEW h, Asked(r, h)
  PROVE  /\ req[r] = NewRequest /\ serving # r
         /\ \A g \in Handles \ {h} : SameRequests(g)
         /\ \A q \in Requests \ {r} :
              /\ Pending(q)' = Pending(q) /\ HasBuffer(q)' = HasBuffer(q)
              /\ PoolInv(q)
         /\ h \in Handles =>
              /\ OpenOn(h)' = OpenOn(h) \cup (IF Pending(r)' THEN {r} ELSE {})
              /\ PendingOn(h)' = PendingOn(h) \cup (IF Pending(r)' THEN {r} ELSE {})
              /\ Awaited(h)' \ {r} = Awaited(h)
              /\ ~req'[r].callback => r \notin Awaited(h)'
              /\ r \notin OpenOn(h)
<1>1. req[r] = NewRequest /\ serving # r
  <2>1. RequestInv(r)
    BY DEF SystemInv
  <2> QED
    BY <2>1 DEF RequestInv, Asked
<1>2. req[r].handle = NoHandle /\ ~Pending(r)
  BY <1>1 DEF NewRequest, Pending
<1>3. \A g \in Handles \ {h} : SameRequests(g)
  <2> SUFFICES ASSUME NEW g \in Handles \ {h}
               PROVE  SameRequests(g)
    OBVIOUS
  <2>1. OpenOn(g)' = OpenOn(g)
    BY <1>1, <1>2, HandlerAssumption DEF Asked, OpenOn, Pending, HandlerAssumption
  <2>2. PendingOn(g)' = PendingOn(g) /\ Awaited(g)' = Awaited(g)
    BY <1>1, <1>2, HandlerAssumption DEF Asked, PendingOn, Awaited, Pending, HandlerAssumption
  <2>3. (\A q \in Requests : req[q].handle # g) => (\A q \in Requests : req'[q].handle # g)
    BY DEF Asked
  <2> QED
    BY <2>1, <2>2, <2>3 DEF SameRequests
<1>4. \A q \in Requests \ {r} : /\ Pending(q)' = Pending(q) /\ HasBuffer(q)' = HasBuffer(q)
                                /\ PoolInv(q)
  BY DEF Asked, Pending, HasBuffer, SystemInv
<1>5. ASSUME h \in Handles
      PROVE  /\ OpenOn(h)' = OpenOn(h) \cup (IF Pending(r)' THEN {r} ELSE {})
             /\ PendingOn(h)' = PendingOn(h) \cup (IF Pending(r)' THEN {r} ELSE {})
             /\ Awaited(h)' \ {r} = Awaited(h)
             /\ ~req'[r].callback => r \notin Awaited(h)'
             /\ r \notin OpenOn(h)
  <2>1. OpenOn(h)' = OpenOn(h) \cup (IF Pending(r)' THEN {r} ELSE {})
    BY <1>1, <1>2, <1>5 DEF Asked, OpenOn, Pending
  <2>2. PendingOn(h)' = PendingOn(h) \cup (IF Pending(r)' THEN {r} ELSE {})
    BY <1>1, <1>2, <1>5 DEF Asked, PendingOn, Pending
  <2>3. Awaited(h)' \ {r} = Awaited(h)
    BY <1>1, <1>2, <1>5 DEF Asked, Awaited, PendingOn, Pending
  <2>4. ~req'[r].callback => r \notin Awaited(h)'
    BY DEF Awaited
  <2>5. r \notin OpenOn(h)
    BY <1>1, <1>2 DEF OpenOn
  <2> QED
    BY <2>1, <2>2, <2>3, <2>4, <2>5
<1> QED
  BY <1>1, <1>3, <1>4, <1>5

\* What was known of the other requests and of files stays so.
LEMMA AskedStep ==
  ASSUME SystemInv, TypeOK', [Next]_vars, NEW r \in Requests, NEW h \in Handles \cup {NoHandle},
         Asked(r, h),
         UNCHANGED <<kind, running>>,
         \A q \in Requests \ {r} : fs'[q] = fs[q],
         \A g \in Handles \ {h} : SameHandle(g),
         h \in Handles => (Counted(h) => HandleInv(h)'),
         RequestInv(r)', PoolInv(r)',
         \A f \in Files : FileInv(f)'
  PROVE  SystemInv'
<1>1. ASSUME NEW g \in Handles \ {h}, Counted(g)
      PROVE  HandleInv(g)'
  <2>1. SameRequests(g) /\ HandleInv(g)
    BY <1>1, AskedSame DEF SystemInv, HandleOK
  <2> QED
    BY <2>1, Frame DEF Asked
<1>2. ASSUME NEW q \in Requests \ {r}
      PROVE  RequestInv(q)' /\ PoolInv(q)'
  <2>1. /\ req'[q] = req[q] /\ Pending(q)' = Pending(q) /\ HasBuffer(q)' = HasBuffer(q)
        /\ RequestInv(q) /\ PoolInv(q) /\ serving' = serving
    BY AskedSame DEF SystemInv, Asked
  <2>2. RequestInv(q)'
    BY <2>1 DEF RequestInv, NewRequest, One
  <2>3. PoolInv(q)'
    BY <2>1 DEF PoolInv
  <2> QED
    BY <2>2, <2>3
<1>3. \A g \in Handles : HandleOK(g)'
  BY <1>1, HandlesStep DEF SystemInv
<1> QED
  BY <1>2, <1>3 DEF SystemInv

\* A request of a handle touches no file.
LEMMA AskedFiles ==
  ASSUME SystemInv, NEW r \in Requests, NEW h, Asked(r, h), file' = file, fs' = fs,
         NEW f \in Files
  PROVE  FileInv(f)'
<1>1. FileInv(f)
  BY DEF SystemInv
<1>2. SUFFICES ASSUME Busy(f)
               PROVE  Busy(f)'
  BY <1>1 DEF FileInv
<1>3. PICK q \in Requests : (Pending(q) \/ serving = q) /\ fs[q].fd_alt = f
  BY <1>2 DEF Busy
<1>4. q # r
  BY <1>3, AskedSame DEF NewRequest, Pending
<1> QED
  BY <1>3, <1>4, AskedSame DEF Busy, Asked

\* A request of a stream: a closure is made for its callback.
LEMMA AskedStream ==
  ASSUME SystemInv, TypeOK', NEW r \in Requests, NEW h \in Handles, Asked(r, h),
         kind[h] \in StreamKinds, object[h] = "live",
         UNCHANGED <<kind, object, native, held, pins, onClose, running>>,
         mode' = mode, closures'[h] = closures[h] + One(req'[r].callback)
  PROVE  HandleInv(h)'
<1>1. TypeOK /\ HandleInv(h)
  BY DEF SystemInv, HandleOK, Counted, StreamKinds
<1>2. closures[h] \in Nat /\ pins[h] \in Int /\ req'[r].callback \in BOOLEAN
  BY <1>1 DEF TypeOK, HandlerTypeOK, RequestTypeOK, RequestType
<1>3. /\ Awaited(h)' \ {r} = Awaited(h)
      /\ ~req'[r].callback => r \notin Awaited(h)'
  BY AskedSame
<1>4. StreamInv(h)'
  <2>1. CASE req'[r].callback
    BY <1>1, <1>2, <2>1 DEF HandleInv, StreamInv, Kept, One
  <2>2. CASE ~req'[r].callback
    <3>1. Awaited(h)' = Awaited(h)
      BY <1>3, <2>2
    <3> QED
      BY <1>1, <1>2, <2>2, <3>1 DEF HandleInv, StreamInv, Kept, One
  <2> QED
    BY <2>1, <2>2
<1>5. MadeInv(h)' /\ DestroyedInv(h)'
  BY <1>1 DEF HandleInv, MadeInv, DestroyedInv
<1>6. UdpInv(h)'
  BY DEF UdpInv, StreamKinds
<1> QED
  BY <1>4, <1>5, <1>6 DEF HandleInv

\* A datagram: its closure is the reference the handle gives back.
LEMMA AskedSend ==
  ASSUME SystemInv, TypeOK', NEW r \in Requests, NEW h \in Handles, Asked(r, h),
         Counted(h), kind[h] = "udp", object[h] = "live", ~IsClosing(h),
         UNCHANGED <<kind, object, held, pins, onClose, running>>,
         mode' = mode, closures'[h] = closures[h] + 1,
         native'[h] = IF Pending(r)' THEN "active" ELSE native[h]
  PROVE  HandleInv(h)'
<1>1. TypeOK /\ HandleInv(h) /\ serving' = serving
  BY DEF SystemInv, HandleOK, Asked
<1>2. closures[h] \in Nat /\ pins[h] \in Int
  BY <1>1 DEF TypeOK, HandlerTypeOK
<1>3. /\ OpenOn(h)' = OpenOn(h) \cup (IF Pending(r)' THEN {r} ELSE {})
      /\ r \notin OpenOn(h)
  BY AskedSame
<1>4. IsFiniteSet(OpenOn(h)) /\ Cardinality(OpenOn(h)) \in Nat
  BY OpenCount, FS_Subset, SystemAssumption DEF OpenOn, SystemAssumption
<1>5. UdpInv(h)'
  <2>1. CASE Pending(r)'
    <3>1. OpenOn(h)' = OpenOn(h) \cup {r}
      BY <1>3, <2>1
    <3>2. Cardinality(OpenOn(h) \cup {r}) = Cardinality(OpenOn(h)) + 1
      BY <1>3, <1>4, FS_AddElement
    <3>3. Cardinality(OpenOn(h))' = Cardinality(OpenOn(h)) + 1 /\ OpenOn(h)' # {}
      BY <3>1, <3>2
    <3> QED
      BY <1>1, <1>2, <1>4, <2>1, <3>3 DEF HandleInv, UdpInv, Kept, One, IsClosing
  <2>2. CASE ~Pending(r)'
    <3>1. OpenOn(h)' = OpenOn(h)
      BY <1>3, <2>2
    <3> QED
      BY <1>1, <1>2, <1>4, <2>2, <3>1 DEF HandleInv, UdpInv, Kept, One, IsClosing
  <2> QED
    BY <2>1, <2>2
<1>6. MadeInv(h)' /\ DestroyedInv(h)'
  BY <1>1 DEF HandleInv, MadeInv, DestroyedInv
<1>7. StreamInv(h)'
  BY DEF StreamInv, StreamKinds
<1> QED
  BY <1>5, <1>6, <1>7 DEF HandleInv

LEMMA RequestStep ==
  ASSUME SystemInv, NEW h \in Handles, NEW r \in Requests, Request(r, h), UNCHANGED poolVars
  PROVE  SystemInv'
<1>1. TypeOK
  BY DEF SystemInv
<1>2. TypeOK'
  BY <1>1, TypeStep DEF Next, TransportNext
<1>3. PoolInv(r)
  BY DEF SystemInv
<1>4. ASSUME Asked(r, h), UNCHANGED <<kind, object, held, pins, onClose, running>>, mode' = mode,
             \A g \in Handles \ {h} : closures'[g] = closures[g] /\ native'[g] = native[g],
             Counted(h) => HandleInv(h)', RequestInv(r)', req'[r].kind # "fs"
      PROVE  SystemInv'
  <2>1. \A g \in Handles \ {h} : SameHandle(g)
    BY <1>4 DEF SameHandle
  <2>2. PoolInv(r)'
    BY <1>3, <1>4, AskedSame DEF PoolInv, NewRequest, poolVars
  <2>3. \A f \in Files : FileInv(f)'
    BY <1>4, AskedFiles DEF poolVars
  <2> QED
    BY <1>2, <1>4, <2>1, <2>2, <2>3, AskedStep DEF poolVars, Next, TransportNext
<1> USE DEF TypeOK, HandlerTypeOK, RequestTypeOK
<1>5. ASSUME NEW success \in BOOLEAN, NEW callback \in BOOLEAN, Write(r, h, callback, success)
      PROVE  SystemInv'
  <2>1. /\ Asked(r, h) /\ UNCHANGED <<kind, object, native, held, pins, onClose, running>>
        /\ mode' = mode /\ kind[h] \in StreamKinds /\ object[h] = "live"
        /\ closures' = [closures EXCEPT ![h] = closures[h] + One(callback)]
        /\ req[r].state = "none"
        /\ req'[r] = [kind |-> "write", handle |-> h, callback |-> callback,
                      state |-> IF success THEN "pending" ELSE "failed", refs |-> 1 - One(~success),
                      buffer |-> One(callback) - One(~success), freed |-> FALSE]
    BY <1>1, <1>5 DEF Write, WriteRequest, Starts, CanUse, CanCall, SubmitTo, Submit, Asked
  <2>2. HandleInv(h)'
    BY <1>1, <1>2, <2>1, AskedStream
  <2>3. RequestInv(r)'
    BY <2>1, AskedSame
    DEF RequestInv, HandleRequests, PoolRequests, Pending, HasBuffer, One, Asked
  <2> QED
    BY <1>1, <1>4, <2>1, <2>2, <2>3
<1>6. ASSUME NEW success \in BOOLEAN, NEW callback \in BOOLEAN, Shutdown(r, h, callback, success)
      PROVE  SystemInv'
  <2>1. /\ Asked(r, h) /\ UNCHANGED <<kind, object, native, held, pins, onClose, running>>
        /\ mode' = mode /\ kind[h] \in StreamKinds /\ object[h] = "live"
        /\ closures' = [closures EXCEPT ![h] = closures[h] + One(callback)]
        /\ req'[r] = [kind |-> "shutdown", handle |-> h, callback |-> callback,
                      state |-> IF success THEN "pending" ELSE "failed",
                      refs |-> 1 + One(callback) - One(~success), buffer |-> 0, freed |-> FALSE]
    BY <1>1, <1>6 DEF Shutdown, Starts, CanUse, CanCall, SubmitTo, Submit, Asked
  <2>2. HandleInv(h)'
    BY <1>1, <1>2, <2>1, AskedStream
  <2>3. RequestInv(r)'
    BY <2>1, AskedSame
    DEF RequestInv, HandleRequests, PoolRequests, Pending, HasBuffer, One, Asked
  <2> QED
    BY <1>1, <1>4, <2>1, <2>2, <2>3
<1>7. ASSUME NEW success \in BOOLEAN, Connect(r, h, success)
      PROVE  SystemInv'
  <2>1. /\ Asked(r, h) /\ UNCHANGED <<kind, object, native, held, pins, onClose, running>>
        /\ mode' = mode /\ kind[h] \in StreamKinds /\ object[h] = "live"
        /\ closures' = [closures EXCEPT ![h] = closures[h] + 1]
        /\ req'[r] = [kind |-> "connect", handle |-> h, callback |-> TRUE,
                      state |-> IF success THEN "pending" ELSE "failed",
                      refs |-> 1, buffer |-> 0, freed |-> FALSE]
    BY <1>1, <1>7 DEF Connect, Starts, CanUse, CanCall, SubmitTo, Submit, Asked, StreamKinds, One
  <2>2. HandleInv(h)'
    BY <1>1, <1>2, <2>1, AskedStream DEF One
  <2>3. RequestInv(r)'
    BY <2>1, AskedSame
    DEF RequestInv, HandleRequests, PoolRequests, Pending, HasBuffer, One, Asked
  <2> QED
    BY <1>1, <1>4, <2>1, <2>2, <2>3
<1>8. ASSUME NEW success \in BOOLEAN, Send(r, h, success)
      PROVE  SystemInv'
  <2>1. /\ Asked(r, h) /\ UNCHANGED <<kind, object, held, pins, onClose, running>>
        /\ mode' = mode /\ kind[h] = "udp" /\ object[h] = "live" /\ ~IsClosing(h)
        /\ closures' = [closures EXCEPT ![h] = closures[h] + 1]
        /\ native' = [native EXCEPT ![h] = IF success THEN "active" ELSE native[h]]
        /\ req'[r] = [kind |-> "send", handle |-> h, callback |-> TRUE,
                      state |-> IF success THEN "pending" ELSE "failed",
                      refs |-> 1, buffer |-> 1, freed |-> FALSE]
    BY <1>1, <1>8 DEF Send, Starts, CanUse, CanCall, SubmitTo, Submit, Asked
  <2>2. Counted(h) => HandleInv(h)'
    BY <1>1, <1>2, <2>1, AskedSend DEF Pending
  <2>3. RequestInv(r)'
    BY <2>1, AskedSame
    DEF RequestInv, HandleRequests, PoolRequests, Pending, HasBuffer, One, Asked
  <2> QED
    BY <1>1, <1>4, <2>1, <2>2, <2>3
<1> QED
  BY <1>5, <1>6, <1>7, <1>8 DEF Request

------------------------------------------------------------------------------
(* Answers and the ends of callbacks *)

\* What an answer does to the requests.
Served(r) ==
  /\ running = NoHandle /\ serving = NoRequest /\ Pending(r)
  /\ \A q \in Requests \ {r} : req'[q] = req[q]
  /\ req'[r] = [req[r] EXCEPT !.state = "done"]
  /\ IF req[r].callback THEN serving' = r /\ running' = req[r].handle
                        ELSE serving' = NoRequest /\ running' = NoHandle
  /\ UNCHANGED <<kind, object, native, held, closures, pins, onClose, mode>>

LEMMA AnswerServes ==
  ASSUME TypeOK, NEW r \in Requests, Answer(r), UNCHANGED transportVars
  PROVE  Served(r)
BY DEF Answer, Polling, Served, TypeOK, RequestTypeOK, RequestType, transportVars

LEMMA ServedRequests ==
  ASSUME SystemInv, NEW r \in Requests, Served(r), fs' = fs
  PROVE  \A q \in Requests : RequestInv(q)' /\ PoolInv(q)'
<1>1. /\ RequestInv(r) /\ PoolInv(r) /\ serving = NoRequest /\ NoRequest \notin Requests
      /\ req[r] \in RequestType
  BY RequestAssumption
  DEF SystemInv, Served, RequestAssumption, TypeOK, RequestTypeOK
<1>2. /\ req'[r].kind = req[r].kind /\ req'[r].handle = req[r].handle
      /\ req'[r].callback = req[r].callback /\ req'[r].state = "done" /\ req[r].state = "pending"
      /\ req'[r].refs = req[r].refs /\ req'[r].buffer = req[r].buffer
      /\ req'[r].freed = req[r].freed /\ serving' \in {r, NoRequest} /\ kind' = kind
      /\ req[r].callback => serving' = r /\ running' = req[r].handle
      /\ ~req[r].callback => serving' = NoRequest
  BY <1>1 DEF Served, RequestType, Pending
<1>3. RequestInv(r)'
  BY <1>1, <1>2 DEF RequestInv, Pending, HasBuffer, One
<1>4. PoolInv(r)'
  BY <1>1, <1>2 DEF PoolInv, Pending
<1>5. ASSUME NEW q \in Requests \ {r}
      PROVE  RequestInv(q)' /\ PoolInv(q)'
  <2>1. req'[q] = req[q] /\ RequestInv(q) /\ PoolInv(q) /\ serving # q /\ serving' # q
    BY <1>1, <1>2 DEF SystemInv, Served
  <2> QED
    BY <1>2, <2>1 DEF RequestInv, PoolInv, Pending, HasBuffer, NewRequest, One
<1> QED
  BY <1>3, <1>4, <1>5

LEMMA ServedHandles ==
  ASSUME SystemInv, TypeOK', NEW r \in Requests, Served(r), NEW g \in Handles, Counted(g)
  PROVE  HandleInv(g)'
<1>1. /\ TypeOK /\ RequestInv(r) /\ HandleInv(g) /\ NoRequest \notin Requests
      /\ NoHandle \notin Handles /\ req[r] \in RequestType
  BY RequestAssumption, HandlerAssumption
  DEF SystemInv, HandleOK, RequestAssumption, HandlerAssumption, TypeOK, RequestTypeOK
<1>2. /\ req'[r].handle = req[r].handle /\ req'[r].callback = req[r].callback
      /\ req'[r].state = "done" /\ req[r].state = "pending"
  BY <1>1 DEF Served, RequestType, Pending
<1>3. CASE g # req[r].handle
  <2>1. SameHandle(g)
    BY <1>1, <1>3 DEF SameHandle, Served
  <2>2. OpenOn(g)' = OpenOn(g)
    BY <1>1, <1>2, <1>3 DEF OpenOn, Pending, Served
  <2>3. PendingOn(g)' = PendingOn(g) /\ Awaited(g)' = Awaited(g)
    <3>1. PendingOn(g)' = PendingOn(g)
      BY <1>2, <1>3 DEF PendingOn, Pending, Served
    <3> QED
      BY <1>2, <1>3, <3>1 DEF Awaited, PendingOn, Served
  <2>4. (\A q \in Requests : req[q].handle # g) => (\A q \in Requests : req'[q].handle # g)
    BY <1>2, <1>3 DEF Served
  <2> QED
    BY <1>1, <2>1, <2>2, <2>3, <2>4, Frame DEF SameRequests, Served
<1>4. CASE g = req[r].handle
  <2>1. r \in PendingOn(g) /\ object[g] # "none"
    BY <1>1, <1>4 DEF PendingOn, Served, HandleInv, MadeInv
  <2>2. /\ PendingOn(g)' = PendingOn(g) \ {r} /\ Awaited(g)' = Awaited(g) \ {r}
        /\ OpenOn(g)' = IF req[r].callback THEN OpenOn(g) ELSE OpenOn(g) \ {r}
    <3>1. PendingOn(g)' = PendingOn(g) \ {r}
      BY <1>2, <1>4 DEF PendingOn, Served, Pending
    <3>2. Awaited(g)' = Awaited(g) \ {r}
      BY <1>2, <1>4 DEF Awaited, PendingOn, Served, Pending
    <3>3. CASE req[r].callback
      BY <1>1, <1>2, <1>4, <3>1, <3>2, <3>3 DEF OpenOn, Served, Pending
    <3>4. CASE ~req[r].callback
      BY <1>1, <1>2, <1>4, <3>1, <3>2, <3>4 DEF OpenOn, Served, Pending
    <3> QED
      BY <3>3, <3>4
  <2>3. running' = g => object[g] = "live"
    <3>1. running' = g => r \in Awaited(g)
      BY <1>1, <2>1 DEF Served, Awaited
    <3>2. closures[g] \in Nat /\ pins[g] \in Int /\ object[g] \in {"live", "destroyed"}
      BY <1>1, <2>1 DEF TypeOK, HandlerTypeOK
    <3> QED
      BY <1>1, <2>1, <3>1, <3>2, KeptEnough DEF HandleInv, DestroyedInv, Kept
  <2>4. MadeInv(g)' /\ DestroyedInv(g)'
    BY <1>1, <2>1, <2>3 DEF HandleInv, MadeInv, DestroyedInv, Served, Kept
  <2>5. StreamInv(g)'
    <3>1. closures[g] \in Nat /\ pins[g] \in Int
      BY <1>1 DEF TypeOK, HandlerTypeOK
    <3> QED
      BY <1>1, <2>2, <3>1 DEF HandleInv, StreamInv, Served, Kept, One
  <2>6. UdpInv(g)'
    <3> SUFFICES ASSUME kind[g] = "udp"
                 PROVE  UdpInv(g)'
      BY DEF UdpInv, Served
    <3>1. req[r].callback
      BY <1>1, <1>2, <1>4
      DEF RequestInv, HandleRequests, PoolRequests, RequestType, StreamKinds, NewRequest
    <3>2. serving' = r /\ OpenOn(g)' = OpenOn(g)
      BY <2>2, <3>1 DEF Served
    <3> QED
      BY <1>1, <2>2, <3>2 DEF HandleInv, UdpInv, Served, Kept, One, IsClosing
  <2> QED
    BY <2>4, <2>5, <2>6 DEF HandleInv
<1> QED
  BY <1>3, <1>4

\* What the end of a callback does to the requests.
Left(r, given, buffers) ==
  /\ serving = r /\ serving' = NoRequest
  /\ \A q \in Requests \ {r} : req'[q] = req[q]
  /\ req'[r] = [req[r] EXCEPT !.refs = @ - given, !.buffer = @ - buffers]

LEMMA AnsweredLeft ==
  ASSUME TypeOK, NEW r \in Requests, NEW given \in Int, NEW buffers \in Int,
         Answered(r, given, buffers)
  PROVE  Left(r, given, buffers)
BY DEF Answered, Left, TypeOK, RequestTypeOK, RequestType

LEMMA LeftOthers ==
  ASSUME SystemInv, NEW r \in Requests, NEW given, NEW buffers, Left(r, given, buffers),
         NEW q \in Requests \ {r}, kind' = kind, fs'[q] = fs[q]
  PROVE  RequestInv(q)' /\ PoolInv(q)'
<1>1. /\ req'[q] = req[q] /\ RequestInv(q) /\ PoolInv(q) /\ serving # q /\ serving' # q
  BY RequestAssumption DEF SystemInv, Left, RequestAssumption
<1> QED
  BY <1>1 DEF RequestInv, PoolInv, Pending, HasBuffer, NewRequest, One

\* The callback of a request of a handle returns: what was given for it is back.
LEMMA AnswerReturnStep ==
  ASSUME SystemInv, TypeOK', NEW r \in Requests, NEW h \in Handles, AnswerReturn(r, h),
         UNCHANGED poolVars
  PROVE  SystemInv'
<1>1. /\ TypeOK /\ RequestInv(r) /\ PoolInv(r) /\ NoRequest \notin Requests
      /\ NoHandle \notin Handles /\ req[r] \in RequestType
  BY RequestAssumption, HandlerAssumption
  DEF SystemInv, RequestAssumption, HandlerAssumption, TypeOK, RequestTypeOK
<1> DEFINE back == One(req[r].kind = "send" /\ ~IsClosing(h))
<1>2. /\ req[r].kind \in HandleRequests /\ running = h /\ running' = NoHandle
      /\ Left(r, 1, One(HasBuffer(r))) /\ Settle(h)
      /\ kind' = kind /\ held' = held /\ closures' = closures /\ onClose' = onClose /\ mode' = mode
      /\ pins' = [pins EXCEPT ![h] = @ - back]
      /\ native' = [native EXCEPT ![h] =
           IF @ = "active" /\ mode[h] = "idle" /\ PendingOn(h) = {} THEN "inactive" ELSE @]
  <2>1. One(HasBuffer(r)) \in Int
    BY DEF One
  <2>2. Answered(r, 1, One(HasBuffer(r)))
    BY DEF AnswerReturn, AnswerEnd
  <2> QED
    BY <1>1, <2>1, <2>2, AnsweredLeft DEF AnswerReturn, AnswerEnd
<1>3. /\ serving = r /\ serving' = NoRequest /\ req[r].state = "done" /\ req[r].callback
      /\ req[r].handle = h /\ ~req[r].freed
      /\ req[r].refs = IF req[r].kind = "shutdown" THEN 2 ELSE 1
      /\ req[r].buffer = One(HasBuffer(r))
  BY <1>1, <1>2 DEF Left, RequestInv, HandleRequests
<1>4. /\ req'[r].kind = req[r].kind /\ req'[r].handle = h /\ req'[r].callback
      /\ req'[r].state = "done" /\ req'[r].refs = req[r].refs - 1 /\ req'[r].buffer = 0
      /\ req'[r].freed = req[r].freed
  BY <1>1, <1>2, <1>3 DEF Left, RequestType, One
<1>a. \A q \in Requests \ {r} : req'[q] = req[q]
  BY <1>2 DEF Left
<1>5. RequestInv(r)'
  BY <1>1, <1>2, <1>3, <1>4 DEF RequestInv, Pending
<1>6. PoolInv(r)'
  BY <1>1, <1>2, <1>4 DEF PoolInv, HandleRequests, poolVars
<1>7. ASSUME NEW f \in Files
      PROVE  FileInv(f)'
  <2>1. FileInv(f) /\ fs[r].fd_alt = NoFile /\ f # NoFile /\ file' = file /\ fs' = fs
    BY <1>1, <1>2, PoolAssumption DEF SystemInv, PoolInv, HandleRequests, PoolAssumption, poolVars
  <2>2. SUFFICES ASSUME Busy(f)
                 PROVE  Busy(f)'
    BY <2>1 DEF FileInv
  <2>3. PICK q \in Requests : (Pending(q) \/ serving = q) /\ fs[q].fd_alt = f
    BY <2>2 DEF Busy
  <2>4. q # r /\ req'[q] = req[q] /\ Pending(q)
    BY <1>2, <1>3, <2>1, <2>3 DEF Left
  <2> QED
    BY <2>1, <2>3, <2>4 DEF Busy, Pending
<1>8. ASSUME NEW g \in Handles
      PROVE  /\ PendingOn(g)' = PendingOn(g) /\ Awaited(g)' = Awaited(g)
             /\ OpenOn(g)' = OpenOn(g) \ {r}
             /\ (\A q \in Requests : req[q].handle # g) => (\A q \in Requests : req'[q].handle # g)
  <2>1. PendingOn(g)' = PendingOn(g)
    BY <1>a, <1>3, <1>4 DEF PendingOn, Pending
  <2>2. Awaited(g)' = Awaited(g)
    BY <1>a, <1>3, <1>4, <2>1 DEF PendingOn, Awaited, Pending
  <2>3. OpenOn(g)' = OpenOn(g) \ {r}
    BY <1>a, <1>1, <1>3, <1>4 DEF OpenOn, Pending
  <2> QED
    BY <1>a, <1>3, <1>4, <2>1, <2>2, <2>3
<1>9. ASSUME NEW g \in Handles \ {h}, Counted(g)
      PROVE  HandleInv(g)'
  <2>1. SameHandle(g)
    BY <1>1, <1>2 DEF SameHandle, Settle, TypeOK, HandlerTypeOK, TransportTypeOK
  <2>2. SameRequests(g)
    <3>1. OpenOn(g) \ {r} = OpenOn(g)
      BY <1>3 DEF OpenOn
    <3> QED
      BY <1>8, <3>1 DEF SameRequests
  <2> QED
    BY <1>2, <1>9, <2>1, <2>2, Frame DEF SystemInv, HandleOK
<1>10. ASSUME Counted(h)
       PROVE  HandleInv(h)'
  <2>a. HandleInv(h)
    BY <1>10 DEF SystemInv, HandleOK
  <2>1. /\ closures[h] \in Nat /\ pins[h] \in Int /\ back \in {0, 1}
        /\ pins'[h] = pins[h] - back
        /\ native'[h] = IF native[h] = "active" /\ mode[h] = "idle" /\ PendingOn(h) = {}
                          THEN "inactive" ELSE native[h]
    BY <1>1, <1>2 DEF TypeOK, HandlerTypeOK, One
  <2> HIDE DEF back
  <2>2. object[h] = "live"
    BY <1>1, <1>2, <2>a DEF HandleInv, MadeInv, DestroyedInv, TypeOK, HandlerTypeOK
  <2>3. r \in OpenOn(h) /\ IsFiniteSet(OpenOn(h)) /\ Cardinality(OpenOn(h)) \in Nat
    BY <1>3, OpenCount, FS_Subset, SystemAssumption DEF OpenOn, SystemAssumption
  <2>4. Cardinality(OpenOn(h) \ {r}) = Cardinality(OpenOn(h)) - 1
    BY <2>3, FS_RemoveElement
  <2>5. Cardinality(OpenOn(h))' = Cardinality(OpenOn(h)) - 1
    BY <1>8, <2>4
  <2>6. StreamInv(h)' /\ (kind[h] \in StreamKinds => Kept(h)' >= 0)
    <3> SUFFICES ASSUME kind[h] \in StreamKinds
                 PROVE  StreamInv(h)' /\ Kept(h)' >= 0
      BY <1>2 DEF StreamInv
    <3>1. back = 0
      BY <1>1, <1>2, <1>3 DEF back, One, RequestInv, StreamKinds
    <3> QED
      BY <1>1, <1>2, <1>8, <2>a, <2>1, <3>1 DEF HandleInv, StreamInv, Kept, One
  <2>7. UdpInv(h)' /\ (kind[h] = "udp" => Kept(h)' >= 0)
    <3> SUFFICES ASSUME kind[h] = "udp"
                 PROVE  UdpInv(h)' /\ Kept(h)' >= 0
      BY <1>2 DEF UdpInv
    <3>1. req[r].kind = "send"
      BY <1>1, <1>2, <1>3 DEF RequestInv, StreamKinds
    <3>2. back = IF IsClosing(h) THEN 0 ELSE 1
      BY <3>1 DEF back, One
    <3>3. PendingOn(h) # {} => OpenOn(h)' # {}
      BY <1>3, <1>8 DEF OpenOn, PendingOn, Pending
    <3>4. running' # h
      BY <1>1, <1>2
    <3>5. UdpInv(h)
      BY <2>a DEF HandleInv
    <3>6. CASE IsClosing(h)
      <4>1. IsClosing(h)' /\ native'[h] # "active"
        BY <2>1, <3>6 DEF IsClosing
      <4> QED
        BY <1>2, <1>8, <2>1, <3>2, <3>5, <3>6, <4>1 DEF UdpInv, Kept, One, IsClosing
    <3>7. CASE ~IsClosing(h)
      <4>1. ~IsClosing(h)'
        BY <2>1, <3>7 DEF IsClosing
      <4>2. native'[h] = "active" => mode[h] = "reading" \/ OpenOn(h)' # {}
        BY <1>1, <2>1, <3>3, <3>5 DEF UdpInv, TypeOK, TransportTypeOK
      <4>3. mode[h] = "reading" => native'[h] = "active"
        BY <2>1, <3>5, <3>7 DEF UdpInv
      <4>4. Kept(h)' >= Cardinality(OpenOn(h))' + 2 * One(mode[h] = "reading")
        BY <1>2, <2>1, <2>3, <2>5, <3>2, <3>5, <3>7 DEF UdpInv, Kept, One
      <4>5. Kept(h)' >= 0
        <5>1. Cardinality(OpenOn(h)) >= 1
          BY <2>3, OpenCount
        <5>2. Kept(h)' \in Int
          BY <1>2, <2>1 DEF Kept
        <5> QED
          BY <2>3, <2>5, <4>4, <5>1, <5>2 DEF One
      <4> QED
        BY <1>2, <3>4, <3>5, <3>7, <4>1, <4>2, <4>3, <4>4, <4>5 DEF UdpInv
    <3> QED
      BY <3>6, <3>7
  <2>8. Kept(h)' >= 0
    BY <2>a, <2>2, <2>6, <2>7 DEF HandleInv, MadeInv
  <2>9. object'[h] \in {"live", "destroyed"} /\ DestroyedInv(h)'
    BY <1>1, <1>2, <2>2, <2>8, SettleInv
  <2>10. MadeInv(h)'
    BY <1>1, <1>2, <2>a, <2>2, <2>9 DEF HandleInv, MadeInv
  <2> QED
    BY <2>6, <2>7, <2>9, <2>10 DEF HandleInv
<1>11. ASSUME NEW q \in Requests \ {r}
       PROVE  RequestInv(q)' /\ PoolInv(q)'
  BY <1>2, LeftOthers DEF poolVars
<1>12. \A g \in Handles : HandleOK(g)'
  BY <1>1, <1>9, <1>10, HandlesStep DEF SystemInv, Next, TransportNext, HandleAnswer
<1> QED
  BY <1>5, <1>6, <1>7, <1>11, <1>12 DEF SystemInv

LEMMA HandleAnswerStep ==
  ASSUME SystemInv, NEW r \in Requests, HandleAnswer(r), UNCHANGED poolVars
  PROVE  SystemInv'
<1>1. TypeOK
  BY DEF SystemInv
<1>2. TypeOK'
  BY <1>1, TypeStep DEF Next, TransportNext
<1>3. CASE req[r].kind \in HandleRequests /\ Answer(r) /\ UNCHANGED transportVars
  <2>1. Served(r)
    BY <1>1, <1>3, AnswerServes
  <2>2. fs' = fs /\ file' = file
    BY DEF poolVars
  <2>3. ASSUME NEW f \in Files
        PROVE  FileInv(f)'
    <3>1. FileInv(f) /\ fs[r].fd_alt = NoFile /\ f # NoFile
      BY <1>3, PoolAssumption DEF SystemInv, PoolInv, HandleRequests, PoolAssumption
    <3>2. SUFFICES ASSUME Busy(f)
                   PROVE  Busy(f)'
      BY <2>2, <3>1 DEF FileInv
    <3>3. PICK q \in Requests : (Pending(q) \/ serving = q) /\ fs[q].fd_alt = f
      BY <3>2 DEF Busy
    <3>4. q # r /\ req'[q] = req[q] /\ Pending(q)
      BY <2>1, <3>1, <3>3, RequestAssumption DEF Served, RequestAssumption
    <3> QED
      BY <2>2, <3>3, <3>4 DEF Busy, Pending
  <2>4. \A g \in Handles : HandleOK(g)'
    BY <1>1, <1>2, <2>1, ServedHandles, HandlesStep DEF SystemInv, Next, TransportNext
  <2> QED
    BY <1>2, <2>1, <2>2, <2>3, <2>4, ServedRequests DEF SystemInv
<1>4. ASSUME NEW h \in Handles, AnswerReturn(r, h)
      PROVE  SystemInv'
  BY <1>2, <1>4, AnswerReturnStep
<1> QED
  BY <1>3, <1>4 DEF HandleAnswer

------------------------------------------------------------------------------
(* The pool *)

\* A new request of the pool: nothing but it and its file changes.
LEMMA AskStep ==
  ASSUME SystemInv, NEW r \in Requests, Ask(r), UNCHANGED transportVars
  PROVE  SystemInv'
<1>1. /\ TypeOK /\ RequestInv(r) /\ PoolInv(r) /\ NoFile \notin Files
  BY PoolAssumption DEF SystemInv, PoolAssumption
<1>2. TypeOK'
  BY <1>1, TypeStep DEF Next, PoolNext
<1>3. /\ UNCHANGED <<kind, object, native, held, closures, pins, onClose, running>> /\ mode' = mode
      /\ \A g \in Handles : SameHandle(g)
  BY DEF Ask, handlerVars, transportVars, SameHandle
<1>4. ASSUME Asked(r, NoHandle), \A q \in Requests \ {r} : fs'[q] = fs[q],
             RequestInv(r)', PoolInv(r)', \A f \in Files : FileInv(f)'
      PROVE  SystemInv'
  BY <1>2, <1>3, <1>4, AskedStep, HandlerAssumption DEF HandlerAssumption, Next, PoolNext
<1>5. ASSUME Asked(r, NoHandle), fs' = fs, file' = file
      PROVE  \A f \in Files : FileInv(f)'
  BY <1>5, AskedFiles
<1>6. ASSUME Asked(r, NoHandle), \A q \in Requests \ {r} : fs'[q] = fs[q], NEW f \in Files,
             Busy(f)
      PROVE  Busy(f)'
  <2>1. PICK q \in Requests : (Pending(q) \/ serving = q) /\ fs[q].fd_alt = f
    BY <1>6 DEF Busy
  <2>2. q # r
    BY <1>6, <2>1, AskedSame DEF NewRequest, Pending
  <2> QED
    BY <1>6, <2>1, <2>2, AskedSame DEF Busy, Asked
<1> USE DEF TypeOK, RequestTypeOK, PoolTypeOK
<1>7. ASSUME NEW k \in {"getnameinfo", "getaddrinfo", "work"}, NEW callback \in BOOLEAN,
             NEW state \in {"pending", "failed", "done"}, NEW refs \in {-1, 1},
             req[r].state = "none", serving' = serving, UNCHANGED poolVars,
             callback => state # "done" /\ refs = 1, ~callback => state = "done",
             req' = [req EXCEPT ![r] =
               [kind |-> k, handle |-> NoHandle, callback |-> callback, state |-> state,
                refs |-> refs, buffer |-> 0, freed |-> FALSE]]
      PROVE  SystemInv'
  <2>1. /\ Asked(r, NoHandle)
        /\ req'[r] = [kind |-> k, handle |-> NoHandle, callback |-> callback, state |-> state,
                      refs |-> refs, buffer |-> 0, freed |-> FALSE]
    BY <1>1, <1>7 DEF Asked
  <2>2. RequestInv(r)'
    BY <1>7, <2>1, AskedSame
    DEF RequestInv, HandleRequests, PoolRequests, Pending, HasBuffer, One, Asked
  <2>3. PoolInv(r)'
    BY <1>1, <1>7, <2>1, AskedSame DEF PoolInv, NewRequest, poolVars
  <2> QED
    BY <1>4, <1>5, <1>7, <2>1, <2>2, <2>3 DEF poolVars
<1>8. ASSUME NEW success \in BOOLEAN, NEW callback \in BOOLEAN, GetNameInfo(r, callback, success)
      PROVE  SystemInv'
  <2>1. CASE callback
    <3>1. Submit(r, "getnameinfo", NoHandle, TRUE, IF success THEN "pending" ELSE "failed", 1, 0)
      BY <1>8, <2>1 DEF GetNameInfo, Queue
    <3>2. CASE success
      BY <1>7, <1>8, <3>1, <3>2 DEF Submit, GetNameInfo
    <3>3. CASE ~success
      BY <1>7, <1>8, <3>1, <3>3 DEF Submit, GetNameInfo
    <3> QED
      BY <3>2, <3>3
  <2>2. CASE ~callback
    <3>1. Submit(r, "getnameinfo", NoHandle, FALSE, "done", -1, 0)
      BY <1>8, <2>2 DEF GetNameInfo, Queue
    <3> QED
      BY <1>7, <1>8, <3>1 DEF Submit, GetNameInfo
  <2> QED
    BY <2>1, <2>2
<1>9. ASSUME NEW success \in BOOLEAN, GetAddrInfo(r, success) \/ QueueWork(r, success)
      PROVE  SystemInv'
  <2>1. PICK k \in {"getaddrinfo", "work"}, state \in {"pending", "failed"} :
          /\ req[r].state = "none" /\ serving' = serving /\ UNCHANGED poolVars
          /\ req' = [req EXCEPT ![r] =
               [kind |-> k, handle |-> NoHandle, callback |-> TRUE, state |-> state,
                refs |-> 1, buffer |-> 0, freed |-> FALSE]]
    <3>1. PICK state \in {"pending", "failed"} : state = IF success THEN "pending" ELSE "failed"
      OBVIOUS
    <3>2. CASE GetAddrInfo(r, success)
      BY <3>1, <3>2 DEF GetAddrInfo, Queue, Submit
    <3>3. CASE QueueWork(r, success)
      BY <3>1, <3>3 DEF QueueWork, Queue, Submit
    <3> QED
      BY <1>9, <3>2, <3>3
  <2> QED
    BY <1>7, <2>1
<1>10. ASSUME NEW success \in BOOLEAN, NEW f \in Files, FsOpenBlock(r, f, success)
       PROVE  SystemInv'
  <2>1. /\ Asked(r, NoHandle) /\ \A q \in Requests \ {r} : fs'[q] = fs[q]
        /\ req'[r] = [kind |-> "fs", handle |-> NoHandle, callback |-> FALSE, state |-> "done",
                      refs |-> 1, buffer |-> 0, freed |-> FALSE]
    BY <1>1, <1>10 DEF FsOpenBlock, Queue, Submit, Asked
  <2>2. RequestInv(r)'
    BY <2>1, AskedSame DEF RequestInv, HandleRequests, PoolRequests, Pending, HasBuffer, One, Asked
  <2>3. PoolInv(r)'
    BY <2>1, AskedSame DEF PoolInv, Pending, Asked
  <2>4. ASSUME NEW g \in Files
        PROVE  FileInv(g)'
    <3>1. FileInv(g)
      BY DEF SystemInv
    <3>2. CASE g = f
      BY <1>1, <1>10, <3>2 DEF FsOpenBlock, FileInv
    <3>3. CASE g # f
      BY <1>1, <1>6, <1>10, <2>1, <3>1, <3>3 DEF FsOpenBlock, FileInv
    <3> QED
      BY <3>2, <3>3
  <2> QED
    BY <1>4, <2>1, <2>2, <2>3, <2>4
<1>11. ASSUME NEW op \in Callers, NEW f \in Files \cup {NoFile}, FsOperation(r, op, f)
       PROVE  SystemInv'
  <2>1. CASE FsQueue(r, op, f)
    <3>1. /\ Asked(r, NoHandle) /\ \A q \in Requests \ {r} : fs'[q] = fs[q]
          /\ file' = file
          /\ req'[r] = [kind |-> "fs", handle |-> NoHandle, callback |-> TRUE, state |-> "pending",
                        refs |-> 1, buffer |-> BufferOf(op), freed |-> FALSE]
          /\ fs'[r] = [op |-> op, fd_alt |-> f, clean |-> FALSE]
      BY <1>1, <2>1 DEF FsQueue, FsQueued, Queue, Submit, Asked
    <3>2. RequestInv(r)'
      BY <3>1, AskedSame
      DEF RequestInv, HandleRequests, PoolRequests, Pending, HasBuffer, One, Asked
    <3>3. PoolInv(r)'
      <4>1. op \in {"read", "write"} => BufferOf(op) = 1
        BY DEF BufferOf, One
      <4>2. op \in FileFunctions => f # NoFile
        BY <1>1, <1>11 DEF FsOperation, CanName
      <4> QED
        BY <3>1, <4>1, <4>2 DEF PoolInv
    <3>4. ASSUME NEW g \in Files
          PROVE  FileInv(g)'
      <4>1. FileInv(g)
        BY DEF SystemInv
      <4> QED
        BY <1>6, <3>1, <4>1 DEF FileInv
    <3> QED
      BY <1>4, <3>1, <3>2, <3>3, <3>4
  <2>2. ASSUME NEW callback \in BOOLEAN, FsRefused(r, op, f, callback)
        PROVE  SystemInv'
    <3>1. /\ Asked(r, NoHandle) /\ \A q \in Requests \ {r} : fs'[q] = fs[q]
          /\ file' = Unlisted(file, f)
          /\ req'[r] = [kind |-> "fs", handle |-> NoHandle, callback |-> callback, state |-> "failed",
                        refs |-> One(callback), buffer |-> 0, freed |-> FALSE]
      BY <1>1, <2>2 DEF FsRefused, Queue, Submit, Asked
    <3>2. RequestInv(r)'
      BY <3>1, AskedSame
      DEF RequestInv, HandleRequests, PoolRequests, Pending, HasBuffer, Asked
    <3>3. PoolInv(r)'
      BY <3>1, AskedSame DEF PoolInv, Pending, Asked
    <3>4. ASSUME NEW g \in Files
          PROVE  FileInv(g)'
      <4>1. FileInv(g)
        BY DEF SystemInv
      <4> QED
        BY <1>1, <1>6, <3>1, <4>1 DEF FileInv, Unlisted
    <3> QED
      BY <1>4, <3>1, <3>2, <3>3, <3>4
  <2>3. ASSUME NEW success \in BOOLEAN, FsBlock(r, op, f, success)
        PROVE  SystemInv'
    <3>1. /\ Asked(r, NoHandle) /\ \A q \in Requests \ {r} : fs'[q] = fs[q]
          /\ file' = IF op # "close" /\ (success \/ op \in Overwritten)
                       THEN Performed(file, op, f, success)
                     ELSE Unlisted(Performed(file, op, f, success), f)
          /\ req'[r] = [kind |-> "fs", handle |-> NoHandle, callback |-> FALSE, state |-> "done",
                        refs |-> 0, buffer |-> 0, freed |-> FALSE]
      BY <1>1, <2>3 DEF FsBlock, Queue, Submit, Asked
    <3>2. RequestInv(r)'
      BY <3>1, AskedSame
      DEF RequestInv, HandleRequests, PoolRequests, Pending, HasBuffer, One, Asked
    <3>3. PoolInv(r)'
      BY <3>1, AskedSame DEF PoolInv, Pending, Asked
    <3>4. ASSUME NEW g \in Files
          PROVE  FileInv(g)'
      <4>1. FileInv(g)
        BY DEF SystemInv
      <4>2. CASE op # "close"
        BY <1>1, <1>6, <3>1, <4>1, <4>2 DEF FileInv, Unlisted, Performed
      <4>3. CASE op = "close" /\ f \in Files
        <5>1. CASE g = f
          BY <1>1, <3>1, <4>3, <5>1 DEF FileInv, Unlisted, Performed
        <5>2. CASE g # f
          BY <1>1, <1>6, <3>1, <4>1, <4>3, <5>2 DEF FileInv, Unlisted, Performed
        <5> QED
          BY <5>1, <5>2
      <4>4. CASE op = "close" /\ f = NoFile
        BY <1>1, <1>11, <4>4 DEF FsOperation, CanName, FileFunctions
      <4> QED
        BY <4>2, <4>3, <4>4
    <3> QED
      BY <1>4, <3>1, <3>2, <3>3, <3>4
  <2> QED
    BY <1>11, <2>1, <2>2, <2>3 DEF FsOperation
<1> QED
  BY <1>8, <1>9, <1>10, <1>11 DEF Ask

\* The pool answers: a file that was closed is worked on until the callback ends.
LEMMA PoolAnswerStep ==
  ASSUME SystemInv, NEW r \in Requests, NEW success \in BOOLEAN, PoolAnswer(r, success),
         UNCHANGED transportVars
  PROVE  SystemInv'
<1>1. /\ TypeOK /\ PoolInv(r) /\ NoFile \notin Files
  BY PoolAssumption DEF SystemInv, PoolAssumption
<1>2. TypeOK'
  BY <1>1, TypeStep DEF Next, PoolNext
<1>3. Served(r) /\ fs' = fs
  BY <1>1, AnswerServes DEF PoolAnswer
<1>4. /\ \A q \in Requests : RequestInv(q)' /\ PoolInv(q)'
      /\ \A g \in Handles : HandleOK(g)'
  BY <1>1, <1>2, <1>3, ServedRequests, ServedHandles, HandlesStep DEF SystemInv, Next, PoolNext
<1>5. req[r].kind = "fs" => serving' = r
  BY <1>1, <1>3 DEF Served, PoolInv
<1>6. ASSUME NEW f \in Files
      PROVE  FileInv(f)'
  <2>1. FileInv(f) /\ (req[r].kind # "fs" => fs[r].op = "none" /\ fs[r].fd_alt = NoFile)
    BY <1>1 DEF SystemInv, PoolInv
  <2>2. ASSUME Busy(f)
        PROVE  Busy(f)'
    <3>1. PICK q \in Requests : (Pending(q) \/ serving = q) /\ fs[q].fd_alt = f
      BY <2>2 DEF Busy
    <3>2. CASE q = r
      <4>1. req[r].kind = "fs"
        BY <1>1, <2>1, <3>1, <3>2
      <4> QED
        BY <1>3, <1>5, <3>1, <3>2, <4>1 DEF Busy
    <3>3. CASE q # r
      <4>1. req'[q] = req[q] /\ Pending(q)
        BY <1>3, <3>1, <3>3, RequestAssumption DEF Served, RequestAssumption
      <4> QED
        BY <1>3, <3>1, <4>1 DEF Busy, Pending
    <3> QED
      BY <3>2, <3>3
  <2>3. ASSUME NEW g \in Files, file' = [file EXCEPT ![g] = [state |-> "open", listed |-> TRUE]]
        PROVE  FileInv(f)'
    BY <1>1, <2>1, <2>2, <2>3 DEF FileInv, TypeOK, PoolTypeOK
  <2>4. CASE file' = Performed(file, fs[r].op, fs[r].fd_alt, success)
    <3>1. CASE fs[r].op = "close" /\ success /\ fs[r].fd_alt = f
      <4>1. req[r].kind = "fs"
        BY <2>1, <3>1
      <4>2. Busy(f)'
        BY <1>3, <1>5, <3>1, <4>1 DEF Busy
      <4> QED
        BY <4>2 DEF FileInv
    <3>2. CASE ~(fs[r].op = "close" /\ success /\ fs[r].fd_alt = f)
      <4>1. file'[f] = file[f]
        BY <1>1, <2>4, <3>2 DEF Performed, TypeOK, PoolTypeOK
      <4> QED
        BY <2>1, <2>2, <4>1 DEF FileInv
    <3> QED
      BY <3>1, <3>2
  <2> QED
    BY <2>3, <2>4 DEF PoolAnswer
<1> QED
  BY <1>2, <1>4, <1>6 DEF SystemInv

\* The callback of a request of the pool returns.
LEMMA PoolReturnStep ==
  ASSUME SystemInv, NEW r \in Requests, PoolReturn(r), UNCHANGED transportVars
  PROVE  SystemInv'
<1>1. /\ TypeOK /\ RequestInv(r) /\ PoolInv(r) /\ NoFile \notin Files /\ NoRequest \notin Requests
      /\ req[r] \in RequestType /\ NoHandle \notin Handles
  BY PoolAssumption, RequestAssumption, HandlerAssumption
  DEF SystemInv, PoolAssumption, RequestAssumption, HandlerAssumption, TypeOK, RequestTypeOK
<1>2. TypeOK'
  BY <1>1, TypeStep DEF Next, PoolNext
<1>3. /\ serving = r /\ serving' = NoRequest /\ req[r].kind \in PoolRequests
      /\ UNCHANGED <<kind, object, native, held, closures, pins, onClose, running>> /\ mode' = mode
  BY DEF PoolReturn, LookupReturn, AddrInfoReturn, FsReturn, Answered, handlerVars, transportVars,
     PoolRequests
<1>4. /\ req[r].state = "done" /\ req[r].callback /\ req[r].handle = NoHandle /\ ~req[r].freed
      /\ req[r].refs = 1 /\ running = NoHandle
      /\ req[r].kind # "fs" => req[r].buffer = 0
  BY <1>1, <1>3 DEF RequestInv, PoolRequests, HasBuffer, One
<1>5. /\ \A q \in Requests \ {r} : req'[q] = req[q] /\ fs'[q] = fs[q]
      /\ req'[r].kind = req[r].kind /\ req'[r].handle = NoHandle /\ req'[r].callback
      /\ req'[r].state = "done" /\ req'[r].buffer = 0
      /\ \/ req[r].kind \in {"getnameinfo", "work"} /\ req'[r].refs = 0 /\ UNCHANGED poolVars
         \/ req[r].kind = "getaddrinfo" /\ req'[r].refs = 1 /\ req'[r].freed /\ UNCHANGED poolVars
         \/ req[r].kind = "fs" /\ req'[r].refs = 1 /\ file' = Unlisted(file, fs[r].fd_alt)
  <2>1. CASE LookupReturn(r)
    BY <1>1, <1>4, <2>1
    DEF LookupReturn, Answered, TypeOK, RequestTypeOK, RequestType, poolVars
  <2>2. CASE AddrInfoReturn(r)
    BY <1>1, <1>4, <2>2
    DEF AddrInfoReturn, TypeOK, RequestTypeOK, RequestType, poolVars
  <2>3. CASE FsReturn(r)
    BY <1>1, <1>4, <2>3
    DEF FsReturn, Answered, TypeOK, RequestTypeOK, PoolTypeOK, RequestType
  <2> QED
    BY <2>1, <2>2, <2>3 DEF PoolReturn
<1>6. RequestInv(r)'
  BY <1>1, <1>3, <1>4, <1>5 DEF RequestInv, Pending, PoolRequests, HandleRequests
<1>7. PoolInv(r)'
  BY <1>1, <1>3, <1>5 DEF PoolInv, Pending, poolVars
<1>8. ASSUME NEW q \in Requests \ {r}
      PROVE  RequestInv(q)' /\ PoolInv(q)'
  <2>1. req'[q] = req[q] /\ RequestInv(q) /\ PoolInv(q) /\ serving # q /\ serving' # q
        /\ kind' = kind /\ fs'[q] = fs[q]
    BY <1>1, <1>3, <1>5 DEF SystemInv
  <2> QED
    BY <2>1 DEF RequestInv, PoolInv, Pending, HasBuffer, NewRequest, One
<1>9. ASSUME NEW g \in Handles, Counted(g)
      PROVE  HandleInv(g)'
  <2>1. SameHandle(g)
    BY <1>3 DEF SameHandle
  <2>2. OpenOn(g)' = OpenOn(g)
    BY <1>1, <1>3, <1>4, <1>5 DEF OpenOn, Pending
  <2>3. PendingOn(g)' = PendingOn(g)
    BY <1>1, <1>4, <1>5 DEF PendingOn, Pending
  <2>4. Awaited(g)' = Awaited(g)
    BY <1>1, <1>4, <1>5, <2>3 DEF Awaited, PendingOn
  <2>5. (\A q \in Requests : req[q].handle # g) => (\A q \in Requests : req'[q].handle # g)
    BY <1>1, <1>4, <1>5
  <2> QED
    BY <1>1, <1>3, <1>4, <1>9, <2>1, <2>2, <2>3, <2>4, <2>5, Frame
    DEF SameRequests, SystemInv, HandleOK
<1>10. ASSUME NEW f \in Files
       PROVE  FileInv(f)'
  <2>1. FileInv(f) /\ (req[r].kind # "fs" => fs[r].fd_alt = NoFile)
    BY <1>1 DEF SystemInv, PoolInv
  <2>2. ASSUME Busy(f), fs[r].fd_alt # f
        PROVE  Busy(f)'
    <3>1. PICK q \in Requests : (Pending(q) \/ serving = q) /\ fs[q].fd_alt = f
      BY <2>2 DEF Busy
    <3>2. q # r /\ Pending(q)
      BY <1>3, <2>2, <3>1
    <3> QED
      BY <1>5, <3>1, <3>2 DEF Busy, Pending
  <2>3. CASE fs[r].fd_alt = f
    <3>1. req[r].kind = "fs" /\ file' = Unlisted(file, f)
      BY <1>1, <1>5, <2>1, <2>3
    <3>2. ~file'[f].listed
      BY <1>1, <3>1 DEF Unlisted, TypeOK, PoolTypeOK
    <3> QED
      BY <3>2 DEF FileInv
  <2>4. CASE fs[r].fd_alt # f
    <3>1. file'[f] = file[f]
      BY <1>1, <1>5, <2>4 DEF Unlisted, TypeOK, PoolTypeOK, poolVars
    <3> QED
      BY <2>1, <2>2, <2>4, <3>1 DEF FileInv
  <2> QED
    BY <2>3, <2>4
<1>11. \A g \in Handles : HandleOK(g)'
  BY <1>1, <1>9, HandlesStep DEF SystemInv, Next, PoolNext
<1> QED
  BY <1>2, <1>6, <1>7, <1>8, <1>10, <1>11 DEF SystemInv

------------------------------------------------------------------------------
(* What follows *)

LEMMA SystemStep ==
  ASSUME SystemInv, [Next]_vars
  PROVE  SystemInv'
<1>1. CASE UNCHANGED vars
  <2>1. ASSUME NEW h \in Handles, Counted(h)
        PROVE  HandleInv(h)'
    <3>1. SameHandle(h) /\ SameRequests(h)
      BY <1>1, RequestsSame DEF vars, SameHandle, requestVars
    <3> QED
      BY <1>1, <2>1, <3>1, Frame DEF vars, SystemInv, HandleOK
  <2>4. \A h \in Handles : HandleOK(h)'
    BY <2>1, HandlesStep DEF SystemInv
  <2>2. TypeOK'
    BY TypeStep DEF SystemInv
  <2>3. /\ \A r \in Requests : RequestInv(r)' /\ PoolInv(r)'
        /\ \A f \in Files : FileInv(f)'
    BY <1>1, QuietRequests DEF vars, requestVars, poolVars
  <2> QED
    BY <2>2, <2>3, <2>4 DEF SystemInv
<1>2. CASE TransportNext /\ UNCHANGED poolVars
  BY <1>2, ProgramStep, EventStep, RequestStep, HandleAnswerStep DEF TransportNext
<1>3. CASE PoolNext /\ UNCHANGED transportVars
  BY <1>3, AskStep, PoolAnswerStep, PoolReturnStep DEF PoolNext
<1> QED
  BY <1>1, <1>2, <1>3 DEF Next

\* The inductive invariant: every reference is accounted for.
THEOREM Accounted == Spec => []SystemInv
<1>1. Init => SystemInv
  <2> SUFFICES ASSUME Init
               PROVE  SystemInv
    OBVIOUS
  <2>1. TypeOK
    BY HandlerAssumption, RequestAssumption, PoolAssumption
    DEF Init, HandlerInit, RequestInit, TransportInit, PoolInit, NewRequest, TypeOK, HandlerTypeOK,
        RequestTypeOK, TransportTypeOK, PoolTypeOK, RequestType, HandlerAssumption,
        RequestAssumption, PoolAssumption
  <2>2. ASSUME NEW h \in Handles
        PROVE  HandleOK(h)
    BY <2>2, HandlerAssumption
    DEF Init, HandlerInit, RequestInit, TransportInit, NewRequest, HandlerAssumption, HandleOK, HandleInv,
        MadeInv, DestroyedInv, StreamInv, UdpInv, StreamKinds
  <2>3. ASSUME NEW r \in Requests
        PROVE  RequestInv(r) /\ PoolInv(r)
    BY <2>3, RequestAssumption
    DEF Init, RequestInit, PoolInit, NewRequest, RequestInv, PoolInv, Pending, HandleRequests,
        PoolRequests, RequestAssumption
  <2>4. ASSUME NEW f \in Files
        PROVE  FileInv(f)
    BY <2>4 DEF Init, PoolInit, FileInv
  <2> QED
    BY <2>1, <2>2, <2>3, <2>4 DEF SystemInv
<1>2. SystemInv /\ [Next]_vars => SystemInv'
  BY SystemStep
<1>3. QED
  BY <1>1, <1>2, PTL DEF Spec

LEMMA InvUse ==
  ASSUME SystemInv, NEW h \in Handles, Counted(h), InUse(h)
  PROVE  object[h] = "live"
<1>1. TypeOK /\ HandleInv(h)
  BY DEF SystemInv, HandleOK
<1>2. object[h] # "none"
  <2>1. Awaited(h) # {} => \E r \in Requests : req[r].handle = h
    BY DEF Awaited, PendingOn
  <2> QED
    BY <1>1, <2>1 DEF InUse, HandleInv, MadeInv
<1>3. object[h] # "destroyed"
  <2>1. held[h] \/ running = h \/ Kept(h) >= 1
    BY <1>1, <1>2, KeptEnough DEF InUse
  <2>2. Kept(h) \in Int
    BY <1>1, <1>2, KeptEnough
  <2> QED
    BY <1>1, <2>1, <2>2 DEF HandleInv, DestroyedInv
<1> QED
  BY <1>1, <1>2, <1>3 DEF TypeOK, HandlerTypeOK

LEMMA InvAlive ==
  ASSUME SystemInv
  PROVE  RequestAlive
BY DEF SystemInv, RequestInv, RequestAlive, TypeOK, RequestTypeOK, RequestType

\* Nobody meets a destroyed handle, in whatever order the program, the events,
\* the answers and uv_close() come, if it is tidy about its UDP handles.
THEOREM UseAfterDestroy == ASSUME Tidy PROVE Spec => []NoUseAfterDestroy
<1>1. SystemInv => NoUseAfterDestroy
  BY InvUse DEF NoUseAfterDestroy, Counted
<1>2. QED
  BY <1>1, Accounted, PTL

\* Nobody meets a destroyed stream, whatever the program does with its UDP
\* handles and forgets of its variables.
StreamsKept == \A h \in Handles : kind[h] \in StreamKinds /\ InUse(h) => object[h] = "live"

THEOREM StreamsAlive == Spec => []StreamsKept
<1>1. SystemInv => StreamsKept
  BY InvUse DEF StreamsKept, Counted, StreamKinds
<1>2. QED
  BY <1>1, Accounted, PTL

\* A tidy program's datagrams too: their callbacks find the handle when uv_close()
\* came before them, as UVHandles.php says.  The reference that close() takes from
\* an active handle is one of recv(), or there is another.  If the program is not
\* tidy, TLC shows the handle destroyed before its datagram is sent.
THEOREM SendersFound == ASSUME Tidy PROVE Spec => []SenderAlive
<1>1. NoUseAfterDestroy => SenderAlive
  BY DEF NoUseAfterDestroy, InUse, SenderAlive
<1>2. QED
  BY <1>1, UseAfterDestroy, PTL

\* The struct of a request is there until libuv has answered and the callback
\* has returned, for every class of request.
THEOREM RequestsAlive == Spec => []RequestAlive
<1>1. SystemInv => RequestAlive
  BY InvAlive
<1>2. QED
  BY <1>1, Accounted, PTL

\* What was kept for an answered request is given back, and never twice.
THEOREM RequestsReclaimed == Spec => []RequestReclaimed
<1>1. SystemInv => RequestReclaimed
  BY DEF SystemInv, RequestInv, RequestReclaimed
<1>2. QED
  BY <1>1, Accounted, PTL

\* The callback of a file operation finds its buffer and its resource.
THEOREM CallbackKept == Spec => []KeptForCallback
<1>1. SystemInv => KeptForCallback
  BY DEF SystemInv, PoolInv, KeptForCallback
<1>2. QED
  BY <1>1, Accounted, PTL

\* The table has no resource of a closed file that nobody works on.
THEOREM UnlistedWhenClosed == Spec => []ClosedUnlisted
<1>1. SystemInv => ClosedUnlisted
  BY DEF SystemInv, FileInv, ClosedUnlisted
<1>2. QED
  BY <1>1, Accounted, PTL

------------------------------------------------------------------------------
(* What libuv was lent *)

lentNow == {h \in Handles : LentHandle(h)} \cup {r \in Requests : Pending(r)}
calledNow == {x \in Handles \cup Requests : x \in {running, serving}}
goneNow == {h \in Handles : object[h] = "destroyed"} \cup {r \in Requests : GoneRequest(r)}

\* What is gone stays gone: a destroyed object, and a request given back.
LEMMA GoneStays ==
  ASSUME TypeOK, [Next]_vars
  PROVE  goneNow \subseteq goneNow'
<1> USE DEF TypeOK, HandlerTypeOK, RequestTypeOK
<1>1. ASSUME NEW h \in Handles, object[h] = "destroyed"
      PROVE  object'[h] = "destroyed"
  <2>1. ASSUME NEW g \in Handles, Settle(g)
        PROVE  object'[h] = "destroyed"
    BY <1>1, <2>1 DEF Settle
  <2>2. CASE object' = object
    BY <1>1, <2>2
  <2>3. ASSUME NEW g \in Handles, Program(g)
        PROVE  object' = object \/ Settle(g) \/ object'[h] = "destroyed"
    BY <1>1, <2>3
    DEF Program, Make, Construct, Open, Accept, ReadStart, Listen, RecvStart, ReadStop, RecvStop,
        Close, CloseHandle, CloseNow, CloseTwice, CloseAgain, ForgetHandle, Forget, KeepHandle, Keep
  <2>4. ASSUME NEW g \in Handles, Events(g)
        PROVE  object' = object \/ Settle(g)
    BY <2>4
    DEF Events, ReadEvent, ConnectionEvent, RecvEvent, Enter, EventReturn, Leave, FinishClose,
        CloseCallback, Closed
  <2>5. ASSUME NEW g \in Handles, NEW r \in Requests, Request(r, g)
        PROVE  object' = object
    BY <2>5 DEF Request, Write, WriteRequest, Shutdown, Connect, Send, SubmitTo
  <2>6. ASSUME NEW r \in Requests, HandleAnswer(r)
        PROVE  object' = object \/ \E g \in Handles : Settle(g)
    BY <2>6 DEF HandleAnswer, Answer, AnswerReturn, AnswerEnd
  <2>7. PoolNext \/ UNCHANGED vars => object' = object
    BY DEF PoolNext, Ask, PoolAnswer, Answer, PoolReturn, handlerVars, vars
  <2> QED
    BY <2>1, <2>2, <2>3, <2>4, <2>5, <2>6, <2>7 DEF Next, TransportNext
<1>2. ASSUME NEW r \in Requests, GoneRequest(r)
      PROVE  GoneRequest(r)'
  <2>1. CASE req' = req
    BY <1>2, <2>1 DEF GoneRequest
  <2>2. ASSUME NEW q \in Requests, NEW h, Asked(q, h)
        PROVE  GoneRequest(r)'
    BY <1>2, <2>2 DEF GoneRequest, Asked
  <2>3. ASSUME NEW q \in Requests, Served(q)
        PROVE  GoneRequest(r)'
    BY <1>2, <2>3 DEF GoneRequest, Served, RequestType
  <2>4. ASSUME NEW q \in Requests, NEW given \in {0, 1}, NEW buffers \in Int,
               Answered(q, given, buffers)
        PROVE  GoneRequest(r)'
    <3>1. Left(q, given, buffers)
      BY <2>4, AnsweredLeft
    <3>2. CASE r # q
      BY <1>2, <3>1, <3>2 DEF GoneRequest, Left
    <3>3. CASE r = q
      <4>1. req[q] \in RequestType
        OBVIOUS
      <4>2. /\ req'[q].refs = req[q].refs - given /\ req'[q].freed = req[q].freed
            /\ req'[q].state = req[q].state /\ req[q].refs \in Int
        BY <3>1, <4>1 DEF Left, RequestType
      <4> QED
        BY <1>2, <3>3, <4>2 DEF GoneRequest
    <3> QED
      BY <3>2, <3>3
  <2>5. ASSUME NEW q \in Requests, AddrInfoReturn(q)
        PROVE  GoneRequest(r)'
    BY <1>2, <2>5 DEF GoneRequest, AddrInfoReturn, RequestType
  <2>6. CASE TransportNext /\ UNCHANGED poolVars
    <3>1. ASSUME NEW h \in Handles, Program(h) \/ Events(h)
          PROVE  req' = req
      BY <3>1, ProgramFrame, EventFrame DEF requestVars
    <3>2. ASSUME NEW h \in Handles, NEW q \in Requests, Request(q, h)
          PROVE  Asked(q, h)
      BY <3>2
      DEF Request, Write, WriteRequest, Shutdown, Connect, Send, SubmitTo, Submit, Asked
    <3>3. ASSUME NEW q \in Requests, HandleAnswer(q)
          PROVE  GoneRequest(r)'
      <4>1. CASE Answer(q) /\ UNCHANGED transportVars
        BY <2>3, <4>1, AnswerServes
      <4>2. ASSUME NEW h \in Handles, AnswerReturn(q, h)
            PROVE  GoneRequest(r)'
        <5>1. Answered(q, 1, One(HasBuffer(q))) /\ One(HasBuffer(q)) \in Int
          BY <4>2 DEF AnswerReturn, AnswerEnd, One
        <5> QED
          BY <2>4, <5>1
      <4> QED
        BY <3>3, <4>1, <4>2 DEF HandleAnswer
    <3> QED
      BY <2>1, <2>2, <2>6, <3>1, <3>2, <3>3 DEF TransportNext
  <2>7. CASE PoolNext /\ UNCHANGED transportVars
    <3>1. ASSUME NEW q \in Requests, Ask(q)
          PROVE  Asked(q, NoHandle)
      BY <3>1
      DEF Ask, GetNameInfo, GetAddrInfo, QueueWork, FsOpenBlock, FsOperation, FsQueue, FsQueued,
          FsRefused, FsBlock, Queue, Submit, Asked
    <3>2. ASSUME NEW q \in Requests, NEW success \in BOOLEAN, PoolAnswer(q, success)
          PROVE  GoneRequest(r)'
      BY <2>3, <2>7, <3>2, AnswerServes DEF PoolAnswer
    <3>3. ASSUME NEW q \in Requests, PoolReturn(q)
          PROVE  GoneRequest(r)'
      <4>1. req[q].buffer \in Int
        BY DEF RequestType
      <4> QED
        BY <2>4, <2>5, <3>3, <4>1 DEF PoolReturn, LookupReturn, FsReturn
    <3> QED
      BY <2>2, <2>7, <3>1, <3>2, <3>3 DEF PoolNext
  <2> QED
    BY <2>1, <2>6, <2>7 DEF Next, vars
<1> QED
  BY <1>1, <1>2 DEF goneNow

\* A callback starts when none runs, and is about what libuv has.
LEMMA CalledStep ==
  ASSUME SystemInv, [Next]_vars
  PROVE  \/ calledNow = {} /\ calledNow' \subseteq lentNow
         \/ calledNow' = {}
         \/ calledNow' = calledNow
<1>1. /\ TypeOK /\ \A r \in Requests : RequestInv(r)
      /\ NoRequest \notin Requests /\ NoHandle \notin Handles
      /\ NoRequest \notin Handles /\ NoHandle \notin Requests /\ Handles \cap Requests = {}
  BY HandlerAssumption, RequestAssumption, SystemAssumption
  DEF SystemInv, HandlerAssumption, RequestAssumption, SystemAssumption
<1>2. ASSUME running' = running, serving' = serving
      PROVE  calledNow' = calledNow
  BY <1>2 DEF calledNow
<1>3. ASSUME running' = NoHandle, serving' = NoRequest
      PROVE  calledNow' = {}
  BY <1>1, <1>3 DEF calledNow
<1>4. ASSUME NEW h \in Handles, running = NoHandle, serving = NoRequest, running' = h,
             serving' = NoRequest, LentHandle(h)
      PROVE  calledNow = {} /\ calledNow' \subseteq lentNow
  <2>1. calledNow = {}
    BY <1>1, <1>4 DEF calledNow
  <2>2. calledNow' \subseteq {h}
    BY <1>1, <1>4 DEF calledNow
  <2> QED
    BY <1>4, <2>1, <2>2 DEF lentNow
<1>5. ASSUME NEW r \in Requests, Served(r)
      PROVE  \/ calledNow = {} /\ calledNow' \subseteq lentNow
             \/ calledNow' = {}
  <2>1. CASE ~req[r].callback
    BY <1>3, <1>5, <2>1 DEF Served
  <2>2. CASE req[r].callback
    <3>1. calledNow = {}
      BY <1>1, <1>5 DEF calledNow, Served
    <3>2. calledNow' \subseteq {r} \cup ({req[r].handle} \cap Handles)
      <4>1. req[r].handle \notin Requests
        BY <1>1, SystemAssumption DEF TypeOK, RequestTypeOK, RequestType, SystemAssumption
      <4> QED
        BY <1>1, <1>5, <2>2, <4>1 DEF calledNow, Served
    <3>3. r \in lentNow
      BY <1>5 DEF lentNow, Served
    <3>4. req[r].handle \in Handles => req[r].handle \in lentNow
      BY <1>5, <2>2 DEF lentNow, LentHandle, Awaited, PendingOn, Served
    <3> QED
      BY <3>1, <3>2, <3>3, <3>4
  <2> QED
    BY <2>1, <2>2
<1>6. ASSUME NEW h \in Handles, Program(h)
      PROVE  calledNow' = calledNow
  BY <1>1, <1>2, <1>6, ProgramFrame DEF requestVars
<1>7. ASSUME NEW h \in Handles, Events(h)
      PROVE  \/ calledNow = {} /\ calledNow' \subseteq lentNow
             \/ calledNow' = {}
  <2>1. serving = NoRequest /\ serving' = NoRequest
    BY <1>1, <1>7, EventFrame DEF requestVars
  <2>2. CASE ReadEvent(h, "data") \/ ReadEvent(h, "empty") \/ ReadEvent(h, "eof")
               \/ ReadEvent(h, "error") \/ ConnectionEvent(h) \/ RecvEvent(h)
    <3>1. running = NoHandle /\ running' = h /\ native[h] = "active"
      BY <2>2 DEF ReadEvent, ConnectionEvent, RecvEvent, Enter, Polling
    <3> QED
      BY <1>4, <2>1, <3>1 DEF LentHandle
  <2>3. CASE EventReturn(h)
    BY <1>3, <2>1, <2>3 DEF EventReturn, Leave
  <2>4. CASE FinishClose(h)
    <3>1. CASE onClose[h]
      BY <1>4, <2>1, <2>4, <3>1 DEF FinishClose, CloseCallback, Closed, LentHandle
    <3>2. CASE ~onClose[h]
      BY <1>2, <2>1, <2>4, <3>2, <1>3 DEF FinishClose, CloseCallback, Closed
    <3> QED
      BY <3>1, <3>2
  <2> QED
    BY <1>7, <2>2, <2>3, <2>4 DEF Events
<1>8. ASSUME NEW h \in Handles, NEW r \in Requests, Request(r, h)
      PROVE  calledNow' = calledNow
  BY <1>2, <1>8 DEF Request, Write, WriteRequest, Shutdown, Connect, Send, SubmitTo, Submit
<1>9. ASSUME NEW r \in Requests, HandleAnswer(r)
      PROVE  \/ calledNow = {} /\ calledNow' \subseteq lentNow
             \/ calledNow' = {}
  <2>1. CASE Answer(r) /\ UNCHANGED transportVars
    BY <1>1, <1>5, <2>1, AnswerServes
  <2>2. ASSUME NEW h \in Handles, AnswerReturn(r, h)
        PROVE  calledNow' = {}
    BY <1>3, <2>2 DEF AnswerReturn, AnswerEnd, Answered
  <2> QED
    BY <1>9, <2>1, <2>2 DEF HandleAnswer
<1>10. ASSUME NEW r \in Requests, Ask(r)
       PROVE  calledNow' = calledNow
  <2>1. serving' = serving
    BY <1>10
    DEF Ask, GetNameInfo, GetAddrInfo, QueueWork, FsOpenBlock, FsOperation, FsQueue, FsQueued,
        FsRefused, FsBlock, Queue, Submit
  <2> QED
    BY <1>2, <1>10, <2>1 DEF Ask, handlerVars
<1>11. ASSUME NEW r \in Requests, NEW success \in BOOLEAN, PoolAnswer(r, success),
              UNCHANGED transportVars
       PROVE  \/ calledNow = {} /\ calledNow' \subseteq lentNow
              \/ calledNow' = {}
  BY <1>1, <1>5, <1>11, AnswerServes DEF PoolAnswer
<1>12. ASSUME NEW r \in Requests, PoolReturn(r)
       PROVE  calledNow' = {}
  <2>1. /\ serving = r /\ serving' = NoRequest /\ req[r].kind \in PoolRequests
        /\ running' = running
    BY <1>12 DEF PoolReturn, LookupReturn, AddrInfoReturn, FsReturn, Answered, handlerVars,
       PoolRequests
  <2>2. running = NoHandle
    BY <1>1, <2>1 DEF RequestInv
  <2> QED
    BY <1>3, <2>1, <2>2
<1> QED
  BY <1>2, <1>6, <1>7, <1>8, <1>9, <1>10, <1>11, <1>12
  DEF Next, TransportNext, PoolNext, vars

\* The detailed system implements the lending of its handles and requests: what
\* libuv has or calls about is there, and what is gone is never used again.
THEOREM LendingKept == ASSUME Tidy PROVE Spec => LendingSpec
<1>1. Init => Lent!Init
  <2> SUFFICES ASSUME Init
               PROVE  Lent!Init
    OBVIOUS
  <2>1. lentNow = {}
    BY DEF lentNow, LentHandle, Awaited, PendingOn, Pending, Init, HandlerInit, RequestInit,
       NewRequest
  <2>2. calledNow = {}
    BY HandlerAssumption, RequestAssumption, SystemAssumption
    DEF calledNow, Init, HandlerInit, RequestInit, HandlerAssumption, RequestAssumption,
        SystemAssumption
  <2>3. goneNow = {}
    BY DEF goneNow, GoneRequest, Init, HandlerInit, RequestInit, NewRequest
  <2> QED
    BY <2>1, <2>2, <2>3 DEF Lent!Init, lentNow, calledNow, goneNow
<1>2. /\ SystemInv /\ NoUseAfterDestroy' /\ RequestAlive' /\ [Next]_vars
      => [Lent!Next]_Lent!vars
  <2> SUFFICES ASSUME SystemInv, NoUseAfterDestroy', RequestAlive', [Next]_vars
               PROVE  Lent!Next
    OBVIOUS
  <2>1. lentNow' \subseteq Handles \cup Requests /\ goneNow' \subseteq Handles \cup Requests
    BY DEF lentNow, goneNow
  <2>2. goneNow \subseteq goneNow'
    BY GoneStays DEF SystemInv
  <2>3. (lentNow' \cup calledNow') \cap goneNow' = {}
    <3>1. ASSUME NEW h \in Handles, h \in lentNow' \/ h = running'
          PROVE  h \notin goneNow'
      <4>1. Handles \cap Requests = {}
        BY SystemAssumption DEF SystemAssumption
      <4>2. InUse(h)'
        BY <3>1, <4>1 DEF lentNow, LentHandle, InUse
      <4>3. object'[h] = "live"
        BY <4>2 DEF NoUseAfterDestroy
      <4> QED
        BY <4>1, <4>3 DEF goneNow
    <3>2. ASSUME NEW r \in Requests, r \in lentNow' \/ r = serving'
          PROVE  r \notin goneNow'
      <4>1. Handles \cap Requests = {}
        BY SystemAssumption DEF SystemAssumption
      <4>2. Pending(r)' \/ serving' = r
        BY <3>2, <4>1 DEF lentNow
      <4>3. req'[r].refs > 0 /\ ~req'[r].freed
        BY <4>2 DEF RequestAlive
      <4>4. TypeOK'
        BY TypeStep DEF SystemInv
      <4>5. req'[r].refs \in Int
        BY <4>4 DEF TypeOK, RequestTypeOK, RequestType
      <4>6. ~GoneRequest(r)'
        BY <4>3, <4>5 DEF GoneRequest
      <4> QED
        BY <4>1, <4>6 DEF goneNow
    <3>3. calledNow' \subseteq Handles \cup Requests
          /\ lentNow' \subseteq Handles \cup Requests
      BY DEF calledNow, lentNow
    <3>4. ASSUME NEW x \in calledNow'
          PROVE  x \notin goneNow'
      <4>1. Handles \cap Requests = {} /\ (x = running' \/ x = serving')
            /\ running' \notin Requests /\ serving' \notin Handles
        <5>1. TypeOK'
          BY TypeStep DEF SystemInv
        <5> QED
          BY <5>1, SystemAssumption
          DEF SystemAssumption, TypeOK, HandlerTypeOK, RequestTypeOK, calledNow
      <4> QED
        BY <3>1, <3>2, <3>3, <4>1
    <3> QED
      BY <3>1, <3>2, <3>3, <3>4
  <2> QED
    BY <2>1, <2>2, <2>3, CalledStep DEF Lent!Next, Lent!Managed, Lent!Call, Lent!Return,
       lentNow, calledNow, goneNow
<1>3. QED
  BY <1>1, <1>2, Accounted, UseAfterDestroy, RequestsAlive, PTL
  DEF Spec, LendingSpec, Lent!Spec

==============================================================================
