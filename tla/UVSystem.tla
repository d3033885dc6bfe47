------------------------------ MODULE UVSystem ------------------------------
(***************************************************************************)
(* Streams, datagrams and the requests of the thread pool on one loop: one *)
(* PHP thread, in which the loop calls back one callback at a time, and    *)
(* each callback may do whatever the program may do.                       *)
(***************************************************************************)
EXTENDS UVTransport, UVPool, FiniteSets

ASSUME SystemAssumption ==
  /\ IsFiniteSet(Requests)
  /\ (Handles \cup {NoHandle}) \cap (Requests \cup {NoRequest}) = {}

vars == <<kind, object, native, held, closures, pins, onClose, running, entry,
          req, serving, opened, mode, fs, file>>

TypeOK == HandlerTypeOK /\ RequestTypeOK /\ TransportTypeOK /\ PoolTypeOK

Init == HandlerInit /\ RequestInit /\ TransportInit /\ PoolInit

Next ==
  \/ TransportNext /\ UNCHANGED poolVars
  \/ PoolNext /\ UNCHANGED transportVars

Spec == Init /\ [][Next]_vars

------------------------------------------------------------------------------
(* What libuv was lent *)

LentHandle(h) ==
  \/ native[h] = "active"
  \/ native[h] = "closing" /\ onClose[h]
  \/ Awaited(h) # {}

GoneRequest(r) == req[r].state # "none" /\ (req[r].refs =< 0 \/ req[r].freed)

\* Handles and requests together are lent as they should be: what libuv watches,
\* works on or calls back about is there until it has answered, in whatever order
\* answers, events and closes come, and nothing that is gone is used again.
Lent == INSTANCE Lending WITH
  Things <- Handles \cup Requests,
  lent <- {h \in Handles : LentHandle(h)} \cup {r \in Requests : Pending(r)},
  called <- {x \in Handles \cup Requests : x \in {running, serving}},
  gone <- {h \in Handles : object[h] = "destroyed"} \cup {r \in Requests : GoneRequest(r)}

LendingSpec == Lent!Spec
==============================================================================
