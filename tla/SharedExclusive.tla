--------------------------- MODULE SharedExclusive ---------------------------
(***************************************************************************)
(* What a lock promises: any number of clients may share it, one may have  *)
(* it exclusively, and never both.  A lock is discarded at once, whoever   *)
(* had it.  A mutex is a lock nobody shares.                               *)
(***************************************************************************)
CONSTANTS Locks, Clients

VARIABLES
  shared,    \* for each lock, the clients that share it
  exclusive  \* for each lock, the client that has it exclusively, if any

Init ==
  /\ shared = [l \in Locks |-> {}]
  /\ exclusive = [l \in Locks |-> {}]

Share(l, c) ==
  /\ exclusive[l] = {}
  /\ shared' = [shared EXCEPT ![l] = @ \cup {c}]
  /\ UNCHANGED exclusive

Own(l, c) ==
  /\ shared[l] = {} /\ exclusive[l] = {}
  /\ exclusive' = [exclusive EXCEPT ![l] = {c}]
  /\ UNCHANGED shared

Release(l, c) ==
  /\ shared' = [shared EXCEPT ![l] = @ \ {c}]
  /\ exclusive' = [exclusive EXCEPT ![l] = @ \ {c}]

Discard(l) ==
  /\ shared' = [shared EXCEPT ![l] = {}]
  /\ exclusive' = [exclusive EXCEPT ![l] = {}]

Next ==
  \E l \in Locks :
    \/ \E c \in Clients : Share(l, c) \/ Own(l, c) \/ Release(l, c)
    \/ Discard(l)

Spec == Init /\ [][Next]_<<shared, exclusive>>
==============================================================================
