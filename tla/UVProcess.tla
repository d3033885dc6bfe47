----------------------------- MODULE UVProcess -----------------------------
(***************************************************************************)
(* Child processes: UVStdio, a container for one of the child's files, and *)
(* UVProcess, with the streams that connect the program to the child.      *)
(*                                                                         *)
(* A container refers to its stream until it is spent on a child or        *)
(* forgotten; then the process refers to it, for as long as it exists.     *)
(* What the child does is its own business: it ends at some time, and it   *)
(* is not known whether uv_process_kill() was the reason.                  *)
(***************************************************************************)
EXTENDS UVTransport, Sequences, FiniteSets

CONSTANTS
  Containers,  \* the UVStdio objects a program may create
  MaxStdio     \* bound: containers passed to one child

ASSUME ProcessAssumption == MaxStdio \in Nat /\ IsFiniteSet(Containers)

VARIABLES
  stdio,  \* of each UVStdio what it is for, and its stream
  given   \* of each UVProcess the containers and streams its child was given

processVars == <<stdio, given>>

vars == <<kind, object, native, held, closures, pins, onClose, running, entry,
          req, serving, opened, mode, stdio, given>>

\* What the flags of a container come to.  "null" is what __destruct() leaves.
Uses == {"ignore", "fd", "create", "inherit"}

NewStdio == [use |-> "none", stream |-> NoHandle]

TypeOK ==
  /\ HandlerTypeOK /\ RequestTypeOK /\ TransportTypeOK
  /\ stdio \in [Containers -> [use : Uses \cup {"none", "null"},
                               stream : Handles \cup {NoHandle}]]
  /\ given \in [Handles -> [containers : SUBSET Containers, streams : SUBSET Handles]]

Init ==
  /\ HandlerInit /\ RequestInit /\ TransportInit
  /\ stdio = [c \in Containers |-> NewStdio]
  /\ given = [p \in Handles |-> [containers |-> {}, streams |-> {}]]

------------------------------------------------------------------------------
(* UVStdio *)

MakeStdio(c, use, s, refs) ==
  /\ stdio[c].use = "none"
  /\ IF use \in {"create", "inherit"}
     THEN s # NoHandle /\ kind[s] \in StreamKinds /\ CanCall(s)
     ELSE s = NoHandle
  /\ stdio' = [stdio EXCEPT ![c] = [use |-> use, stream |-> s]]
  /\ pins' = IF s = NoHandle THEN pins ELSE [pins EXCEPT ![s] = @ + refs]
  /\ UNCHANGED <<kind, object, native, held, closures, onClose, running, entry, given>>
  /\ UNCHANGED transportVars /\ UNCHANGED requestVars

\* Mutant: the container borrows the stream.
StdioNewBorrowed(c, use, s) == MakeStdio(c, use, s, 0)

\* UVStdio::create(): nothing is ignored, integers and resources are files to be
\* inherited, a handle is a stream to be connected or to be inherited.  Other
\* flags are refused, and leave nothing.
StdioNew(c, use, s) == MakeStdio(c, use, s, 1)

Emptied(C) == [c \in Containers |-> IF c \in C THEN [use |-> "null", stream |-> NoHandle]
                                               ELSE stdio[c]]

\* The references that the containers of C have to handle h.
Lost(h, C) == Cardinality({c \in C : stdio[c].stream = h})

\* The objects, when all references are counted.
Settled(objects) ==
  [h \in Handles |-> IF objects[h] = "live" /\ References(h)' =< 0 THEN "destroyed" ELSE objects[h]]

\* The program forgets a container.
StdioForget(c) ==
  /\ stdio[c].use \in Uses
  /\ stdio' = Emptied({c})
  /\ pins' = [h \in Handles |-> pins[h] - Lost(h, {c})]
  /\ UNCHANGED <<kind, native, held, closures, onClose, running, entry, given>>
  /\ UNCHANGED transportVars /\ UNCHANGED requestVars
  /\ object' = Settled(object)

------------------------------------------------------------------------------
(* UVProcess *)

Taken(list, n) == {list[i] : i \in 1 .. n}

\* The loop over the containers gets past one that inherits a file or has a
\* stream, and was not emptied.  One to be ignored has no flag and is refused.
Passes(list, i) ==
  /\ stdio[list[i]].use \in {"fd", "create", "inherit"}
  /\ list[i] \notin Taken(list, i - 1)

\* The loop gives up at the container after the first n.
GivesUp(list, n) == (\A i \in 1 .. n : Passes(list, i)) /\ ~Passes(list, n + 1)

\* libuv connects streams that are not connected yet.
Connectable(C) ==
  \A c \in C : /\ stdio[c].use = "create" => ~opened[stdio[c].stream]
               /\ stdio[c].use = "inherit" => opened[stdio[c].stream]
               /\ stdio[c].stream # NoHandle => ~IsClosing(stdio[c].stream)

\* A container is refused: those before it are emptied, the process goes.
SpawnRefused(p, list) ==
  \E n \in 0 .. Len(list) - 1 :
    LET C == Taken(list, n) IN
    /\ object[p] = "none" /\ GivesUp(list, n)
    /\ kind' = [kind EXCEPT ![p] = "process"]
    /\ stdio' = Emptied(C)
    /\ pins' = [h \in Handles |-> pins[h] - Lost(h, C)]
    /\ UNCHANGED <<native, held, closures, onClose, running, entry, given>>
    /\ UNCHANGED transportVars /\ UNCHANGED requestVars
    /\ object' = Settled([object EXCEPT ![p] = "destroyed"])

\* The streams of the containers of C.
StreamsOf(C) == {stdio[c].stream : c \in C} \ {NoHandle}

\* uv_spawn() is called with the containers of C, of which E are emptied.  Its
\* exit callback captures the process, which gets a reference or, when libuv
\* fails, loses one.  The process keeps streams in `kept` as long as it exists.
Spawned(p, list, success, E, kept) ==
  LET C == Taken(list, Len(list)) IN
  /\ object[p] = "none" /\ \A i \in 1 .. Len(list) : Passes(list, i)
  /\ success => Connectable(C)
  /\ kind' = [kind EXCEPT ![p] = "process"]
  /\ native' = [native EXCEPT ![p] = IF success THEN "active" ELSE "inactive"]
  /\ held' = [held EXCEPT ![p] = success]
  /\ closures' = [closures EXCEPT ![p] = 1]
  /\ stdio' = Emptied(E)
  /\ given' = [given EXCEPT ![p] =
       IF success THEN [containers |-> C, streams |-> StreamsOf(C)] ELSE @]
  /\ opened' = [h \in Handles |-> opened[h] \/ (success /\ h \in StreamsOf(C))]
  /\ pins' = [h \in Handles |->
       IF h = p THEN (IF success THEN 1 ELSE -1)
                ELSE pins[h] - Lost(h, E) + (IF success THEN Lost(h, kept) ELSE 0)]
  /\ UNCHANGED <<onClose, running, entry, mode>> /\ UNCHANGED requestVars
  /\ object' = Settled([object EXCEPT ![p] = "live"])

\* Mutants: the process does not keep the streams; the containers are not emptied.
SpawnForgets(p, list, success) == Spawned(p, list, success, Taken(list, Len(list)), {})
SpawnReuses(p, list, success) == Spawned(p, list, success, {}, Taken(list, Len(list)))

\* UVProcess::spawn(): what the containers lose, $streams keeps.
Spawn(p, list, success) ==
  Spawned(p, list, success, Taken(list, Len(list)), Taken(list, Len(list)))

\* The child ends; libuv stops the handle and calls back.
Exit(p) == kind[p] = "process" /\ Enter(p, 0, "inactive") /\ UNCHANGED processVars

\* The exit callback gives back the reference of spawn(), whatever the
\* program's callback has done; that of uv_close() has none to give back.
ExitReturn(p) ==
  kind[p] = "process" /\ Leave(p, One(entry = "event")) /\ UNCHANGED processVars

Lists == UNION {[1 .. n -> Containers] : n \in 0 .. MaxStdio}

\* What the program and the loop do here with a stream.  UVTransport has the rest.
Streaming(h) ==
  \/ Make(h, "pipe", TRUE)
  \/ ReadStart(h, TRUE)
  \/ ReadEvent(h, "data")
  \/ Open(h)
  \/ Close(h, kind[h] = "process")
  \/ ForgetHandle(h)
  \/ KeepHandle(h)
  \/ EventReturn(h)
  \/ FinishClose(h)

Next ==
  \/ \E c \in Containers :
       \/ \E use \in Uses, s \in Handles \cup {NoHandle} : StdioNew(c, use, s)
       \/ StdioForget(c)
  \/ \E p \in Handles :
       \/ \E list \in Lists : \/ SpawnRefused(p, list)
                              \/ \E success \in BOOLEAN : Spawn(p, list, success)
       \/ Exit(p)
       \/ ExitReturn(p)
  \/ \E h \in Handles : Streaming(h) /\ UNCHANGED processVars

Spec == Init /\ [][Next]_vars

------------------------------------------------------------------------------
(* What a child needs *)

\* The streams that connect a running child to the program exist as long as the
\* program has a handle for the child, also if it kept neither the streams nor
\* their containers, and used the streams in other children: libuv has put the
\* pipes' descriptors into their structs.
ChildStreamsAlive ==
  \A p \in Handles : kind[p] = "process" /\ native[p] = "active" =>
    \A s \in given[p].streams : object[s] = "live"

\* What libuv was lent: handles it watches or has to call back about, and the
\* streams of running children.
LentHandle(h) ==
  \/ native[h] = "active"
  \/ native[h] = "closing" /\ onClose[h]
  \/ \E p \in Handles : kind[p] = "process" /\ native[p] = "active" /\ h \in given[p].streams

\* Processes and streams are lent as they should be: none goes while libuv has it
\* or calls back about it, whoever refers to it and in whatever order children
\* exit and streams are closed and forgotten.
Lent == INSTANCE Lending WITH
  Things <- Handles,
  lent <- {h \in Handles : LentHandle(h)},
  called <- {h \in Handles : running = h},
  gone <- {h \in Handles : object[h] = "destroyed"}

LendingSpec == Lent!Spec

\* A container is for one child only: what two children got is never the same.
SpentOnce == \A p, q \in Handles : p # q => given[p].containers \cap given[q].containers = {}
==============================================================================
