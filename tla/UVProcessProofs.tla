-------------------------- MODULE UVProcessProofs --------------------------
(***************************************************************************)
(* Proofs about children, their containers and their streams, for any      *)
(* handles, any finite set of containers and any number of them per child. *)
(*                                                                         *)
(* That a child's streams exist does not follow from the step that gave    *)
(* them to it: what counts is that a reference is owed for each use of a   *)
(* handle, and that a stream's references only move, from the container to *)
(* the process.  Owed(h) adds them up, and the invariant says that what    *)
(* keeps h covers them.                                                    *)
(***************************************************************************)
EXTENDS UVProcess, FiniteSetTheorems, SequenceTheorems, TLAPS

\* What keeps a handle beside the program's variables and the running callback.
Kept(h) == closures[h] + pins[h]

GivenTo(h) == \E p \in Handles : h \in given[p].streams

\* One reference for being active, one for the callback of uv_close(), one that
\* the exit callback will give back.
Asked(h) ==
  One(native[h] = "active") + One(onClose[h])
    + One(kind[h] = "process" /\ running = h /\ entry = "event")

\* One more for each container that names the handle, and one for the children
\* that were given it.
Owed(h) == Asked(h) + Lost(h, Containers) + One(GivenTo(h))

\* Nobody knows a handle that is not made yet, and none has a reference to one
\* that is destroyed.
HandleInv(h) ==
  /\ object[h] = "none" =>
       /\ native[h] = "none" /\ ~held[h] /\ running # h /\ ~onClose[h]
       /\ closures[h] = 0 /\ pins[h] = 0
       /\ \A c \in Containers : stdio[c].stream # h
       /\ ~GivenTo(h)
  /\ object[h] = "destroyed" => ~held[h] /\ running # h /\ Kept(h) =< 0
  /\ Kept(h) >= Owed(h)

\* A container that a child was given is empty for ever.
SpentInv ==
  /\ \A c \in Containers : stdio[c].use = "none" => stdio[c].stream = NoHandle
  /\ \A p \in Handles :
       /\ object[p] = "none" => given[p].containers = {} /\ given[p].streams = {}
       /\ \A c \in given[p].containers : stdio[c].use = "null"
  /\ SpentOnce

ProcessInv ==
  /\ TypeOK
  /\ RequestInit
  /\ SpentInv
  /\ \A h \in Handles : HandleInv(h)

------------------------------------------------------------------------------
(* Containers and lists of them *)

\* A list of containers is a sequence.
LEMMA ListTyped ==
  ASSUME NEW list \in Lists
  PROVE  Len(list) \in Nat /\ \A i \in 1 .. Len(list) : list[i] \in Containers
<1>1. PICK n \in 0 .. MaxStdio : list \in [1 .. n -> Containers]
  BY DEF Lists
<1>2. n \in Nat
  BY <1>1, ProcessAssumption DEF ProcessAssumption
<1>3. Len(list) = n
  BY <1>1, <1>2
<1> QED
  BY <1>1, <1>2, <1>3

\* What is taken of it is some of the containers.
LEMMA TakenTyped ==
  ASSUME NEW list \in Lists, NEW n \in 0 .. Len(list)
  PROVE  Taken(list, n) \subseteq Containers
BY ListTyped DEF Taken

\* How many references containers have to a handle.
LEMMA LostTyped ==
  ASSUME NEW h, NEW C \in SUBSET Containers
  PROVE  /\ IsFiniteSet({c \in C : stdio[c].stream = h}) /\ Lost(h, C) \in Nat
         /\ Lost(h, C) = 0 <=> \A c \in C : stdio[c].stream # h
<1> DEFINE S == {c \in C : stdio[c].stream = h}
<1>1. IsFiniteSet(S)
  BY ProcessAssumption, FS_Subset DEF ProcessAssumption
<1>2. Cardinality(S) \in Nat /\ (Cardinality(S) = 0 <=> S = {})
  BY <1>1, FS_CardinalityType, FS_EmptySet
<1> QED
  BY <1>1, <1>2 DEF Lost

\* Emptied containers lose their references, and only they.
LEMMA LostEmptied ==
  ASSUME NEW h \in Handles, NEW C \in SUBSET Containers, stdio' = Emptied(C)
  PROVE  Lost(h, Containers)' = Lost(h, Containers) - Lost(h, C)
<1> DEFINE S == {c \in Containers : stdio[c].stream = h}
           T == {c \in C : stdio[c].stream = h}
<1>1. IsFiniteSet(S) /\ S \cap T = T
  BY LostTyped
<1>2. {c \in Containers : stdio'[c].stream = h} = S \ T
  BY HandlerAssumption DEF Emptied, HandlerAssumption
<1>3. Cardinality(S \ T) = Cardinality(S) - Cardinality(T)
  BY <1>1, FS_Difference
<1> QED
  BY <1>2, <1>3 DEF Lost

\* A new container has a reference to its stream.
LEMMA LostNew ==
  ASSUME NEW h \in Handles, NEW c \in Containers, NEW use, NEW s, TypeOK,
         stdio[c].stream = NoHandle,
         stdio' = [stdio EXCEPT ![c] = [use |-> use, stream |-> s]]
  PROVE  Lost(h, Containers)' = Lost(h, Containers) + One(s = h)
<1> DEFINE S == {d \in Containers : stdio[d].stream = h}
<1>1. IsFiniteSet(S) /\ c \notin S /\ Cardinality(S) \in Nat
  BY LostTyped, HandlerAssumption, FS_CardinalityType DEF HandlerAssumption
<1>2. Cardinality(S \cup {c}) = Cardinality(S) + 1
  BY <1>1, FS_AddElement
<1>3. CASE s = h
  <2>1. {d \in Containers : stdio'[d].stream = h} = S \cup {c}
    BY <1>3 DEF TypeOK
  <2> QED
    BY <1>2, <1>3, <2>1 DEF Lost, One
<1>4. CASE s # h
  <2>1. {d \in Containers : stdio'[d].stream = h} = S
    BY <1>1, <1>4 DEF TypeOK
  <2>2. One(s = h) = 0 /\ Lost(h, Containers) = Cardinality(S)
    BY <1>4 DEF Lost, One
  <2>3. Lost(h, Containers)' = Cardinality(S)
    BY <2>1 DEF Lost
  <2> QED
    BY <1>1, <2>2, <2>3
<1> QED
  BY <1>3, <1>4

------------------------------------------------------------------------------
(* Types *)

\* Counting the references keeps the objects typed.
LEMMA SettledTyped ==
  ASSUME NEW O \in [Handles -> {"none", "live", "destroyed"}], object' = Settled(O)
  PROVE  object' \in [Handles -> {"none", "live", "destroyed"}]
BY DEF Settled

\* Emptied containers are containers.
LEMMA EmptiedTyped ==
  ASSUME TypeOK, NEW C \in SUBSET Containers, stdio' = Emptied(C)
  PROVE  stdio' \in [Containers -> [use : Uses \cup {"none", "null"},
                                   stream : Handles \cup {NoHandle}]]
BY DEF Emptied, TypeOK

\* Streams keep the types.
LEMMA StreamTyped ==
  ASSUME TypeOK, NEW h \in Handles, Streaming(h), UNCHANGED processVars
  PROVE  TypeOK'
<1>0. SUFFICES HandlerTypeOK' /\ TransportTypeOK' /\ UNCHANGED requestVars
  BY DEF TypeOK, RequestTypeOK, requestVars, processVars
<1> USE HandlerAssumption DEF HandlerAssumption
<1> USE DEF TypeOK, HandlerTypeOK, TransportTypeOK, transportVars,
            CanUse, Starts, Activate, Settle, Enter, Leave, One
<1>1. CASE Make(h, "pipe", TRUE)
  BY <1>1 DEF Make, Construct, AllKinds
<1>2. CASE ReadStart(h, TRUE)
  <2>1. closures' = [closures EXCEPT ![h] = closures[h] + 1]
    BY <1>2 DEF ReadStart
  <2>2. closures' \in [Handles -> Nat]
    BY <2>1
  <2>3. HandlerTypeOK'
    BY <1>2, <2>2 DEF ReadStart
  <2> QED
    BY <1>2, <2>3 DEF ReadStart
<1>3. CASE ReadEvent(h, "data")
  <2>1. Enter(h, 1, "active")
    BY <1>3 DEF ReadEvent
  <2> QED
    BY <2>1
<1>4. CASE Open(h)
  BY <1>4 DEF Open
<1>5. CASE Close(h, kind[h] = "process")
  <2>1. PICK callback \in BOOLEAN : callback = (kind[h] = "process")
    OBVIOUS
  <2>2. CloseHandle(h, callback)
    BY <1>5, <2>1 DEF Close
  <2> QED
    BY <1>5, <2>2 DEF Close, CloseHandle, CloseNow
<1>6. CASE ForgetHandle(h)
  BY <1>6 DEF ForgetHandle, Forget
<1>7. CASE KeepHandle(h)
  BY <1>7 DEF KeepHandle, Keep
<1>8. CASE EventReturn(h)
  BY <1>8 DEF EventReturn
<1>9. CASE FinishClose(h)
  BY <1>9 DEF FinishClose, CloseCallback, Closed
<1> QED
  BY <1>1, <1>2, <1>3, <1>4, <1>5, <1>6, <1>7, <1>8, <1>9 DEF Streaming

\* So does a spawn.
LEMMA SpawnTyped ==
  ASSUME TypeOK, NEW p \in Handles, NEW list \in Lists, NEW success \in BOOLEAN,
         Spawn(p, list, success)
  PROVE  TypeOK'
<1> DEFINE C == Taken(list, Len(list))
<1>1. C \in SUBSET Containers
  BY ListTyped, TakenTyped
<1>2. \A h \in Handles : Lost(h, C) \in Nat
  BY <1>1, LostTyped
<1>3. StreamsOf(C) \in SUBSET Handles
  BY <1>1 DEF StreamsOf, TypeOK
<1>4. Spawned(p, list, success, C, C)
  BY DEF Spawn
<1> HIDE DEF C
<1>5. object' \in [Handles -> {"none", "live", "destroyed"}]
  BY <1>4, SettledTyped DEF Spawned, TypeOK, HandlerTypeOK
<1>6. /\ kind' \in [Handles -> AllKinds \cup {"none"}]
      /\ native' \in [Handles -> {"none", "inactive", "active", "closing", "closed"}]
      /\ held' \in [Handles -> BOOLEAN] /\ closures' \in [Handles -> Nat]
      /\ onClose' \in [Handles -> BOOLEAN]
      /\ running' \in Handles \cup {NoHandle}
      /\ entry' \in IF running' = NoHandle THEN {"none"} ELSE {"event", "close"}
  BY <1>4 DEF Spawned, TypeOK, HandlerTypeOK, AllKinds
<1>7. pins' \in [Handles -> Int]
  BY <1>2, <1>4 DEF Spawned, TypeOK, HandlerTypeOK
<1>8. TransportTypeOK' /\ RequestTypeOK'
  BY <1>4 DEF Spawned, TypeOK, TransportTypeOK, RequestTypeOK, requestVars
<1>9. stdio' \in [Containers -> [use : Uses \cup {"none", "null"}, stream : Handles \cup {NoHandle}]]
  BY <1>4 DEF Spawned, Emptied, TypeOK
<1>10. given' \in [Handles -> [containers : SUBSET Containers, streams : SUBSET Handles]]
  <2>1. Taken(list, Len(list)) = C
    BY DEF C
  <2>2. given' = [given EXCEPT ![p] =
          IF success THEN [containers |-> C, streams |-> StreamsOf(C)] ELSE given[p]]
    BY <1>4, <2>1 DEF Spawned
  <2> QED
    BY <1>1, <1>3, <2>2 DEF TypeOK
<1> QED
  BY <1>5, <1>6, <1>7, <1>8, <1>9, <1>10 DEF TypeOK, HandlerTypeOK

\* And every other step.
LEMMA TypeStep == TypeOK /\ [Next]_vars => TypeOK'
<1> SUFFICES ASSUME TypeOK, [Next]_vars
             PROVE  TypeOK'
  OBVIOUS
<1>1. ASSUME NEW c \in Containers, NEW use \in Uses, NEW s \in Handles \cup {NoHandle},
             StdioNew(c, use, s)
      PROVE  TypeOK'
  BY <1>1 DEF StdioNew, MakeStdio, TypeOK, HandlerTypeOK, RequestTypeOK, TransportTypeOK,
     requestVars, transportVars
<1>2. ASSUME NEW c \in Containers, StdioForget(c)
      PROVE  TypeOK'
  <2>1. \A h \in Handles : Lost(h, {c}) \in Nat
    BY LostTyped
  <2>2. object' \in [Handles -> {"none", "live", "destroyed"}]
    BY <1>2, SettledTyped DEF StdioForget, TypeOK, HandlerTypeOK
  <2>8. pins' = [h \in Handles |-> pins[h] - Lost(h, {c})]
    BY <1>2 DEF StdioForget
  <2>3. pins' \in [Handles -> Int]
    <3>1. pins \in [Handles -> Int]
      BY DEF TypeOK, HandlerTypeOK
    <3>2. ASSUME NEW h \in Handles
          PROVE  pins[h] - Lost(h, {c}) \in Int
      BY <2>1, <3>1
    <3> QED
      BY <2>8, <3>2
  <2>4. HandlerTypeOK'
    BY <1>2, <2>2, <2>3 DEF StdioForget, TypeOK, HandlerTypeOK
  <2>5. RequestTypeOK' /\ TransportTypeOK'
    BY <1>2 DEF StdioForget, TypeOK, RequestTypeOK, TransportTypeOK, requestVars, transportVars
  <2>6. stdio' = Emptied({c}) /\ UNCHANGED given
    BY <1>2 DEF StdioForget
  <2>7. stdio' \in [Containers -> [use : Uses \cup {"none", "null"},
                                  stream : Handles \cup {NoHandle}]]
    BY <2>6, EmptiedTyped
  <2> QED
    BY <2>4, <2>5, <2>6, <2>7 DEF TypeOK
<1>3. ASSUME NEW p \in Handles, NEW list \in Lists, SpawnRefused(p, list)
      PROVE  TypeOK'
  <2>1. PICK n \in 0 .. Len(list) - 1 :
          /\ kind' = [kind EXCEPT ![p] = "process"]
          /\ stdio' = Emptied(Taken(list, n))
          /\ pins' = [h \in Handles |-> pins[h] - Lost(h, Taken(list, n))]
          /\ UNCHANGED <<native, held, closures, onClose, running, entry, given>>
          /\ UNCHANGED transportVars /\ UNCHANGED requestVars
          /\ object' = Settled([object EXCEPT ![p] = "destroyed"])
    BY <1>3 DEF SpawnRefused
  <2>2. Taken(list, n) \subseteq Containers
    BY ListTyped, TakenTyped
  <2>4. (\A h \in Handles : Lost(h, Taken(list, n)) \in Nat)
          /\ stdio' \in [Containers -> [use : Uses \cup {"none", "null"},
                                        stream : Handles \cup {NoHandle}]]
    BY <2>1, <2>2, LostTyped, EmptiedTyped
  <2>3. object' \in [Handles -> {"none", "live", "destroyed"}]
    BY <2>1, SettledTyped DEF TypeOK, HandlerTypeOK
  <2>5. pins' \in [Handles -> Int]
    BY <2>1, <2>4 DEF TypeOK, HandlerTypeOK
  <2>6. HandlerTypeOK'
    BY <2>1, <2>3, <2>5 DEF TypeOK, HandlerTypeOK, AllKinds
  <2>7. RequestTypeOK' /\ TransportTypeOK'
    BY <2>1 DEF TypeOK, RequestTypeOK, TransportTypeOK, requestVars, transportVars
  <2> QED
    BY <2>1, <2>4, <2>6, <2>7 DEF TypeOK
<1>4. ASSUME NEW p \in Handles, Exit(p)
      PROVE  TypeOK'
  BY <1>4, HandlerAssumption
  DEF Exit, Enter, TypeOK, HandlerTypeOK, RequestTypeOK, TransportTypeOK, requestVars,
      processVars, HandlerAssumption
<1>5. ASSUME NEW p \in Handles, ExitReturn(p)
      PROVE  TypeOK'
  BY <1>5 DEF ExitReturn, Leave, Settle, One, TypeOK, HandlerTypeOK, RequestTypeOK,
     TransportTypeOK, requestVars, transportVars, processVars
<1>6. CASE UNCHANGED vars
  BY <1>6 DEF vars, TypeOK, HandlerTypeOK, RequestTypeOK, TransportTypeOK, Lost
<1> QED
  BY <1>1, <1>2, <1>3, <1>4, <1>5, <1>6, SpawnTyped, StreamTyped DEF Next

\* Nothing is made yet.
LEMMA InitTyped == Init => TypeOK
BY HandlerAssumption, RequestAssumption
DEF Init, HandlerInit, RequestInit, TransportInit, NewRequest, NewStdio, TypeOK, HandlerTypeOK,
    RequestTypeOK, TransportTypeOK, RequestType, HandlerAssumption, RequestAssumption

\* Every variable keeps its type, in whatever order containers are read, emptied,
\* refused and forgotten.
THEOREM TypeCorrect == Spec => []TypeOK
<1> QED
  BY InitTyped, TypeStep, PTL DEF Spec

------------------------------------------------------------------------------
(* What is owed to a handle *)

\* What is owed adds up to a number, which is no less than any part of it.
LEMMA OwedTyped ==
  ASSUME TypeOK, NEW h \in Handles
  PROVE  /\ Kept(h) \in Int /\ Asked(h) \in Nat /\ Lost(h, Containers) \in Nat
         /\ Owed(h) \in Nat /\ Owed(h) >= Asked(h) /\ Owed(h) >= Lost(h, Containers)
         /\ native[h] = "active" => Asked(h) >= 1
         /\ onClose[h] => Asked(h) >= 1
         /\ kind[h] = "process" /\ running = h /\ entry = "event" => Asked(h) >= 1
         /\ GivenTo(h) => Owed(h) >= 1
<1>1. Kept(h) \in Int
  BY DEF Kept, TypeOK, HandlerTypeOK
<1>2. Lost(h, Containers) \in Nat
  BY LostTyped
<1>3. /\ Asked(h) \in Nat
      /\ native[h] = "active" => Asked(h) >= 1
      /\ onClose[h] => Asked(h) >= 1
      /\ kind[h] = "process" /\ running = h /\ entry = "event" => Asked(h) >= 1
  BY DEF Asked, One
<1>4. One(GivenTo(h)) \in Nat /\ (GivenTo(h) => One(GivenTo(h)) = 1)
  BY DEF One
<1> QED
  BY <1>1, <1>2, <1>3, <1>4 DEF Owed

\* A handle that somebody is owed for is alive.
LEMMA OwedAlive ==
  ASSUME TypeOK, NEW h \in Handles, HandleInv(h), Owed(h) >= 1
  PROVE  object[h] # "destroyed"
BY OwedTyped DEF HandleInv

\* A handle that was made keeps its invariant as long as what keeps it covers
\* what it is owed, and it is destroyed only without references.
LEMMA Balanced ==
  ASSUME TypeOK', NEW h \in Handles, object'[h] # "none",
         object'[h] = "destroyed" => References(h)' =< 0,
         Kept(h)' >= Owed(h)'
  PROVE  HandleInv(h)'
<1>1. closures'[h] \in Nat /\ pins'[h] \in Int /\ held'[h] \in BOOLEAN
  BY DEF TypeOK, HandlerTypeOK
<1>2. Lost(h, Containers)' \in Nat
  <2>1. IsFiniteSet({c \in Containers : stdio'[c].stream = h})
    BY ProcessAssumption, FS_Subset DEF ProcessAssumption
  <2> QED
    BY <2>1, FS_CardinalityType DEF Lost
<1>3. Asked(h)' \in Nat /\ One(GivenTo(h))' \in Nat
  BY DEF Asked, One
<1>4. Owed(h)' >= 0
  BY <1>2, <1>3 DEF Owed
<1>5. object'[h] = "destroyed" => ~held'[h] /\ running' # h /\ Kept(h)' =< 0
  <2> SUFFICES ASSUME object'[h] = "destroyed"
               PROVE  ~held'[h] /\ running' # h /\ Kept(h)' =< 0
    OBVIOUS
  <2>1. One(held[h])' + One(running = h)' + Kept(h)' =< 0 /\ Kept(h)' >= 0
    <3>1. Kept(h)' \in Int /\ Owed(h)' \in Int
      BY <1>1, <1>2, <1>3 DEF Kept, Owed
    <3>2. One(held[h])' \in Nat /\ One(running = h)' \in Nat
      BY DEF One
    <3> QED
      BY <1>1, <1>4, <3>1, <3>2 DEF References, Kept
  <2> QED
    BY <1>1, <2>1 DEF One, Kept
<1> QED
  BY <1>5 DEF HandleInv

\* What a step leaves of a handle.
SameHandle(g) ==
  /\ kind'[g] = kind[g] /\ object'[g] = object[g] /\ native'[g] = native[g]
  /\ held'[g] = held[g] /\ closures'[g] = closures[g] /\ pins'[g] = pins[g]
  /\ onClose'[g] = onClose[g]
  /\ running' = g <=> running = g
  /\ running = g => entry' = entry

\* Containers and children that do not change owe what they did.
LEMMA SameOwners ==
  ASSUME UNCHANGED processVars, NEW g \in Handles
  PROVE  Lost(g, Containers)' = Lost(g, Containers) /\ (GivenTo(g)' <=> GivenTo(g))
BY DEF processVars, Lost, GivenTo

\* A handle that a step does not touch keeps its invariant.
LEMMA Unaffected ==
  ASSUME TypeOK, NEW g \in Handles, HandleInv(g), SameHandle(g), UNCHANGED processVars
  PROVE  HandleInv(g)'
<1>1. Lost(g, Containers)' = Lost(g, Containers) /\ (GivenTo(g)' <=> GivenTo(g))
  BY SameOwners
<1>2. Asked(g)' = Asked(g)
  BY DEF Asked, SameHandle, One
<1>3. One(GivenTo(g))' = One(GivenTo(g))
  BY <1>1 DEF One
<1>4. Owed(g)' = Owed(g) /\ Kept(g)' = Kept(g)
  BY <1>1, <1>2, <1>3 DEF Owed, Kept, SameHandle
<1> QED
  BY <1>1, <1>4 DEF HandleInv, SameHandle, processVars

------------------------------------------------------------------------------
(* Streams and exits *)

\* What a step of a handle leaves of the others, and how it keeps the balance.
Balances(h) ==
  /\ \A g \in Handles \ {h} : SameHandle(g)
  /\ object'[h] # "none"
  /\ object'[h] = "destroyed" => References(h)' =< 0
  /\ Kept(h)' - Asked(h)' >= Kept(h) - Asked(h)

\* Such a step keeps everybody's invariant.
LEMMA BalancesKept ==
  ASSUME TypeOK, TypeOK', NEW h \in Handles, \A g \in Handles : HandleInv(g),
         UNCHANGED processVars, Balances(h)
  PROVE  \A g \in Handles : HandleInv(g)'
<1>1. ASSUME NEW g \in Handles \ {h}
      PROVE  HandleInv(g)'
  BY <1>1, Unaffected DEF Balances
<1>2. HandleInv(h)'
  <2>1. Lost(h, Containers)' = Lost(h, Containers) /\ (GivenTo(h)' <=> GivenTo(h))
    BY SameOwners
  <2>2. One(GivenTo(h))' = One(GivenTo(h)) /\ One(GivenTo(h)) \in Nat
    BY <2>1 DEF One
  <2>3. Asked(h)' \in Nat
    BY DEF Asked, One
  <2>4. Kept(h)' \in Int
    BY DEF Kept, TypeOK, HandlerTypeOK
  <2>5. Kept(h)' >= Owed(h)'
    BY OwedTyped, <2>1, <2>2, <2>3, <2>4 DEF Balances, Owed, HandleInv
  <2> QED
    BY <2>5, Balanced DEF Balances
<1> QED
  BY <1>1, <1>2

\* Every step of a stream balances: a start and a close callback come with a
\* closure, an event with a reference, and uv_close() takes one from a handle
\* that is active no more.
LEMMA StreamBalances ==
  ASSUME TypeOK, TypeOK', NEW h \in Handles, HandleInv(h), Streaming(h), UNCHANGED processVars
  PROVE  Balances(h)
<1> USE HandlerAssumption DEF HandlerAssumption
<1> USE DEF TypeOK, HandlerTypeOK, SameHandle, Kept, Asked, One, CanCall
<1>1. CASE Make(h, "pipe", TRUE)
  <2>1. \A g \in Handles \ {h} : SameHandle(g)
    BY <1>1 DEF Make, Construct
  <2>2. object'[h] = "live" /\ Kept(h)' - Asked(h)' >= Kept(h) - Asked(h)
    BY <1>1 DEF Make, Construct, HandleInv
  <2> QED
    BY <2>1, <2>2 DEF Balances
<1>2. CASE ReadStart(h, TRUE)
  <2>1. closures' = [closures EXCEPT ![h] = closures[h] + 1] /\ native' = [native EXCEPT ![h] = "active"]
        /\ UNCHANGED <<kind, object, held, pins, onClose, running, entry>> /\ object[h] = "live"
    BY <1>2 DEF ReadStart, Starts, CanUse, Activate
  <2>2. \A g \in Handles \ {h} : SameHandle(g)
    BY <2>1
  <2>3. Kept(h)' - Asked(h)' >= Kept(h) - Asked(h)
    BY <2>1
  <2> QED
    BY <2>1, <2>2, <2>3 DEF Balances
<1>3. CASE ReadEvent(h, "data")
  <2>1. kind[h] # "process" /\ Enter(h, 1, "active")
    BY <1>3 DEF ReadEvent, StreamKinds
  <2>2. \A g \in Handles \ {h} : SameHandle(g)
    BY <2>1 DEF Enter, Polling
  <2>3. object'[h] = object[h] /\ object[h] = "live"
    <3>1. native[h] = "active" /\ UNCHANGED object
      BY <2>1 DEF Enter
    <3>2. object[h] # "destroyed"
      BY <3>1, OwedTyped, OwedAlive
    <3> QED
      BY <3>1, <3>2 DEF HandleInv
  <2>4. Kept(h)' - Asked(h)' >= Kept(h) - Asked(h)
    BY <2>1 DEF Enter
  <2> QED
    BY <2>2, <2>3, <2>4 DEF Balances
<1>4. CASE Open(h)
  BY <1>4 DEF Open, CanUse, Balances
<1>5. CASE Close(h, kind[h] = "process")
  <2>1. PICK callback \in BOOLEAN : CloseHandle(h, callback)
    BY <1>5 DEF Close
  <2>2. \A g \in Handles \ {h} : SameHandle(g)
    BY <2>1 DEF CloseHandle, CloseNow, Settle
  <2>3. object[h] = "live" /\ object'[h] = IF References(h)' =< 0 THEN "destroyed" ELSE "live"
    BY <2>1 DEF CloseHandle, CloseNow, Settle
  <2>4. /\ UNCHANGED <<kind, running, entry>>
        /\ native'[h] = "closing" /\ onClose'[h] = callback
        /\ closures'[h] = closures[h] + One(callback)
        /\ pins'[h] = pins[h] + One(native[h] # "active") - 1
    BY <2>1 DEF CloseHandle, CloseNow
  <2>5. Kept(h)' - Asked(h)' >= Kept(h) - Asked(h)
    BY <2>4
  <2> QED
    BY <2>2, <2>3, <2>5 DEF Balances
<1>6. CASE ForgetHandle(h)
  <2>1. Forget(h)
    BY <1>6 DEF ForgetHandle
  <2>2. object'[h] = IF References(h)' =< 0 THEN "destroyed" ELSE "live"
    BY <2>1 DEF Forget, Settle
  <2> QED
    BY <2>1, <2>2 DEF Balances, Forget, Settle
<1>7. CASE KeepHandle(h)
  <2>1. Keep(h)
    BY <1>7 DEF KeepHandle
  <2>2. object[h] = "live"
    BY <2>1 DEF Keep, HandleInv
  <2> QED
    BY <2>1, <2>2 DEF Balances, Keep
<1>8. CASE EventReturn(h)
  <2>1. kind[h] # "process" /\ Leave(h, 0)
    BY <1>8 DEF EventReturn
  <2>2. object[h] = "live" /\ object'[h] = IF References(h)' =< 0 THEN "destroyed" ELSE object[h]
    BY <2>1 DEF Leave, Settle, HandleInv
  <2>3. \A g \in Handles \ {h} : SameHandle(g)
    BY <2>1 DEF Leave, Settle
  <2>4. Kept(h)' - Asked(h)' >= Kept(h) - Asked(h)
    BY <2>1 DEF Leave
  <2> QED
    BY <2>2, <2>3, <2>4 DEF Balances
<1>9. CASE FinishClose(h)
  <2>1. Closed(h, onClose[h])
    BY <1>9 DEF FinishClose, CloseCallback
  <2>2. \A g \in Handles \ {h} : SameHandle(g)
    BY <2>1 DEF Closed
  <2>3. UNCHANGED object /\ object[h] # "none"
    BY <2>1 DEF Closed, HandleInv
  <2>4. object[h] = "destroyed" => ~onClose[h]
    BY OwedTyped, OwedAlive
  <2>5. object'[h] = "destroyed" => References(h)' =< 0
    BY <2>1, <2>3, <2>4 DEF Closed, References, HandleInv
  <2>6. Kept(h)' - Asked(h)' >= Kept(h) - Asked(h)
    BY <2>1 DEF Closed
  <2> QED
    BY <2>2, <2>3, <2>5, <2>6 DEF Balances
<1> QED
  BY <1>1, <1>2, <1>3, <1>4, <1>5, <1>6, <1>7, <1>8, <1>9 DEF Streaming

\* So does an exit, whose callback gives back the reference of the spawn.
LEMMA ExitBalances ==
  ASSUME TypeOK, TypeOK', NEW p \in Handles, HandleInv(p), Exit(p) \/ ExitReturn(p)
  PROVE  Balances(p)
<1> USE HandlerAssumption DEF HandlerAssumption
<1> USE DEF TypeOK, HandlerTypeOK, SameHandle, Kept, Asked, One
<1>1. CASE Exit(p)
  <2>1. kind[p] = "process" /\ Enter(p, 0, "inactive")
    BY <1>1 DEF Exit
  <2>2. \A g \in Handles \ {p} : SameHandle(g)
    BY <2>1 DEF Enter, Polling
  <2>3. object'[p] = object[p] /\ object[p] = "live"
    <3>1. native[p] = "active" /\ UNCHANGED object
      BY <2>1 DEF Enter
    <3>2. object[p] # "destroyed"
      BY <3>1, OwedTyped, OwedAlive
    <3> QED
      BY <3>1, <3>2 DEF HandleInv
  <2>4. Kept(p)' - Asked(p)' >= Kept(p) - Asked(p)
    BY <2>1 DEF Enter, Polling
  <2> QED
    BY <2>2, <2>3, <2>4 DEF Balances
<1>2. CASE ExitReturn(p)
  <2>1. kind[p] = "process" /\ Leave(p, One(entry = "event"))
    BY <1>2 DEF ExitReturn
  <2>2. object[p] = "live" /\ object'[p] = IF References(p)' =< 0 THEN "destroyed" ELSE object[p]
    BY <2>1 DEF Leave, Settle, HandleInv
  <2>3. \A g \in Handles \ {p} : SameHandle(g)
    BY <2>1 DEF Leave, Settle
  <2>4. Kept(p)' - Asked(p)' >= Kept(p) - Asked(p)
    BY <2>1 DEF Leave
  <2> QED
    BY <2>2, <2>3, <2>4 DEF Balances
<1> QED
  BY <1>1, <1>2

------------------------------------------------------------------------------
(* Containers *)

\* When containers of C are emptied their references to a handle go, or pass to
\* a process; the handle is destroyed when none is left.
LEMMA Moved ==
  ASSUME TypeOK, TypeOK', NEW g \in Handles, HandleInv(g), NEW C \in SUBSET Containers,
         stdio' = Emptied(C), NEW moved \in {0, Lost(g, C)},
         kind'[g] = kind[g], native'[g] = native[g], held'[g] = held[g],
         closures'[g] = closures[g], onClose'[g] = onClose[g], UNCHANGED <<running, entry>>,
         pins'[g] = pins[g] - Lost(g, C) + moved,
         GivenTo(g)' => GivenTo(g) \/ (moved = Lost(g, C) /\ moved >= 1),
         object'[g] = IF object[g] = "live" /\ References(g)' =< 0 THEN "destroyed" ELSE object[g]
  PROVE  HandleInv(g)'
<1>1. /\ Lost(g, C) \in Nat /\ Lost(g, Containers) \in Nat
      /\ Lost(g, Containers)' = Lost(g, Containers) - Lost(g, C)
      /\ Lost(g, Containers) = 0 => Lost(g, C) = 0
  <2>1. Containers \in SUBSET Containers
    OBVIOUS
  <2>2. Lost(g, Containers) \in Nat /\ Lost(g, C) \in Nat
    BY <2>1, LostTyped
  <2>3. ASSUME Lost(g, Containers) = 0
        PROVE  Lost(g, C) = 0
    <3>1. \A c \in Containers : stdio[c].stream # g
      BY <2>1, <2>3, LostTyped
    <3>2. \A c \in C : stdio[c].stream # g
      BY <3>1
    <3> QED
      BY <3>2, LostTyped
  <2> QED
    BY <2>2, <2>3, LostEmptied
<1>2. Asked(g)' = Asked(g) /\ Asked(g) \in Nat
  BY DEF Asked, One
<1>3. One(GivenTo(g))' =< One(GivenTo(g)) + moved /\ One(GivenTo(g))' \in Nat
        /\ One(GivenTo(g)) \in Nat
  BY <1>1 DEF One
<1>4. Kept(g) \in Int /\ Kept(g)' = Kept(g) - Lost(g, C) + moved
  <2>1. closures[g] \in Nat /\ pins[g] \in Int
    BY DEF TypeOK, HandlerTypeOK
  <2> QED
    BY <1>1, <2>1 DEF Kept
<1>5. Kept(g)' >= Owed(g)'
  BY <1>1, <1>2, <1>3, <1>4 DEF Owed, HandleInv
<1>6. CASE object[g] = "none"
  <2>1. Lost(g, C) = 0 /\ moved = 0 /\ ~GivenTo(g)'
    <3>1. \A c \in C : stdio[c].stream # g
      BY <1>6 DEF HandleInv
    <3>2. Lost(g, C) = 0
      BY <3>1, LostTyped
    <3> QED
      BY <1>6, <3>2 DEF HandleInv
  <2>2. \A c \in Containers : stdio'[c].stream # g
    BY <1>6, HandlerAssumption DEF HandleInv, Emptied, HandlerAssumption
  <2>3. object'[g] = "none" /\ closures'[g] = 0 /\ pins'[g] = 0
    BY <1>6, <2>1 DEF HandleInv
  <2> QED
    BY <1>5, <1>6, <2>1, <2>2, <2>3 DEF HandleInv
<1>7. CASE object[g] = "destroyed"
  <2>1. Kept(g) =< 0 /\ Kept(g) >= Owed(g)
    BY <1>7 DEF HandleInv
  <2>2. Lost(g, Containers) = 0
    BY <1>1, <1>2, <1>3, <1>4, <2>1 DEF Owed
  <2>3. Kept(g)' =< 0
    BY <1>1, <1>4, <2>1, <2>2
  <2>4. object'[g] = "destroyed"
    BY <1>7
  <2> QED
    BY <1>5, <1>7, <2>3, <2>4 DEF HandleInv
<1>8. CASE object[g] = "live"
  BY <1>5, <1>8, Balanced
<1> QED
  BY <1>6, <1>7, <1>8 DEF TypeOK, HandlerTypeOK

\* A container is forgotten.
LEMMA ForgetKept ==
  ASSUME TypeOK, TypeOK', NEW c \in Containers, StdioForget(c), \A g \in Handles : HandleInv(g)
  PROVE  \A g \in Handles : HandleInv(g)'
<1> TAKE g \in Handles
<1>1. Lost(g, {c}) \in Nat
  BY LostTyped
<1>2. pins'[g] = pins[g] - Lost(g, {c}) + 0
  BY <1>1 DEF StdioForget, TypeOK, HandlerTypeOK
<1>3. GivenTo(g)' <=> GivenTo(g)
  BY DEF StdioForget, GivenTo
<1>4. object'[g] = IF object[g] = "live" /\ References(g)' =< 0 THEN "destroyed" ELSE object[g]
  BY DEF StdioForget, Settled
<1>5. /\ stdio' = Emptied({c}) /\ kind'[g] = kind[g] /\ native'[g] = native[g]
      /\ held'[g] = held[g] /\ closures'[g] = closures[g] /\ onClose'[g] = onClose[g]
      /\ UNCHANGED <<running, entry>>
  BY DEF StdioForget
<1> QED
  BY <1>2, <1>3, <1>4, <1>5, Moved

\* A container refers to a stream that the program has.
LEMMA StdioKept ==
  ASSUME TypeOK, TypeOK', NEW c \in Containers, NEW use \in Uses,
         NEW s \in Handles \cup {NoHandle}, StdioNew(c, use, s), SpentInv,
         \A g \in Handles : HandleInv(g)
  PROVE  \A g \in Handles : HandleInv(g)'
<1> TAKE g \in Handles
<1>1. /\ stdio' = [stdio EXCEPT ![c] = [use |-> use, stream |-> s]]
      /\ stdio[c].stream = NoHandle
      /\ UNCHANGED <<kind, object, native, held, closures, onClose, running, entry, given>>
      /\ s # NoHandle => object[s] = "live"
  BY DEF StdioNew, MakeStdio, SpentInv, CanCall, NewStdio
<1>2. Lost(g, Containers)' = Lost(g, Containers) + One(s = g)
  BY <1>1, LostNew DEF One
<1>3. Asked(g)' = Asked(g) /\ One(GivenTo(g))' = One(GivenTo(g)) /\ (GivenTo(g)' <=> GivenTo(g))
  BY <1>1 DEF Asked, GivenTo
<1>4. Asked(g) \in Nat /\ Lost(g, Containers) \in Nat /\ One(GivenTo(g)) \in Nat /\ Kept(g) \in Int
  BY OwedTyped DEF One
<1>5. pins'[g] = pins[g] + One(s = g) /\ One(s = g) \in Nat
  <2>1. pins \in [Handles -> Int]
    BY DEF TypeOK, HandlerTypeOK
  <2>2. pins' = IF s = NoHandle THEN pins ELSE [pins EXCEPT ![s] = pins[s] + 1]
    BY DEF StdioNew, MakeStdio
  <2>3. CASE s = g
    BY <2>1, <2>2, <2>3, HandlerAssumption DEF One, HandlerAssumption
  <2>4. CASE s # g
    BY <2>1, <2>2, <2>4 DEF One
  <2> QED
    BY <2>3, <2>4
<1>6. Kept(g)' = Kept(g) + One(s = g)
  <2>1. closures[g] \in Nat /\ pins[g] \in Int
    BY DEF TypeOK, HandlerTypeOK
  <2> QED
    BY <1>1, <1>5, <2>1 DEF Kept
<1>7. Kept(g)' >= Owed(g)'
  BY <1>2, <1>3, <1>4, <1>5, <1>6 DEF Owed, HandleInv
<1>8. CASE s = g
  BY <1>1, <1>7, <1>8, Balanced, HandlerAssumption DEF HandlerAssumption
<1>9. CASE s # g
  <2>1. pins'[g] = pins[g]
    BY <1>5, <1>9 DEF One, TypeOK, HandlerTypeOK
  <2>2. object[g] = "none" => \A d \in Containers : stdio'[d].stream # g
    BY <1>1, <1>9 DEF HandleInv, TypeOK
  <2> QED
    BY <1>1, <1>3, <1>6, <1>7, <2>1, <2>2 DEF HandleInv, Kept
<1> QED
  BY <1>8, <1>9

------------------------------------------------------------------------------
(* Spawning *)

\* A refusal half way empties containers and drops the new process.
LEMMA RefusedKept ==
  ASSUME TypeOK, TypeOK', NEW p \in Handles, NEW list \in Lists, SpawnRefused(p, list),
         \A g \in Handles : HandleInv(g)
  PROVE  \A g \in Handles : HandleInv(g)'
<1>1. PICK n \in 0 .. Len(list) - 1 :
        /\ object[p] = "none"
        /\ kind' = [kind EXCEPT ![p] = "process"]
        /\ stdio' = Emptied(Taken(list, n))
        /\ pins' = [h \in Handles |-> pins[h] - Lost(h, Taken(list, n))]
        /\ UNCHANGED <<native, held, closures, onClose, running, entry, given>>
        /\ object' = Settled([object EXCEPT ![p] = "destroyed"])
  BY DEF SpawnRefused
<1> DEFINE C == Taken(list, n)
<1>2. C \subseteq Containers
  BY ListTyped, TakenTyped
<1> HIDE DEF C
<1>3. /\ stdio' = Emptied(C) /\ pins' = [h \in Handles |-> pins[h] - Lost(h, C)]
  BY <1>1 DEF C
<1>4. \A g \in Handles : GivenTo(g)' <=> GivenTo(g)
  BY <1>1 DEF GivenTo
<1>5. ASSUME NEW g \in Handles \ {p}
      PROVE  HandleInv(g)'
  <2>1. Lost(g, C) \in Nat /\ pins[g] \in Int
    BY <1>2, LostTyped DEF TypeOK, HandlerTypeOK
  <2>2. pins'[g] = pins[g] - Lost(g, C) + 0
    BY <1>3, <2>1
  <2>3. object'[g] = IF object[g] = "live" /\ References(g)' =< 0 THEN "destroyed" ELSE object[g]
    BY <1>1 DEF Settled, TypeOK, HandlerTypeOK
  <2>4. /\ kind'[g] = kind[g] /\ native'[g] = native[g] /\ held'[g] = held[g]
        /\ closures'[g] = closures[g] /\ onClose'[g] = onClose[g] /\ UNCHANGED <<running, entry>>
    BY <1>1 DEF TypeOK, HandlerTypeOK
  <2> QED
    BY <1>2, <1>3, <1>4, <2>2, <2>3, <2>4, Moved
<1>6. HandleInv(p)'
  <2>1. Lost(p, C) = 0 /\ Lost(p, Containers)' = 0
    <3>1. \A c \in Containers : stdio[c].stream # p
      BY <1>1 DEF HandleInv
    <3>2. Lost(p, C) = 0 /\ Lost(p, Containers) = 0
      BY <1>2, <3>1, LostTyped
    <3> QED
      BY <1>2, <1>3, <3>2, LostEmptied
  <2>2. ~GivenTo(p)' /\ native'[p] = "none" /\ ~held'[p] /\ running' # p /\ ~onClose'[p]
          /\ closures'[p] = 0 /\ pins'[p] = 0
    BY <1>1, <1>3, <1>4, <2>1 DEF HandleInv
  <2>3. object'[p] = "destroyed"
    BY <1>1 DEF Settled, TypeOK, HandlerTypeOK
  <2>4. Kept(p)' = 0 /\ Asked(p)' = 0 /\ One(GivenTo(p))' = 0
    BY <2>2 DEF Kept, Asked, One
  <2>5. Owed(p)' = 0
    BY <2>1, <2>4 DEF Owed
  <2> QED
    BY <2>2, <2>3, <2>4, <2>5 DEF HandleInv
<1> QED
  BY <1>5, <1>6

\* A child gets the references of its containers; a spawn that libuv refuses
\* leaves a process with one closure and one reference too few.
LEMMA SpawnKept ==
  ASSUME TypeOK, TypeOK', NEW p \in Handles, NEW list \in Lists, NEW success \in BOOLEAN,
         Spawn(p, list, success), SpentInv, \A g \in Handles : HandleInv(g)
  PROVE  \A g \in Handles : HandleInv(g)'
<1> DEFINE C == Taken(list, Len(list))
<1>1. C \in SUBSET Containers
  BY ListTyped, TakenTyped
<1>2. /\ object[p] = "none"
      /\ kind' = [kind EXCEPT ![p] = "process"]
      /\ native' = [native EXCEPT ![p] = IF success THEN "active" ELSE "inactive"]
      /\ held' = [held EXCEPT ![p] = success]
      /\ closures' = [closures EXCEPT ![p] = 1]
      /\ UNCHANGED <<onClose, running, entry>>
      /\ object' = Settled([object EXCEPT ![p] = "live"])
      /\ stdio' = Emptied(C)
  BY DEF Spawn, Spawned
<1>3. pins' = [h \in Handles |->
        IF h = p THEN (IF success THEN 1 ELSE -1)
                 ELSE pins[h] - Lost(h, C) + (IF success THEN Lost(h, C) ELSE 0)]
  BY DEF Spawn, Spawned
<1>4. given' = [given EXCEPT ![p] =
        IF success THEN [containers |-> C, streams |-> StreamsOf(C)] ELSE given[p]]
  BY DEF Spawn, Spawned
<1> HIDE DEF C
<1>5. given[p].streams = {}
  BY <1>2 DEF SpentInv
<1>6. ASSUME NEW g \in Handles
      PROVE  GivenTo(g)' => GivenTo(g) \/ (success /\ Lost(g, C) >= 1)
  <2>1. SUFFICES ASSUME success, g \in StreamsOf(C)
                 PROVE  Lost(g, C) >= 1
    BY <1>4 DEF GivenTo, TypeOK
  <2>2. ~\A c \in C : stdio[c].stream # g
    BY <2>1 DEF StreamsOf
  <2>3. Lost(g, C) \in Nat /\ Lost(g, C) # 0
    BY <1>1, <2>2, LostTyped
  <2> QED
    BY <2>3
<1>7. ASSUME NEW g \in Handles \ {p}
      PROVE  HandleInv(g)'
  <2>1. Lost(g, C) \in Nat /\ pins[g] \in Int
    BY <1>1, LostTyped DEF TypeOK, HandlerTypeOK
  <2>2. PICK moved \in {0, Lost(g, C)} : moved = IF success THEN Lost(g, C) ELSE 0
    OBVIOUS
  <2>3. pins'[g] = pins[g] - Lost(g, C) + moved
    BY <1>3, <2>1, <2>2
  <2>4. GivenTo(g)' => GivenTo(g) \/ (moved = Lost(g, C) /\ moved >= 1)
    BY <1>6, <2>2
  <2>5. object'[g] = IF object[g] = "live" /\ References(g)' =< 0 THEN "destroyed" ELSE object[g]
    BY <1>2 DEF Settled, TypeOK, HandlerTypeOK
  <2>6. /\ kind'[g] = kind[g] /\ native'[g] = native[g] /\ held'[g] = held[g]
        /\ closures'[g] = closures[g] /\ onClose'[g] = onClose[g] /\ UNCHANGED <<running, entry>>
    BY <1>2 DEF TypeOK, HandlerTypeOK
  <2> QED
    BY <1>1, <1>2, <2>3, <2>4, <2>5, <2>6, Moved
<1>8. HandleInv(p)'
  <2>1. Lost(p, C) = 0 /\ Lost(p, Containers)' = 0
    <3>1. \A c \in Containers : stdio[c].stream # p
      BY <1>2 DEF HandleInv
    <3>2. Lost(p, C) = 0 /\ Lost(p, Containers) = 0
      BY <1>1, <3>1, LostTyped
    <3> QED
      BY <1>1, <1>2, <3>2, LostEmptied
  <2>2. ~GivenTo(p)'
    BY <1>2, <1>6, <2>1 DEF HandleInv
  <2>3. /\ native'[p] = (IF success THEN "active" ELSE "inactive") /\ held'[p] = success
        /\ closures'[p] = 1 /\ pins'[p] = (IF success THEN 1 ELSE -1)
        /\ running' # p /\ ~onClose'[p]
    BY <1>2, <1>3 DEF HandleInv, TypeOK, HandlerTypeOK
  <2>4. object'[p] = IF References(p)' =< 0 THEN "destroyed" ELSE "live"
    BY <1>2 DEF Settled, TypeOK, HandlerTypeOK
  <2>5. Kept(p)' >= Asked(p)' /\ Asked(p)' \in Nat /\ Kept(p)' \in Int
    BY <2>3 DEF Kept, Asked, One
  <2>6. Owed(p)' = Asked(p)'
    BY <2>1, <2>2, <2>5 DEF Owed, One
  <2> QED
    BY <2>4, <2>5, <2>6, Balanced
<1> QED
  BY <1>7, <1>8

------------------------------------------------------------------------------
(* The invariant *)

\* Streams and exits leave the containers alone.
LEMMA SpentSame ==
  ASSUME SpentInv, UNCHANGED processVars, NEW h \in Handles, \A g \in Handles \ {h} : SameHandle(g),
         object'[h] # "none"
  PROVE  SpentInv'
BY DEF SpentInv, SpentOnce, processVars, SameHandle

\* Emptied containers stay empty, and a child's are emptied.
LEMMA SpentKept ==
  ASSUME TypeOK, SpentInv, [Next]_vars, \A g \in Handles : HandleInv(g), TypeOK'
  PROVE  SpentInv'
<1>1. ASSUME NEW c \in Containers, NEW use \in Uses, NEW s \in Handles \cup {NoHandle},
             StdioNew(c, use, s)
      PROVE  SpentInv'
  <2>1. /\ stdio[c].use = "none" /\ use # "none"
        /\ stdio' = [stdio EXCEPT ![c] = [use |-> use, stream |-> s]]
        /\ UNCHANGED <<object, given>>
    BY <1>1 DEF StdioNew, MakeStdio, Uses
  <2>2. \A d \in Containers : stdio'[d].use = "none" => stdio'[d].stream = NoHandle
    BY <2>1 DEF SpentInv, TypeOK
  <2>3. ASSUME NEW p \in Handles, NEW d \in given[p].containers
        PROVE  stdio'[d].use = "null"
    <3>1. stdio[d].use = "null" /\ d \in Containers
      BY <2>3 DEF SpentInv, TypeOK
    <3> QED
      BY <2>1, <3>1 DEF TypeOK
  <2> QED
    BY <2>1, <2>2, <2>3 DEF SpentInv, SpentOnce
<1>2. ASSUME NEW C \in SUBSET Containers, stdio' = Emptied(C), UNCHANGED given,
             \A p \in Handles : object'[p] = "none" => object[p] = "none"
      PROVE  SpentInv'
  <2>1. \A d \in Containers : stdio'[d].use = "none" => stdio'[d].stream = NoHandle
    BY <1>2 DEF SpentInv, Emptied
  <2>2. ASSUME NEW p \in Handles, NEW d \in given[p].containers
        PROVE  stdio'[d].use = "null"
    <3>1. stdio[d].use = "null" /\ d \in Containers
      BY <2>2 DEF SpentInv, TypeOK
    <3> QED
      BY <1>2, <3>1 DEF Emptied
  <2> QED
    BY <1>2, <2>1, <2>2 DEF SpentInv, SpentOnce
<1>3. ASSUME NEW c \in Containers, StdioForget(c)
      PROVE  SpentInv'
  <2>1. \A p \in Handles : object'[p] = "none" => object[p] = "none"
    BY <1>3 DEF StdioForget, Settled
  <2> QED
    BY <1>2, <1>3, <2>1 DEF StdioForget
<1>4. ASSUME NEW p \in Handles, NEW list \in Lists, SpawnRefused(p, list)
      PROVE  SpentInv'
  <2>1. PICK n \in 0 .. Len(list) - 1 :
          stdio' = Emptied(Taken(list, n)) /\ UNCHANGED given
            /\ object' = Settled([object EXCEPT ![p] = "destroyed"])
    BY <1>4 DEF SpawnRefused
  <2>2. \A q \in Handles : object'[q] = "none" => object[q] = "none"
    BY <2>1 DEF Settled, TypeOK, HandlerTypeOK
  <2>3. Taken(list, n) \in SUBSET Containers
    BY ListTyped, TakenTyped
  <2> QED
    BY <1>2, <2>1, <2>2, <2>3
<1>5. ASSUME NEW p \in Handles, NEW list \in Lists, NEW success \in BOOLEAN,
             Spawn(p, list, success)
      PROVE  SpentInv'
  <2> DEFINE C == Taken(list, Len(list))
  <2>1. C \in SUBSET Containers
    BY ListTyped, TakenTyped
  <2>2. \A c \in C : stdio[c].use # "null"
    BY <1>5, ListTyped DEF Spawn, Spawned, Passes, Taken
  <2>3. /\ stdio' = Emptied(C)
        /\ given' = [given EXCEPT ![p] =
             IF success THEN [containers |-> C, streams |-> StreamsOf(C)] ELSE given[p]]
        /\ object' = Settled([object EXCEPT ![p] = "live"])
    BY <1>5 DEF Spawn, Spawned
  <2> HIDE DEF C
  <2>4. object'[p] # "none" /\ \A q \in Handles \ {p} : object'[q] = "none" => object[q] = "none"
    BY <2>3 DEF Settled, TypeOK, HandlerTypeOK
  <2>5. \A d \in Containers : stdio'[d].use = "none" => stdio'[d].stream = NoHandle
    BY <2>3 DEF SpentInv, Emptied
  <2>6. \A q \in Handles \ {p} : given'[q] = given[q]
    BY <2>3 DEF TypeOK
  <2>7. \A q \in Handles : \A d \in given[q].containers :
          d \in Containers /\ stdio[d].use = "null" /\ stdio'[d].use = "null"
    BY <2>3 DEF SpentInv, TypeOK, Emptied
  <2>8. given'[p].containers \subseteq C \/ given'[p] = given[p]
    BY <2>3 DEF TypeOK
  <2>9. \A q \in Handles : \A d \in given'[q].containers : stdio'[d].use = "null"
    BY <2>1, <2>3, <2>6, <2>7, <2>8 DEF Emptied
  <2>10. SpentOnce'
    BY <2>2, <2>6, <2>7, <2>8 DEF SpentOnce, SpentInv
  <2>11. \A q \in Handles : object'[q] = "none" =>
           given'[q].containers = {} /\ given'[q].streams = {}
    BY <2>4, <2>6 DEF SpentInv
  <2> QED
    BY <2>5, <2>9, <2>10, <2>11 DEF SpentInv
<1>6. ASSUME NEW h \in Handles, Streaming(h), UNCHANGED processVars
      PROVE  SpentInv'
  BY <1>6, StreamBalances, SpentSame DEF Balances
<1>7. ASSUME NEW p \in Handles, Exit(p) \/ ExitReturn(p)
      PROVE  SpentInv'
  <2>1. UNCHANGED processVars
    BY <1>7 DEF Exit, ExitReturn
  <2> QED
    BY <1>7, <2>1, ExitBalances, SpentSame DEF Balances
<1>8. CASE UNCHANGED vars
  BY <1>8 DEF vars, SpentInv, SpentOnce
<1> QED
  BY <1>1, <1>3, <1>4, <1>5, <1>6, <1>7, <1>8 DEF Next

\* What is owed is covered, whatever happens.
LEMMA HandlesKept ==
  ASSUME TypeOK, TypeOK', SpentInv, [Next]_vars, \A g \in Handles : HandleInv(g)
  PROVE  \A g \in Handles : HandleInv(g)'
<1>1. ASSUME NEW h \in Handles, Streaming(h), UNCHANGED processVars
      PROVE  \A g \in Handles : HandleInv(g)'
  BY <1>1, StreamBalances, BalancesKept
<1>2. ASSUME NEW p \in Handles, Exit(p) \/ ExitReturn(p)
      PROVE  \A g \in Handles : HandleInv(g)'
  <2>1. UNCHANGED processVars
    BY <1>2 DEF Exit, ExitReturn
  <2> QED
    BY <1>2, <2>1, ExitBalances, BalancesKept
<1>3. CASE UNCHANGED vars
  <2>1. ASSUME NEW g \in Handles
        PROVE  HandleInv(g)'
    BY <1>3, <2>1, Unaffected DEF vars, SameHandle, processVars
  <2> QED
    BY <2>1
<1> QED
  BY <1>1, <1>2, <1>3, StdioKept, ForgetKept, RefusedKept, SpawnKept DEF Next

\* Nothing asks for a request here.
LEMMA NoRequests ==
  ASSUME RequestInit, [Next]_vars
  PROVE  RequestInit'
<1>1. UNCHANGED requestVars
  <2>1. ASSUME NEW h \in Handles, Streaming(h)
        PROVE  UNCHANGED requestVars
    BY <2>1 DEF Streaming, Make, ReadStart, ReadEvent, Enter, Open, Close, ForgetHandle, KeepHandle,
       EventReturn, Leave, FinishClose
  <2>2. ASSUME NEW c \in Containers,
               \/ \E use \in Uses, s \in Handles \cup {NoHandle} : StdioNew(c, use, s)
               \/ StdioForget(c)
        PROVE  UNCHANGED requestVars
    BY <2>2 DEF StdioNew, MakeStdio, StdioForget
  <2>3. ASSUME NEW p \in Handles, NEW list \in Lists,
               SpawnRefused(p, list) \/ \E success \in BOOLEAN : Spawn(p, list, success)
        PROVE  UNCHANGED requestVars
    BY <2>3 DEF SpawnRefused, Spawn, Spawned
  <2>4. ASSUME NEW p \in Handles, Exit(p) \/ ExitReturn(p)
        PROVE  UNCHANGED requestVars
    BY <2>4 DEF Exit, Enter, ExitReturn, Leave
  <2>5. CASE UNCHANGED vars
    BY <2>5 DEF vars, requestVars
  <2> QED
    BY <2>1, <2>2, <2>3, <2>4, <2>5 DEF Next
<1> QED
  BY <1>1 DEF RequestInit, requestVars

\* The inductive invariant: who refers to a handle covers what is owed to it.
THEOREM Accounted == Spec => []ProcessInv
<1>1. Init => ProcessInv
  <2> SUFFICES ASSUME Init
               PROVE  ProcessInv
    OBVIOUS
  <2>1. TypeOK
    BY InitTyped
  <2>2. RequestInit /\ SpentInv
    BY DEF Init, SpentInv, SpentOnce, NewStdio
  <2>3. ASSUME NEW h \in Handles
        PROVE  HandleInv(h)
    <3>1. (\A c \in Containers : stdio[c].stream # h) /\ ~GivenTo(h)
      BY HandlerAssumption DEF Init, NewStdio, GivenTo, HandlerAssumption
    <3>2. Lost(h, Containers) = 0
      BY <3>1, LostTyped
    <3>3. Kept(h) = 0 /\ Asked(h) = 0 /\ One(GivenTo(h)) = 0
      BY <3>1, HandlerAssumption DEF Kept, Asked, One, Init, HandlerInit, HandlerAssumption
    <3>4. Kept(h) >= Owed(h)
      BY <3>2, <3>3 DEF Owed
    <3> QED
      BY <3>1, <3>4, HandlerAssumption DEF HandleInv, Init, HandlerInit, HandlerAssumption
  <2> QED
    BY <2>1, <2>2, <2>3 DEF ProcessInv
<1>2. ProcessInv /\ [Next]_vars => ProcessInv'
  <2> SUFFICES ASSUME ProcessInv, [Next]_vars
               PROVE  ProcessInv'
    OBVIOUS
  <2>1. TypeOK'
    BY TypeStep DEF ProcessInv
  <2>2. RequestInit' /\ SpentInv'
    BY <2>1, NoRequests, SpentKept DEF ProcessInv
  <2>3. \A h \in Handles : HandleInv(h)'
    BY <2>1, HandlesKept DEF ProcessInv
  <2> QED
    BY <2>1, <2>2, <2>3 DEF ProcessInv
<1> QED
  BY <1>1, <1>2, PTL DEF Spec

------------------------------------------------------------------------------
(* What follows *)

\* Nobody meets a destroyed process or stream: no event, no exit, no close
\* callback and no variable.
THEOREM UseAfterDestroy == Spec => []NoUseAfterDestroy
<1>1. ProcessInv => NoUseAfterDestroy
  <2> SUFFICES ASSUME ProcessInv, NEW h \in Handles, InUse(h)
               PROVE  object[h] = "live"
    BY DEF NoUseAfterDestroy
  <2>1. TypeOK /\ HandleInv(h)
    BY DEF ProcessInv
  <2>2. Awaited(h) = {}
    BY DEF ProcessInv, RequestInit, NewRequest, Awaited, PendingOn, Pending
  <2>3. object[h] # "destroyed"
    BY <2>1, <2>2, OwedTyped, OwedAlive DEF InUse, HandleInv
  <2>4. object[h] # "none"
    BY <2>1, <2>2 DEF InUse, HandleInv
  <2> QED
    BY <2>1, <2>3, <2>4 DEF TypeOK, HandlerTypeOK
<1> QED
  BY <1>1, Accounted, PTL

\* The streams of a running child exist, for any number of children that share
\* them and whatever was forgotten.
THEOREM ChildrensStreams == Spec => []ChildStreamsAlive
<1>1. ProcessInv => ChildStreamsAlive
  <2> SUFFICES ASSUME ProcessInv, NEW p \in Handles, NEW s \in given[p].streams
               PROVE  object[s] = "live"
    BY DEF ChildStreamsAlive
  <2>1. TypeOK /\ s \in Handles
    BY DEF ProcessInv, TypeOK
  <2>2. HandleInv(s) /\ GivenTo(s)
    BY <2>1 DEF ProcessInv, GivenTo
  <2>3. object[s] # "destroyed" /\ object[s] # "none"
    BY <2>1, <2>2, OwedTyped, OwedAlive DEF HandleInv
  <2> QED
    BY <2>1, <2>3 DEF TypeOK, HandlerTypeOK
<1> QED
  BY <1>1, Accounted, PTL

\* No container is given to two children, however often lists name it.
THEOREM ContainersSpent == Spec => []SpentOnce
<1>1. ProcessInv => SpentOnce
  BY DEF ProcessInv, SpentInv
<1> QED
  BY <1>1, Accounted, PTL

------------------------------------------------------------------------------
(* Lending *)

\* What a step may do to the callback in progress: nothing, end it, or begin one
\* about a handle that is lent.
Calls ==
  \/ running' = running
  \/ running' = NoHandle
  \/ running = NoHandle /\ \E h \in Handles : running' = h /\ LentHandle(h)

\* Nothing that is destroyed comes back, and callbacks come one by one.
LEMMA StepLends ==
  ASSUME ProcessInv, [Next]_vars, TypeOK'
  PROVE  Calls /\ \A g \in Handles : object[g] = "destroyed" => object'[g] = "destroyed"
<1>0. TypeOK
  BY DEF ProcessInv
<1> USE DEF HandlerTypeOK, Calls
<1>1. ASSUME NEW h \in Handles, Streaming(h)
      PROVE  Calls /\ \A g \in Handles : object[g] = "destroyed" => object'[g] = "destroyed"
  <2>1. Calls
    <3>1. CASE ReadEvent(h, "data")
      BY <3>1 DEF ReadEvent, Enter, Polling, LentHandle
    <3>2. CASE FinishClose(h)
      BY <3>2 DEF FinishClose, CloseCallback, Closed, LentHandle
    <3> QED
      BY <1>1, <3>1, <3>2 DEF Streaming, Make, Construct, ReadStart, Open, Close, CloseHandle,
         CloseNow, ForgetHandle, Forget, KeepHandle, Keep, EventReturn, Leave
  <2>2. \A g \in Handles : object[g] = "destroyed" => object'[g] = "destroyed"
    BY <1>0, <1>1 DEF TypeOK, Streaming, Make, Construct, ReadStart, ReadEvent, Enter, Open, Close,
       CloseHandle, CloseNow, Settle, ForgetHandle, Forget, KeepHandle, Keep, EventReturn, Leave,
       FinishClose, CloseCallback, Closed
  <2> QED
    BY <2>1, <2>2
<1>2. ASSUME NEW p \in Handles, Exit(p)
      PROVE  Calls /\ \A g \in Handles : object[g] = "destroyed" => object'[g] = "destroyed"
  BY <1>2 DEF Exit, Enter, Polling, LentHandle
<1>3. ASSUME NEW p \in Handles, ExitReturn(p)
      PROVE  Calls /\ \A g \in Handles : object[g] = "destroyed" => object'[g] = "destroyed"
  BY <1>0, <1>3 DEF TypeOK, ExitReturn, Leave, Settle
<1>4. ASSUME NEW c \in Containers, StdioForget(c)
      PROVE  Calls /\ \A g \in Handles : object[g] = "destroyed" => object'[g] = "destroyed"
  BY <1>4 DEF StdioForget, Settled
<1>5. ASSUME NEW p \in Handles, NEW list \in Lists, SpawnRefused(p, list)
      PROVE  Calls /\ \A g \in Handles : object[g] = "destroyed" => object'[g] = "destroyed"
  <2>1. running' = running /\ object' = Settled([object EXCEPT ![p] = "destroyed"])
    BY <1>5 DEF SpawnRefused
  <2> QED
    BY <1>0, <2>1 DEF TypeOK, Settled
<1>6. ASSUME NEW p \in Handles, NEW list \in Lists, NEW success \in BOOLEAN,
             Spawn(p, list, success)
      PROVE  Calls /\ \A g \in Handles : object[g] = "destroyed" => object'[g] = "destroyed"
  <2>1. /\ running' = running /\ object' = Settled([object EXCEPT ![p] = "live"])
        /\ object[p] = "none"
    BY <1>6 DEF Spawn, Spawned
  <2> QED
    BY <1>0, <2>1 DEF TypeOK, Settled
<1>7. ASSUME NEW c \in Containers, NEW use \in Uses, NEW s \in Handles \cup {NoHandle},
             StdioNew(c, use, s)
      PROVE  Calls /\ \A g \in Handles : object[g] = "destroyed" => object'[g] = "destroyed"
  BY <1>7 DEF StdioNew, MakeStdio
<1>8. CASE UNCHANGED vars
  BY <1>8 DEF vars
<1> QED
  BY <1>1, <1>2, <1>3, <1>4, <1>5, <1>6, <1>7, <1>8 DEF Next

\* Processes and streams implement the abstract specification of lending: none
\* goes while libuv has it or calls back about it, callbacks do not interrupt
\* each other, and what is gone stays gone.
THEOREM LendingKept == Spec => LendingSpec
<1> USE DEF Lent!Init, Lent!Next, Lent!vars, Lent!Managed, Lent!Call, Lent!Return
<1>1. Init => Lent!Init
  BY HandlerAssumption DEF Init, HandlerInit, LentHandle, HandlerAssumption
<1>2. /\ ProcessInv /\ NoUseAfterDestroy' /\ ChildStreamsAlive' /\ [Next]_vars
      => [Lent!Next]_Lent!vars
  <2> SUFFICES ASSUME ProcessInv, NoUseAfterDestroy', ChildStreamsAlive', [Next]_vars
               PROVE  Lent!Next
    OBVIOUS
  <2>1. TypeOK'
    BY TypeStep DEF ProcessInv
  <2>2. Calls /\ \A g \in Handles : object[g] = "destroyed" => object'[g] = "destroyed"
    BY <2>1, StepLends
  <2>3. \A h \in Handles : LentHandle(h)' \/ running' = h => object'[h] # "destroyed"
    BY DEF LentHandle, NoUseAfterDestroy, InUse, ChildStreamsAlive
  <2>4. Lent!Managed
    BY <2>2, <2>3
  <2>5. Lent!Call \/ Lent!Return \/ UNCHANGED {h \in Handles : running = h}
    BY <2>2, HandlerAssumption DEF Calls, HandlerAssumption
  <2> QED
    BY <2>4, <2>5
<1> QED
  BY <1>1, <1>2, Accounted, UseAfterDestroy, ChildrensStreams, PTL DEF Spec, LendingSpec, Lent!Spec
==============================================================================
