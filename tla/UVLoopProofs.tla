---------------------------- MODULE UVLoopProofs ----------------------------
(***************************************************************************)
(* The invariants of UVLoop, for any finite set of loops, any number of    *)
(* handles, calls, runs and locks, and both systems.                       *)
(*                                                                         *)
(* None of them is inductive: that a loop is kept follows from how many    *)
(* references its calls have taken away, and that the module is cleared in *)
(* the end from a call that is still on the stack.  IInv says both: Holds  *)
(* and Sole of each loop - a dying one has the rest of its destructor on   *)
(* the stack, each reference taken away was one call of the program - and  *)
(* Module of the module.  A step that ends with Settle() may destroy       *)
(* loops; Prepared is what it has to show of the loops and the calls       *)
(* before that, and AfterSettle draws IInv from it, once for all actions.  *)
(***************************************************************************)
EXTENDS UVLoop, FiniteSetTheorems, SequenceTheorems, TLAPS

ToShutDown == Call("request_shutdown", NoLoop)
ToClear == Call("module_clear", NoLoop)

\* The empty stack has no call.
LEMMA NoCalls == Calls(<<>>) = {}
  BY DEF Calls

\* A stack of one call.
LEMMA OneCall == ASSUME NEW c PROVE Calls(<<c>>) = {c}
  BY DEF Calls

\* Calls put before others are called as well.
LEMMA CallsJoined ==
  ASSUME NEW s \in Seq(CallType), NEW t \in Seq(CallType)
  PROVE  s \o t \in Seq(CallType) /\ Calls(s \o t) = Calls(s) \cup Calls(t)
<1>1. s \o t \in Seq(CallType)
  BY ConcatProperties
<1>2. Len(s) \in Nat /\ Len(t) \in Nat
  BY LenProperties
<1>3. ASSUME NEW c \in Calls(s \o t)
      PROVE  c \in Calls(s) \cup Calls(t)
  <2>1. PICK i \in 1 .. Len(s) + Len(t) : c = (s \o t)[i]
    BY ConcatProperties DEF Calls
  <2>2. CASE i =< Len(s)
    BY <1>2, <2>1, <2>2, ConcatProperties DEF Calls
  <2>3. CASE i > Len(s)
    <3>1. i - Len(s) \in 1 .. Len(t) /\ c = t[i - Len(s)]
      BY <1>2, <2>1, <2>3, ConcatProperties
    <3> QED
      BY <3>1 DEF Calls
  <2> QED
    BY <1>2, <2>1, <2>2, <2>3
<1>4. ASSUME NEW c \in Calls(s)
      PROVE  c \in Calls(s \o t)
  <2>1. PICK i \in 1 .. Len(s) : c = s[i]
    BY <1>4 DEF Calls
  <2>2. i \in 1 .. Len(s \o t) /\ c = (s \o t)[i]
    BY <1>2, <2>1, ConcatProperties
  <2> QED
    BY <2>2 DEF Calls
<1>5. ASSUME NEW c \in Calls(t)
      PROVE  c \in Calls(s \o t)
  <2>1. PICK i \in 1 .. Len(t) : c = t[i]
    BY <1>5 DEF Calls
  <2>2. i + Len(s) \in 1 .. Len(s \o t) /\ c = (s \o t)[i + Len(s)]
    BY <1>2, <2>1, ConcatProperties
  <2> QED
    BY <2>2 DEF Calls
<1> QED
  BY <1>1, <1>3, <1>4, <1>5

\* The next call and those after it are all there are.
LEMMA CallsPopped ==
  ASSUME NEW s \in Seq(CallType), s # <<>>
  PROVE  Tail(s) \in Seq(CallType) /\ Head(s) \in CallType
         /\ Calls(s) = {Head(s)} \cup Calls(Tail(s))
<1>1. Tail(s) \in Seq(CallType) /\ Head(s) \in CallType /\ Len(Tail(s)) = Len(s) - 1
      /\ \A i \in 1 .. Len(Tail(s)) : Tail(s)[i] = s[i + 1]
  BY HeadTailProperties
<1>2. Len(s) \in Nat \ {0} /\ Head(s) = s[1]
  BY EmptySeq
<1>3. ASSUME NEW i \in 1 .. Len(s)
      PROVE  s[i] \in {Head(s)} \cup Calls(Tail(s))
  <2>1. CASE i = 1
    BY <1>2, <2>1
  <2>2. CASE i # 1
    <3>1. i - 1 \in 1 .. Len(Tail(s)) /\ s[i] = Tail(s)[i - 1]
      BY <1>1, <1>2, <2>2
    <3> QED
      BY <3>1 DEF Calls
  <2> QED
    BY <2>1, <2>2
<1>4. ASSUME NEW i \in 1 .. Len(Tail(s))
      PROVE  Tail(s)[i] \in Calls(s)
  <2>1. i + 1 \in 1 .. Len(s) /\ Tail(s)[i] = s[i + 1]
    BY <1>1, <1>2
  <2> QED
    BY <2>1 DEF Calls
<1>5. Head(s) \in Calls(s)
  BY <1>2 DEF Calls
<1> QED
  BY <1>1, <1>3, <1>4, <1>5 DEF Calls


\* A call is what it is called and the loop it is for.
LEMMA SameCall ==
  \A a, b, x, y : Call(a, x) = Call(b, y) => a = b /\ x = y
  BY DEF Call

\* The calls have their types.
LEMMA CallTypes ==
  /\ \A l \in Loops : \A n \in {"run", "drain", "init", "destruct", "free"} :
       Call(n, l) \in CallType
  /\ ToShutDown \in CallType /\ ToClear \in CallType
  BY DEF ToShutDown, ToClear, Call, CallType

Single == {"run", "init"}

\* A loop's run(), and its init(), is on the stack at most once.
Once(s) ==
  \A i, j \in 1 .. Len(s) : s[i] = s[j] /\ s[i].call \in Single => i = j

\* What the stack is without the next call.
LEMMA Pop ==
  ASSUME NEW n, NEW l, NextCall(n, l), stack \in Seq(CallType), Once(stack)
  PROVE  /\ Tail(stack) \in Seq(CallType) /\ Once(Tail(stack))
         /\ Calls(stack) = {Call(n, l)} \cup Calls(Tail(stack))
         /\ n \in Single => Call(n, l) \notin Calls(Tail(stack))
<1> DEFINE t == Tail(stack)
<1>1. stack # <<>> /\ Head(stack) = Call(n, l)
  BY DEF NextCall
<1>2. t \in Seq(CallType) /\ Calls(stack) = {Call(n, l)} \cup Calls(t)
  BY <1>1, CallsPopped
<1>3. /\ Len(t) \in Nat /\ Len(stack) = Len(t) + 1 /\ stack[1] = Call(n, l)
      /\ \A i \in 1 .. Len(t) : t[i] = stack[i + 1]
  BY <1>1, <1>2, HeadTailProperties, LenProperties, EmptySeq
<1> HIDE DEF t
<1>4. Once(t)
  <2> SUFFICES ASSUME NEW i \in 1 .. Len(t), NEW j \in 1 .. Len(t), t[i] = t[j], t[i].call \in Single
               PROVE  i = j
    BY DEF Once
  <2>1. i + 1 \in 1 .. Len(stack) /\ j + 1 \in 1 .. Len(stack)
    BY <1>3
  <2>2. i + 1 = j + 1
    BY <1>3, <2>1 DEF Once
  <2> QED
    BY <1>3, <2>2
<1>5. ASSUME n \in Single, Call(n, l) \in Calls(t)
      PROVE  FALSE
  <2>1. PICK i \in 1 .. Len(t) : t[i] = Call(n, l)
    BY <1>5 DEF Calls
  <2>2. /\ 1 \in 1 .. Len(stack) /\ i + 1 \in 1 .. Len(stack)
        /\ stack[1] = stack[i + 1]
    BY <1>3, <1>5, <2>1
  <2>3. stack[1].call \in Single
    BY <1>3, <1>5 DEF Call
  <2>4. 1 = i + 1
    BY <2>2, <2>3 DEF Once
  <2> QED
    BY <1>3, <2>4
<1> QED
  BY <1>2, <1>4, <1>5 DEF t

\* Two stacks on top of each other, the upper one without any such call.
LEMMA OnceJoined ==
  ASSUME NEW s \in Seq(CallType), NEW t \in Seq(CallType), Once(t),
         \A c \in Calls(s) : c.call \in Single => c \notin Calls(t) /\ s = <<c>>
  PROVE  Once(s \o t)
<1>1. /\ Len(s) \in Nat /\ Len(t) \in Nat /\ Len(s \o t) = Len(s) + Len(t)
      /\ \A i \in 1 .. Len(s) + Len(t) :
           (s \o t)[i] = IF i =< Len(s) THEN s[i] ELSE t[i - Len(s)]
  BY ConcatProperties, LenProperties
<1> DEFINE u == s \o t
<1> SUFFICES ASSUME NEW i \in 1 .. Len(u), NEW j \in 1 .. Len(u), u[i] = u[j], u[i].call \in Single
             PROVE  i = j
  BY DEF Once
<1> HIDE DEF u
<1>2. /\ Len(u) = Len(s) + Len(t)
      /\ \A k \in 1 .. Len(u) : u[k] = IF k =< Len(s) THEN s[k] ELSE t[k - Len(s)]
  BY <1>1 DEF u
<1>3. ASSUME NEW k \in 1 .. Len(u), u[k].call \in Single, k =< Len(s)
      PROVE  k = 1 /\ Len(s) = 1 /\ u[k] \notin Calls(t)
  <2>1. u[k] = s[k] /\ s[k] \in Calls(s)
    BY <1>1, <1>2, <1>3 DEF Calls
  <2>2. s = <<u[k]>> /\ u[k] \notin Calls(t)
    BY <1>3, <2>1
  <2>3. Len(s) = 1
    BY <2>2
  <2> QED
    BY <1>1, <1>3, <2>2, <2>3
<1>4. ASSUME NEW k \in 1 .. Len(u), ~(k =< Len(s))
      PROVE  k - Len(s) \in 1 .. Len(t) /\ u[k] = t[k - Len(s)] /\ u[k] \in Calls(t)
  BY <1>1, <1>2, <1>4 DEF Calls
<1>5. CASE i =< Len(s)
  <2>1. j =< Len(s)
    BY <1>3, <1>4, <1>5
  <2> QED
    BY <1>3, <1>5, <2>1
<1>6. CASE ~(i =< Len(s))
  <2>1. ~(j =< Len(s))
    BY <1>3, <1>4, <1>6
  <2>2. i - Len(s) = j - Len(s)
    BY <1>4, <1>6, <2>1 DEF Once
  <2> QED
    BY <1>1, <1>2, <2>2
<1> QED
  BY <1>5, <1>6

\* What the stack is with one call more.
LEMMA Push ==
  ASSUME NEW c \in CallType, NEW t \in Seq(CallType), Once(t),
         c.call \in Single => c \notin Calls(t)
  PROVE  /\ <<c>> \o t \in Seq(CallType) /\ Once(<<c>> \o t)
         /\ Calls(<<c>> \o t) = {c} \cup Calls(t)
<1>1. <<c>> \in Seq(CallType) /\ Calls(<<c>>) = {c}
  BY OneCall
<1> QED
  BY <1>1, CallsJoined, OnceJoined

\* Whatever the order of the destructors, each is called.
LEMMA OrderOfDestructors ==
  ASSUME NEW D \in SUBSET Loops, NEW order \in SetToSeqs({Call("destruct", l) : l \in D})
  PROVE  order \in Seq(CallType) /\ Calls(order) = {Call("destruct", l) : l \in D}
<1> DEFINE S == {Call("destruct", l) : l \in D}
<1>1. IsFiniteSet(D)
  BY LoopAssumption, FS_Subset DEF LoopAssumption
<1>2. IsFiniteSet(S)
  <2> DEFINE f == [l \in D |-> Call("destruct", l)]
  <2>1. f \in Surjection(D, S)
    BY DEF Surjection
  <2> QED
    BY <1>1, <2>1, FS_Surjection
<1>3. Cardinality(S) \in Nat
  BY <1>2, FS_CardinalityType
<1>4. order \in [1 .. Cardinality(S) -> S]
      /\ \A i, j \in 1 .. Cardinality(S) : i # j => order[i] # order[j]
  BY DEF SetToSeqs
<1>5. order \in Injection(1 .. Cardinality(S), S)
  BY <1>4 DEF Injection, IsInjective
<1>6. Cardinality(1 .. Cardinality(S)) = Cardinality(S)
  BY <1>3, FS_Interval
<1>7. order \in Surjection(1 .. Cardinality(S), S)
  BY <1>2, <1>5, <1>6, FS_Injection
<1>8. S \subseteq CallType
  BY DEF Call, CallType
<1>9. order \in Seq(CallType) /\ Len(order) = Cardinality(S)
  BY <1>3, <1>4, <1>8
<1>10. \A i \in 1 .. Len(order) : order[i] \in S
  BY <1>4, <1>9
<1>11. \A c \in S : \E i \in 1 .. Len(order) : order[i] = c
  BY <1>7, <1>9 DEF Surjection
<1> HIDE DEF S
<1>12. Calls(order) = S
  BY <1>10, <1>11 DEF Calls
<1> QED
  BY <1>9, <1>12 DEF S


------------------------------------------------------------------------------
(* Settle() *)

Dies(L, calls, l) == L[l].object = "live" /\ References(L, calls, l) =< 0

\* What Settle() does: it marks the loops that have no reference, and calls their
\* destructors first.
LEMMA SettleStep ==
  ASSUME NEW L \in [Loops -> LoopType], NEW rest \in Seq(CallType), Settle(L, rest)
  PROVE  /\ loop' \in [Loops -> LoopType]
         /\ stack' \in Seq(CallType)
         /\ \A l \in Loops :
              loop'[l] = IF Dies(L, Calls(rest), l) THEN [L[l] EXCEPT !.object = "dying"] ELSE L[l]
         /\ Calls(stack') =
              {Call("destruct", l) : l \in {k \in Loops : Dies(L, Calls(rest), k)}} \cup Calls(rest)
         /\ Once(rest) => Once(stack')
<1> DEFINE D == {l \in Loops : Dies(L, Calls(rest), l)}
<1>1. loop' = [l \in Loops |-> IF l \in D THEN [L[l] EXCEPT !.object = "dying"] ELSE L[l]]
  BY DEF Settle, Dies
<1>2. PICK order \in SetToSeqs({Call("destruct", l) : l \in D}) : stack' = order \o rest
  BY DEF Settle, Dies
<1>3. order \in Seq(CallType) /\ Calls(order) = {Call("destruct", l) : l \in D}
  BY OrderOfDestructors
<1>4. stack' \in Seq(CallType) /\ Calls(stack') = {Call("destruct", l) : l \in D} \cup Calls(rest)
  BY <1>2, <1>3, CallsJoined
<1>5. loop' \in [Loops -> LoopType]
  <2>1. ASSUME NEW r \in LoopType
        PROVE  [r EXCEPT !.object = "dying"] \in LoopType
    BY DEF LoopType
  <2> QED
    BY <1>1, <2>1
<1>6. \A c \in Calls(order) : c.call \notin Single
  BY <1>3 DEF Call, Single
<1>7. Once(rest) => Once(stack')
  BY <1>2, <1>3, <1>6, OnceJoined
<1> QED
  BY <1>1, <1>4, <1>5, <1>7

------------------------------------------------------------------------------
(* The inductive invariant *)

Gone(r) == r.object \in {"none", "destroyed"}

Ending(r) == r.object \in {"dying", "destroyed"}

\* A loop, whose record is r, with the calls C: its destructor is on the stack
\* before it is destroyed and not before it is to be; what run(), stop() and
\* close() took away, and a run() will, is no more than their number.
Holds(r, C, l) ==
  /\ r.object = "none" =>
       r.dels = 0 /\ r.native = "none" /\ \A n \in Single : Call(n, l) \notin C
  /\ r.object = "dying" => Call("destruct", l) \in C \/ Call("free", l) \in C
  /\ Call("destruct", l) \in C \/ Call("free", l) \in C \/ Call("drain", l) \in C => Ending(r)
  /\ r.object = "live" /\ r.native # "deleted" =>
       r.dels + One(Call("run", l) \in C /\ r.mode = "default") =< r.calls
  /\ r.object = "live" /\ Call("run", l) \in C => r.native # "deleted"
  /\ r.object = "live" /\ Call("init", l) \in C => r.native = "none"

Others(L, l) == \A k \in Loops \ {l} : L[k].object = "none"

\* The only loop there is is the default.
Sole(L, d, l) ==
  Others(L, l) /\ L[l].object = "live" /\ L[l].native # "deleted" => d = l

ModuleTypes ==
  /\ ext \in [uv_default : Loops \cup {NoLoop}, shutdown_on_request : BOOLEAN,
              uv_exited : BOOLEAN, destructor_linked : BOOLEAN, ffi : BOOLEAN]
  /\ locks \in Nat
  /\ lockLoop \in Loops \cup {NoLoop}
  /\ phase \in {"script", "ending", "done", "crashed"}

\* The module e, with n locks in phase p: it is cleared or somebody is going to
\* do it.
Module(L, C, e, n, p) ==
  /\ e.uv_exited <=> ~e.ffi
  /\ e.destructor_linked /\ n = 0 => e.uv_exited \/ ToClear \in C
  /\ p = "done" =>
       /\ \A l \in Loops : Gone(L[l])
       /\ e.uv_exited \/ n = 0
       /\ e.uv_exited \/ ToShutDown \in C \/ ToClear \in C
  /\ ToShutDown \in C => p = "done" \/ \E l \in Loops : Ending(L[l])

IInv ==
  /\ loop \in [Loops -> LoopType] /\ stack \in Seq(CallType) /\ Once(stack)
  /\ ModuleTypes
  /\ Module(loop, Calls(stack), ext, locks, phase)
  /\ \A l \in Loops : Holds(loop[l], Calls(stack), l) /\ Sole(loop, ext.uv_default, l)

\* The invariant holds after the step if it does with the loops L and the calls C.
Prepared(L, C) ==
  /\ L \in [Loops -> LoopType]
  /\ ModuleTypes'
  /\ Module(L, C, ext', locks', phase')
  /\ \A l \in Loops : Holds(L[l], C, l) /\ Sole(L, ext'.uv_default, l)

\* The step settles the loops: it destroyed none before.
Settles ==
  \E L \in [Loops -> LoopType], rest \in Seq(CallType) :
    /\ Settle(L, rest) /\ Prepared(L, Calls(rest)) /\ Once(rest)
    /\ \A l \in Loops : loop[l].object = "live" => L[l].object = "live"

\* Settle() establishes it.
LEMMA AfterSettle ==
  ASSUME Settles
  PROVE  IInv'
<1> PICK L \in [Loops -> LoopType], rest \in Seq(CallType) :
      Settle(L, rest) /\ Prepared(L, Calls(rest)) /\ Once(rest)
  BY DEF Settles
<1> DEFINE C == Calls(rest)
<1>1. /\ loop' \in [Loops -> LoopType] /\ stack' \in Seq(CallType) /\ Once(stack')
      /\ \A k \in Loops : loop'[k] = IF Dies(L, C, k) THEN [L[k] EXCEPT !.object = "dying"] ELSE L[k]
      /\ Calls(stack') = {Call("destruct", k) : k \in {j \in Loops : Dies(L, C, j)}} \cup C
  BY SettleStep DEF Prepared
<1> HIDE DEF C
<1>2. ASSUME NEW c, \A k \in Loops : c # Call("destruct", k)
      PROVE  c \in Calls(stack') <=> c \in C
  BY <1>1, <1>2
<1>3. ASSUME NEW l \in Loops
      PROVE  /\ Call("run", l) \in Calls(stack') <=> Call("run", l) \in C
             /\ Call("init", l) \in Calls(stack') <=> Call("init", l) \in C
             /\ Call("free", l) \in Calls(stack') <=> Call("free", l) \in C
             /\ Call("drain", l) \in Calls(stack') <=> Call("drain", l) \in C
  BY <1>2, SameCall
<1>4. ASSUME NEW l \in Loops
      PROVE  Holds(loop'[l], Calls(stack'), l)
  <2>1. L[l] \in LoopType /\ Holds(L[l], C, l)
    BY DEF Prepared, C
  <2>2. CASE Dies(L, C, l)
    <3>1. Call("destruct", l) \in Calls(stack') /\ loop'[l] = [L[l] EXCEPT !.object = "dying"]
      BY <1>1, <2>2
    <3>2. loop'[l].object = "dying"
      BY <2>1, <3>1 DEF LoopType
    <3> QED
      BY <3>1, <3>2 DEF Holds, Ending
  <2>3. CASE ~Dies(L, C, l)
    <3>1. Call("destruct", l) \in Calls(stack') <=> Call("destruct", l) \in C
      BY <1>1, <2>3, SameCall
    <3>2. loop'[l] = L[l]
      BY <1>1, <2>3
    <3> QED
      BY <1>3, <2>1, <3>1, <3>2 DEF Holds, Single
  <2> QED
    BY <2>2, <2>3
<1>5. ASSUME NEW k \in Loops
      PROVE  \/ loop'[k] = L[k]
             \/ L[k].object = "live" /\ loop'[k].object = "dying"
  <2>1. L[k] \in LoopType
    BY DEF Prepared
  <2> QED
    BY <1>1, <2>1 DEF Dies, LoopType
<1>6. ASSUME NEW l \in Loops
      PROVE  Sole(loop', ext'.uv_default, l)
  <2>1. Others(loop', l) => Others(L, l)
    BY <1>5 DEF Others
  <2> QED
    BY <1>5, <2>1 DEF Prepared, Sole
<1>7. Module(loop', Calls(stack'), ext', locks', phase')
  <2>1. /\ ToClear \in Calls(stack') <=> ToClear \in C
        /\ ToShutDown \in Calls(stack') <=> ToShutDown \in C
    BY <1>2, SameCall DEF ToClear, ToShutDown
  <2>2. ASSUME NEW l \in Loops
        PROVE  (Gone(L[l]) => Gone(loop'[l])) /\ (Ending(L[l]) => Ending(loop'[l]))
    BY <1>5 DEF Gone, Ending
  <2>3. Module(L, C, ext', locks', phase')
    BY DEF Prepared, C
  <2> QED
    BY <2>1, <2>2, <2>3 DEF Module
<1>8. ModuleTypes'
  BY DEF Prepared
<1> QED
  BY <1>1, <1>4, <1>6, <1>7, <1>8 DEF IInv

\* A step that settles nothing establishes it itself.
LEMMA AfterPlain ==
  ASSUME stack' \in Seq(CallType), Once(stack'), Prepared(loop', Calls(stack'))
  PROVE  IInv'
  BY DEF IInv, Prepared

\* The loops other than l are none of the step's business.
SameCalls(C, k) ==
  \A n \in {"run", "drain", "init", "destruct", "free"} : Call(n, k) \in C <=> Call(n, k) \in Calls(stack)

\* A step that changes one loop, to r, and leaves the module alone.
LEMMA OneChanged ==
  ASSUME IInv, ModuleUnchanged, NEW l \in Loops, NEW r \in LoopType, NEW C,
         \A k \in Loops \ {l} : SameCalls(C, k),
         ToClear \in C <=> ToClear \in Calls(stack),
         ToShutDown \in Calls(stack) => ToShutDown \in C,
         ToShutDown \in C => ToShutDown \in Calls(stack) \/ Ending(r),
         r.object = "none" <=> loop[l].object = "none",
         r.object = "live" => loop[l].object = "live",
         Ending(loop[l]) => Ending(r),
         phase = "done" /\ Gone(loop[l]) => Gone(r),
         r.native # "deleted" => loop[l].native # "deleted" \/ r.object # "live",
         Holds(r, C, l)
  PROVE  Prepared([loop EXCEPT ![l] = r], C)
<1> DEFINE L == [loop EXCEPT ![l] = r]
<1>1. /\ L \in [Loops -> LoopType] /\ L[l] = r
      /\ \A k \in Loops \ {l} : L[k] = loop[k]
  BY DEF IInv
<1> HIDE DEF L
<1>2. ext' = ext /\ locks' = locks /\ lockLoop' = lockLoop /\ phase' = phase
  BY DEF ModuleUnchanged
<1>3. ModuleTypes'
  BY <1>2 DEF IInv, ModuleTypes
<1>4. ASSUME NEW k \in Loops \ {l}
      PROVE  Holds(L[k], C, k)
  <2>1. L[k] = loop[k] /\ Holds(loop[k], Calls(stack), k) /\ SameCalls(C, k)
    BY <1>1 DEF IInv
  <2> QED
    BY <2>1 DEF Holds, Single, SameCalls
<1>5. ASSUME NEW k \in Loops
      PROVE  Sole(L, ext'.uv_default, k)
  <2>1. Others(L, k) => Others(loop, k)
    BY <1>1 DEF Others
  <2>2. Sole(loop, ext'.uv_default, k)
    BY <1>2 DEF IInv
  <2> QED
    BY <1>1, <2>1, <2>2 DEF Sole
<1>6. Module(L, C, ext', locks', phase')
  <2>1. Module(loop, Calls(stack), ext', locks', phase')
    BY <1>2 DEF IInv
  <2>2. ASSUME NEW k \in Loops
        PROVE  (phase' = "done" /\ Gone(loop[k]) => Gone(L[k])) /\ (Ending(loop[k]) => Ending(L[k]))
    BY <1>1, <1>2
  <2>3. ToShutDown \in C => ToShutDown \in Calls(stack) \/ \E k \in Loops : Ending(L[k])
    BY <1>1
  <2> QED
    BY <2>1, <2>2, <2>3 DEF Module
<1> QED
  BY <1>1, <1>3, <1>4, <1>5, <1>6 DEF Prepared, L

\* The calls after the next one, and more calls for the same loop, are none of
\* the business of the other loops and the module.
LEMMA OthersPopped ==
  ASSUME IInv, NEW l, NEW n \in {"run", "drain", "init", "destruct", "free"}, NextCall(n, l),
         NEW C, Calls(Tail(stack)) \subseteq C,
         \A c \in C : \/ c \in Calls(Tail(stack))
                     \/ \E m \in {"run", "drain", "init", "destruct", "free"} : c = Call(m, l)
  PROVE  /\ \A k \in Loops \ {l} : SameCalls(C, k)
         /\ ToClear \in C <=> ToClear \in Calls(stack)
         /\ ToShutDown \in C <=> ToShutDown \in Calls(stack)
<1>1. Calls(stack) = {Call(n, l)} \cup Calls(Tail(stack))
  BY Pop DEF IInv
<1>2. ASSUME NEW c, \A m \in {"run", "drain", "init", "destruct", "free"} : c # Call(m, l)
      PROVE  c \in C <=> c \in Calls(stack)
  BY <1>1, <1>2
<1> QED
  BY <1>2, SameCall DEF SameCalls, ToClear, ToShutDown

LEMMA OthersPushed ==
  ASSUME NEW l, NEW n \in {"run", "drain", "init", "destruct", "free"},
         NEW C, C = Calls(stack) \/ C = {Call(n, l)} \cup Calls(stack)
  PROVE  /\ \A k \in Loops \ {l} : SameCalls(C, k)
         /\ ToClear \in C <=> ToClear \in Calls(stack)
         /\ ToShutDown \in C <=> ToShutDown \in Calls(stack)
  BY SameCall DEF SameCalls, ToClear, ToShutDown

\* If the object stays what it is, neither is the end of the loop.
LEMMA OneKept ==
  ASSUME IInv, ModuleUnchanged, NEW l \in Loops, NEW r \in LoopType, NEW C,
         \A k \in Loops \ {l} : SameCalls(C, k),
         ToClear \in C <=> ToClear \in Calls(stack),
         ToShutDown \in C <=> ToShutDown \in Calls(stack),
         r.object = loop[l].object,
         r.native # "deleted" => loop[l].native # "deleted" \/ r.object # "live",
         Holds(r, C, l)
  PROVE  Prepared([loop EXCEPT ![l] = r], C)
<1>1. (Ending(loop[l]) => Ending(r)) /\ (Gone(loop[l]) => Gone(r))
  BY DEF Ending, Gone
<1> QED
  BY <1>1, OneChanged

\* A step that settles the loops after it changed one, or none.
LEMMA SettlesOne ==
  ASSUME IInv, NEW l \in Loops, NEW r \in LoopType, NEW rest \in Seq(CallType), Once(rest),
         Settle([loop EXCEPT ![l] = r], rest), Prepared([loop EXCEPT ![l] = r], Calls(rest)),
         r.object = loop[l].object \/ r.object = "live"
  PROVE  Settles
<1> DEFINE L == [loop EXCEPT ![l] = r]
<1>1. L \in [Loops -> LoopType]
  BY DEF IInv
<1>2. \A k \in Loops : loop[k].object = "live" => L[k].object = "live"
  BY DEF IInv
<1> HIDE DEF L
<1>3. Settle(L, rest) /\ Prepared(L, Calls(rest))
  BY DEF L
<1> QED
  BY <1>1, <1>2, <1>3 DEF Settles

LEMMA SettlesNone ==
  ASSUME IInv, NEW rest \in Seq(CallType), Once(rest), Settle(loop, rest),
         Prepared(loop, Calls(rest))
  PROVE  Settles
  BY DEF IInv, Settles

\* A step of the program that settles one loop.
LEMMA OneSettled ==
  ASSUME IInv, ModuleUnchanged, NEW l \in Loops, NEW r \in LoopType,
         Settle([loop EXCEPT ![l] = r], stack),
         r.object = loop[l].object,
         r.native # "deleted" => loop[l].native # "deleted" \/ r.object # "live",
         Holds(r, Calls(stack), l)
  PROVE  Settles
<1>1. Prepared([loop EXCEPT ![l] = r], Calls(stack))
  BY OneKept, OthersPushed
<1> QED
  BY <1>1, SettlesOne DEF IInv

------------------------------------------------------------------------------
(* Each step keeps it *)

\* stop() takes a reference away and counts as a call.
LEMMA StopSettles == ASSUME IInv, NEW l \in Loops, Stop(l) PROVE Settles
<1>1. loop[l] \in LoopType /\ Holds(loop[l], Calls(stack), l)
  BY DEF IInv
<1>2. PICK n \in Nat : n = loop[l].calls + 1
  BY <1>1 DEF LoopType
<1>3. PICK d \in Nat : d = loop[l].dels + One(~loop[l].close_called)
  BY <1>1 DEF LoopType, One
<1> DEFINE r == [loop[l] EXCEPT !.calls = n, !.stopping = TRUE, !.stop_called = TRUE, !.dels = d]
<1>4. ModuleUnchanged /\ Settle([loop EXCEPT ![l] = r], stack)
  BY <1>2, <1>3 DEF Stop
<1>5. r \in LoopType /\ r.object = loop[l].object /\ r.native = loop[l].native
      /\ r.mode = loop[l].mode /\ r.calls = n /\ r.dels = d
      /\ loop[l].object # "none"
  BY <1>1 DEF LoopType, Stop, HasPointer
<1> HIDE DEF r
<1>6. Holds(r, Calls(stack), l)
  BY <1>1, <1>2, <1>3, <1>5 DEF Holds, Ending, LoopType, One
<1> QED
  BY <1>4, <1>5, <1>6, OneSettled

\* close() takes a reference away, unless the loop was run or stopped, and counts
\* as a call.
LEMMA CloseSettles == ASSUME IInv, NEW l \in Loops, Close(l) PROVE Settles
<1>1. loop[l] \in LoopType /\ Holds(loop[l], Calls(stack), l)
  BY DEF IInv
<1>2. PICK n \in Nat : n = loop[l].calls + 1
  BY <1>1 DEF LoopType
<1>3. PICK d \in Nat : d = loop[l].dels + One(~loop[l].run_called /\ ~loop[l].stop_called)
  BY <1>1 DEF LoopType, One
<1>4. PICK v \in {"closed", "open"} : v = IF Handles(l) = 0 THEN "closed" ELSE "open"
  OBVIOUS
<1> DEFINE r == [loop[l] EXCEPT !.calls = n, !.close_called = TRUE, !.native = v, !.dels = d]
<1>5. ModuleUnchanged /\ Settle([loop EXCEPT ![l] = r], stack)
  BY <1>2, <1>3, <1>4 DEF Close
<1>6. r \in LoopType /\ r.object = loop[l].object /\ r.native = v /\ loop[l].native = "open"
      /\ r.mode = loop[l].mode /\ r.calls = n /\ r.dels = d
      /\ loop[l].object # "none"
  BY <1>1 DEF LoopType, Close, HasPointer, Open
<1> HIDE DEF r
<1>7. Holds(r, Calls(stack), l)
  BY <1>1, <1>2, <1>3, <1>6 DEF Holds, Ending, LoopType, One
<1> QED
  BY <1>5, <1>6, <1>7, OneSettled

\* Without its variable a loop may lose its last reference.
LEMMA ForgetSettles == ASSUME IInv, NEW l \in Loops, Forget(l) PROVE Settles
<1>1. loop[l] \in LoopType /\ Holds(loop[l], Calls(stack), l)
  BY DEF IInv
<1> DEFINE r == [loop[l] EXCEPT !.held = FALSE]
<1>2. ModuleUnchanged /\ Settle([loop EXCEPT ![l] = r], stack)
  BY DEF Forget
<1>3. r \in LoopType /\ r.object = loop[l].object /\ r.native = loop[l].native
      /\ r.mode = loop[l].mode /\ r.calls = loop[l].calls /\ r.dels = loop[l].dels
  BY <1>1 DEF LoopType
<1> HIDE DEF r
<1>4. Holds(r, Calls(stack), l)
  BY <1>1, <1>3 DEF Holds, Ending
<1> QED
  BY <1>2, <1>3, <1>4, OneSettled

\* A run to the end takes a reference away; the call was counted when it began.
LEMMA RunReturnSettles == ASSUME IInv, NEW l \in Loops, RunReturn(l) PROVE Settles
<1> DEFINE C == Calls(Tail(stack))
<1>1. loop[l] \in LoopType /\ Holds(loop[l], Calls(stack), l)
  BY DEF IInv
<1>2. PICK d \in Nat : d = loop[l].dels + One(loop[l].mode = "default")
  BY <1>1 DEF LoopType, One
<1> DEFINE r == [loop[l] EXCEPT !.stopping = FALSE, !.run_called = TRUE, !.mode = "default",
                                !.dels = d]
<1>3. NextCall("run", l) /\ ModuleUnchanged /\ Settle([loop EXCEPT ![l] = r], Tail(stack))
  BY <1>2 DEF RunReturn, RunEnd
<1>4. /\ Tail(stack) \in Seq(CallType) /\ Once(Tail(stack))
      /\ Calls(stack) = {Call("run", l)} \cup C /\ Call("run", l) \notin C
  BY <1>3, Pop DEF IInv, Single
<1>5. r \in LoopType /\ r.object = loop[l].object /\ r.native = loop[l].native
      /\ r.calls = loop[l].calls /\ r.dels = d
  BY <1>1 DEF LoopType
<1> HIDE DEF r, C
<1>6. Holds(r, C, l)
  BY <1>1, <1>2, <1>4, <1>5, SameCall DEF Single, Holds, Ending, LoopType, One
<1>7. Prepared([loop EXCEPT ![l] = r], C)
  BY <1>3, <1>5, <1>6, OneKept, OthersPopped DEF C
<1> QED
  BY <1>3, <1>4, <1>5, <1>7, SettlesOne DEF C

\* init() leaves a loop to its variable, or to ext_uv.
LEMMA InitReturnSettles ==
  ASSUME IInv, NEW l \in Loops, NEW success \in BOOLEAN, InitReturn(l, success)
  PROVE  Settles
<1> DEFINE C == Calls(Tail(stack))
<1>1. loop[l] \in LoopType /\ Holds(loop[l], Calls(stack), l)
  BY DEF IInv
<1>2. PICK v \in {"none", "open", "closed", "deleted"} :
        v = IF success THEN "open" ELSE loop[l].native
  BY <1>1 DEF LoopType
<1> DEFINE r == [loop[l] EXCEPT !.held = success, !.native = v]
<1>3. NextCall("init", l) /\ ModuleUnchanged /\ Settle([loop EXCEPT ![l] = r], Tail(stack))
  BY <1>2 DEF InitReturn
<1>4. /\ Tail(stack) \in Seq(CallType) /\ Once(Tail(stack))
      /\ Calls(stack) = {Call("init", l)} \cup C /\ Call("init", l) \notin C
  BY <1>3, Pop DEF IInv, Single
<1>5. r \in LoopType /\ r.object = loop[l].object /\ r.native = v /\ r.mode = loop[l].mode
      /\ r.calls = loop[l].calls /\ r.dels = loop[l].dels
  BY <1>1 DEF LoopType
<1> HIDE DEF r, C
<1>6. Holds(r, C, l)
  BY <1>1, <1>2, <1>4, <1>5, SameCall DEF Single, Holds, Ending, LoopType, One
<1>7. loop[l].object = "live" => loop[l].native = "none"
  BY <1>1, <1>4 DEF Holds
<1>8. Prepared([loop EXCEPT ![l] = r], C)
  BY <1>3, <1>5, <1>6, <1>7, OneKept, OthersPopped DEF C
<1> QED
  BY <1>3, <1>4, <1>5, <1>8, SettlesOne DEF C

\* The stack grows by run(), the rest of it is what it was.
LEMMA RunBeginKeeps ==
  ASSUME IInv, NEW l \in Loops, NEW mode \in {"default", "nowait"}, RunBegin(l, mode)
  PROVE  IInv'
<1> DEFINE C == {Call("run", l)} \cup Calls(stack)
<1>1. loop[l] \in LoopType /\ Holds(loop[l], Calls(stack), l) /\ stack \in Seq(CallType)
      /\ Once(stack)
  BY DEF IInv
<1>2. PICK n \in Nat : n = loop[l].calls + One(mode = "default")
  BY <1>1 DEF LoopType, One
<1> DEFINE r == [loop[l] EXCEPT !.mode = mode, !.calls = n]
<1>3. /\ stack' = <<Call("run", l)>> \o stack /\ loop' = [loop EXCEPT ![l] = r]
      /\ ModuleUnchanged /\ Call("run", l) \notin Calls(stack)
      /\ loop[l].object # "none" /\ loop[l].native = "open"
  BY <1>1, <1>2 DEF RunBegin, Runs, HasPointer, Open, IInv
<1>4. stack' \in Seq(CallType) /\ Once(stack') /\ Calls(stack') = C
  BY <1>1, <1>3, CallTypes, Push
<1>5. r \in LoopType /\ r.object = loop[l].object /\ r.native = loop[l].native
      /\ r.mode = mode /\ r.calls = n /\ r.dels = loop[l].dels
  BY <1>1 DEF LoopType
<1>C. C = {Call("run", l)} \cup Calls(stack)
  OBVIOUS
<1> HIDE DEF r, C
<1>6. Holds(r, C, l)
  <2>1. \A m \in {"init", "drain", "destruct", "free"} :
          Call(m, l) \in C <=> Call(m, l) \in Calls(stack)
    <3>1. \A m \in {"init", "drain", "destruct", "free"} : Call(m, l) # Call("run", l)
      BY SameCall
    <3> QED
      BY <1>C, <3>1
  <2>2. loop[l].dels \in Nat /\ loop[l].calls \in Nat
    BY <1>1 DEF LoopType
  <2>3. loop[l].object = "live" => loop[l].dels =< loop[l].calls
    BY <1>1, <1>3, <2>2 DEF Holds, One
  <2>4. loop[l].object = "live" => r.dels + One(r.mode = "default") =< r.calls
    BY <1>2, <1>5, <2>2, <2>3 DEF One
  <2>5. Call("run", l) \in C
    BY <1>C
  <2> QED
    BY <1>1, <1>3, <1>5, <2>1, <2>4, <2>5 DEF Holds, Ending, One
<1>7. Prepared([loop EXCEPT ![l] = r], C)
  <2>1. /\ \A k \in Loops \ {l} : SameCalls(C, k)
        /\ ToClear \in C <=> ToClear \in Calls(stack)
        /\ ToShutDown \in C <=> ToShutDown \in Calls(stack)
    BY <1>C, OthersPushed
  <2> QED
    BY <1>3, <1>5, <1>6, <2>1, OneKept
<1>8. Prepared(loop', Calls(stack'))
  BY <1>3, <1>4, <1>7
<1> QED
  BY <1>4, <1>8, AfterPlain

\* Two records that are the same loop to the invariant.
SameLoop(r, t) ==
  /\ r.object = t.object /\ r.dels = t.dels /\ r.calls = t.calls
  /\ r.mode = t.mode /\ r.native = t.native

\* A step that only touches what the invariant does not speak of.
LEMMA LoopAlike ==
  ASSUME IInv, ModuleUnchanged, stack' = stack, NEW l \in Loops, NEW r \in LoopType,
         loop' = [loop EXCEPT ![l] = r], SameLoop(r, loop[l])
  PROVE  IInv'
<1>1. Holds(r, Calls(stack), l)
  BY DEF IInv, Holds, SameLoop, Ending
<1>2. Prepared([loop EXCEPT ![l] = r], Calls(stack))
  BY <1>1, OneKept, OthersPushed DEF SameLoop
<1> QED
  BY <1>2, AfterPlain DEF IInv

\* The program moves handles.
LEMMA MoveHandleKeeps == ASSUME IInv, NEW l \in Loops, MoveHandle(l) PROVE IInv'
<1>1. /\ loop \in [Loops -> LoopType] /\ loop[l] \in LoopType
      /\ loop[l].active \in Nat /\ loop[l].inactive \in Nat /\ loop[l].closing \in Nat
  BY DEF IInv, LoopType
<1>2. ModuleUnchanged /\ stack' = stack
  BY DEF MoveHandle
<1>3. CASE loop' = [loop EXCEPT ![l].inactive = @ + 1]
  <2>1. PICK i \in Nat : i = loop[l].inactive + 1
    BY <1>1, <1>3
  <2> DEFINE r == [loop[l] EXCEPT !.inactive = i]
  <2>2. loop' = [loop EXCEPT ![l] = r]
    BY <1>3, <2>1
  <2>3. r \in LoopType /\ SameLoop(r, loop[l])
    BY <1>1 DEF LoopType, SameLoop
  <2> QED
    BY <1>2, <2>2, <2>3, LoopAlike
<1>4. CASE loop[l].inactive > 0 /\ loop' = [loop EXCEPT ![l].inactive = @ - 1, ![l].active = @ + 1]
  <2>1. PICK i \in Nat : i = loop[l].inactive - 1
    BY <1>1, <1>4
  <2>2. PICK a \in Nat : a = loop[l].active + 1
    BY <1>1, <1>4
  <2> DEFINE r == [loop[l] EXCEPT !.inactive = i, !.active = a]
  <2>3. loop' = [loop EXCEPT ![l] = r]
    BY <1>4, <2>1, <2>2
  <2>4. r \in LoopType /\ SameLoop(r, loop[l])
    BY <1>1 DEF LoopType, SameLoop
  <2> QED
    BY <1>2, <2>3, <2>4, LoopAlike
<1>5. CASE loop[l].active > 0 /\ loop' = [loop EXCEPT ![l].active = @ - 1, ![l].inactive = @ + 1]
  <2>1. PICK a \in Nat : a = loop[l].active - 1
    BY <1>1, <1>5
  <2>2. PICK i \in Nat : i = loop[l].inactive + 1
    BY <1>1, <1>5
  <2> DEFINE r == [loop[l] EXCEPT !.active = a, !.inactive = i]
  <2>3. loop' = [loop EXCEPT ![l] = r]
    BY <1>5, <2>1, <2>2
  <2>4. r \in LoopType /\ SameLoop(r, loop[l])
    BY <1>1 DEF LoopType, SameLoop
  <2> QED
    BY <1>2, <2>3, <2>4, LoopAlike
<1>6. CASE loop[l].active > 0 /\ loop' = [loop EXCEPT ![l].active = @ - 1, ![l].closing = @ + 1]
  <2>1. PICK a \in Nat : a = loop[l].active - 1
    BY <1>1, <1>6
  <2>2. PICK c \in Nat : c = loop[l].closing + 1
    BY <1>1, <1>6
  <2> DEFINE r == [loop[l] EXCEPT !.active = a, !.closing = c]
  <2>3. loop' = [loop EXCEPT ![l] = r]
    BY <1>6, <2>1, <2>2
  <2>4. r \in LoopType /\ SameLoop(r, loop[l])
    BY <1>1 DEF LoopType, SameLoop
  <2> QED
    BY <1>2, <2>3, <2>4, LoopAlike
<1>7. CASE loop[l].inactive > 0 /\ loop' = [loop EXCEPT ![l].inactive = @ - 1, ![l].closing = @ + 1]
  <2>1. PICK i \in Nat : i = loop[l].inactive - 1
    BY <1>1, <1>7
  <2>2. PICK c \in Nat : c = loop[l].closing + 1
    BY <1>1, <1>7
  <2> DEFINE r == [loop[l] EXCEPT !.inactive = i, !.closing = c]
  <2>3. loop' = [loop EXCEPT ![l] = r]
    BY <1>7, <2>1, <2>2
  <2>4. r \in LoopType /\ SameLoop(r, loop[l])
    BY <1>1 DEF LoopType, SameLoop
  <2> QED
    BY <1>2, <2>3, <2>4, LoopAlike
<1> QED
  BY <1>3, <1>4, <1>5, <1>6, <1>7 DEF MoveHandle

\* So does libuv.
LEMMA LoopStepKeeps == ASSUME IInv, NEW l \in Loops, LoopStep(l) PROVE IInv'
<1>1. /\ loop \in [Loops -> LoopType] /\ loop[l] \in LoopType
      /\ loop[l].active \in Nat /\ loop[l].inactive \in Nat /\ loop[l].closing \in Nat
  BY DEF IInv, LoopType
<1>2. ModuleUnchanged /\ stack' = stack
  BY DEF LoopStep
<1>3. CASE loop[l].active > 0 /\ loop' = [loop EXCEPT ![l].active = @ - 1, ![l].inactive = @ + 1]
  <2>1. PICK a \in Nat : a = loop[l].active - 1
    BY <1>1, <1>3
  <2>2. PICK i \in Nat : i = loop[l].inactive + 1
    BY <1>1, <1>3
  <2> DEFINE r == [loop[l] EXCEPT !.active = a, !.inactive = i]
  <2>3. loop' = [loop EXCEPT ![l] = r]
    BY <1>3, <2>1, <2>2
  <2>4. r \in LoopType /\ SameLoop(r, loop[l])
    BY <1>1 DEF LoopType, SameLoop
  <2> QED
    BY <1>2, <2>3, <2>4, LoopAlike
<1>4. CASE loop[l].closing > 0 /\ loop' = [loop EXCEPT ![l].closing = @ - 1]
  <2>1. PICK c \in Nat : c = loop[l].closing - 1
    BY <1>1, <1>4
  <2> DEFINE r == [loop[l] EXCEPT !.closing = c]
  <2>2. loop' = [loop EXCEPT ![l] = r]
    BY <1>4, <2>1
  <2>3. r \in LoopType /\ SameLoop(r, loop[l])
    BY <1>1 DEF LoopType, SameLoop
  <2> QED
    BY <1>2, <2>2, <2>3, LoopAlike
<1> QED
  BY <1>3, <1>4 DEF LoopStep

\* The destructor of a loop goes on: the loop is being destroyed before and after.
LEMMA EndingGoesOn ==
  ASSUME IInv, ModuleUnchanged, NEW l \in Loops, NEW r \in LoopType, NEW C,
         \A k \in Loops \ {l} : SameCalls(C, k),
         ToClear \in C <=> ToClear \in Calls(stack),
         ToShutDown \in Calls(stack) => ToShutDown \in C,
         Ending(loop[l]), Ending(r),
         loop[l].object = "destroyed" => r.object = "destroyed",
         r.object = "dying" => Call("destruct", l) \in C \/ Call("free", l) \in C
  PROVE  Prepared([loop EXCEPT ![l] = r], C)
<1>1. Holds(r, C, l)
  BY DEF Holds, Ending
<1> QED
  BY <1>1, OneChanged DEF Ending, Gone

\* Two calls are put on the stack like one after the other.
LEMMA TwoPushed ==
  ASSUME NEW a \in CallType, NEW b \in CallType, NEW t \in Seq(CallType)
  PROVE  <<a, b>> \o t = <<a>> \o (<<b>> \o t)
<1> DEFINE s == <<a>>
           u == <<b>>
<1>1. s \in Seq(CallType) /\ Len(s) = 1 /\ s[1] = a
  OBVIOUS
<1>2. u \in Seq(CallType) /\ Len(u) = 1 /\ u[1] = b
  OBVIOUS
<1>3. <<a, b>> \in Seq(CallType) /\ Len(<<a, b>>) = 2 /\ <<a, b>>[1] = a /\ <<a, b>>[2] = b
  OBVIOUS
<1> HIDE DEF s, u
<1>4. /\ s \o u \in Seq(CallType) /\ Len(s \o u) = 2
      /\ (s \o u)[1] = a /\ (s \o u)[2] = b
  <2>1. /\ s \o u \in Seq(CallType) /\ Len(s \o u) = Len(s) + Len(u)
        /\ \A i \in 1 .. Len(s) + Len(u) :
             (s \o u)[i] = IF i =< Len(s) THEN s[i] ELSE u[i - Len(s)]
    BY <1>1, <1>2, ConcatProperties
  <2>2. 1 \in 1 .. 2 /\ 2 \in 1 .. 2 /\ 2 - 1 = 1
    OBVIOUS
  <2> QED
    BY <1>1, <1>2, <2>1, <2>2
<1>5. s \o u = <<a, b>>
  <2>1. \A i \in 1 .. 2 : (s \o u)[i] = <<a, b>>[i]
    BY <1>3, <1>4
  <2> QED
    BY <1>3, <1>4, <2>1, SeqEqual
<1>6. (s \o u) \o t = s \o (u \o t)
  BY <1>1, <1>2, ConcatAssociative
<1> QED
  BY <1>5, <1>6 DEF s, u

\* The end of an object leaves its destruction to be remembered.
LEMMA EndedType ==
  ASSUME NEW r \in LoopType
  PROVE  Ended(r) \in LoopType /\ Ended(r).object = "destroyed"
         /\ Ended(r).native = r.native /\ Ended(r).stopping = r.stopping
         /\ Ended(r).active = r.active /\ Ended(r).inactive = r.inactive
         /\ Ended(r).closing = r.closing
<1> DEFINE f == r.freed \/ (IsWindows /\ ~r.is_default)
           u == [r EXCEPT !.object = "destroyed", !.freed = f, !.dels = 0, !.calls = 0,
                          !.close_called = FALSE, !.stop_called = FALSE]
<1>1. f \in BOOLEAN
  OBVIOUS
<1>2. Ended(r) = u
  BY DEF Ended
<1> HIDE DEF f
<1>3. u \in LoopType
  BY <1>1 DEF LoopType
<1>4. /\ u.object = "destroyed" /\ u.native = r.native /\ u.stopping = r.stopping
      /\ u.active = r.active /\ u.inactive = r.inactive /\ u.closing = r.closing
  BY DEF LoopType
<1> QED
  BY <1>2, <1>3, <1>4

\* A drained loop is as much alive as before.
LEMMA DrainedType ==
  ASSUME NEW r \in LoopType
  PROVE  Drained(r) \in LoopType /\ Drained(r).object = r.object
<1> DEFINE s == r.stopping /\ r.stop_called
           n == r.closing + r.active
           u == [r EXCEPT !.stopping = s, !.active = 0, !.closing = n]
<1>1. s \in BOOLEAN
  OBVIOUS
<1>2. n \in Nat
  BY DEF LoopType
<1>3. Drained(r) = u
  BY DEF Drained
<1> HIDE DEF s, n
<1>4. u \in LoopType /\ u.object = r.object
  BY <1>1, <1>2 DEF LoopType
<1> QED
  BY <1>3, <1>4

\* The destructor leaves the rest of itself on the stack, or is over.
LEMMA DestructKeeps == ASSUME IInv, NEW l \in Loops, Destruct(l) PROVE IInv'
<1> DEFINE t == Tail(stack)
<1>1. loop[l] \in LoopType /\ Holds(loop[l], Calls(stack), l) /\ loop \in [Loops -> LoopType]
  BY DEF IInv
<1>2. NextCall("destruct", l) /\ ModuleUnchanged
  BY DEF Destruct, DestructWith
<1>3. t \in Seq(CallType) /\ Once(t) /\ Calls(stack) = {Call("destruct", l)} \cup Calls(t)
  BY <1>2, Pop DEF IInv
<1>4. Ending(loop[l])
  BY <1>1, <1>3 DEF Holds
<1>5. Call("drain", l) \in CallType /\ Call("free", l) \in CallType
      /\ Call("drain", l).call = "drain" /\ Call("free", l).call = "free"
  BY CallTypes DEF Call
<1> HIDE DEF t
<1>6. /\ <<Call("free", l)>> \o t \in Seq(CallType) /\ Once(<<Call("free", l)>> \o t)
      /\ Calls(<<Call("free", l)>> \o t) = {Call("free", l)} \cup Calls(t)
  BY <1>3, <1>5, Push DEF Single
<1>7. CASE /\ loop' = [loop EXCEPT ![l] = Drained(@)]
           /\ stack' = <<Call("drain", l), Call("free", l)>> \o t
  <2>1. stack' = <<Call("drain", l)>> \o (<<Call("free", l)>> \o t)
    BY <1>3, <1>5, <1>7, TwoPushed
  <2>2. /\ stack' \in Seq(CallType) /\ Once(stack')
        /\ Calls(stack') = {Call("drain", l), Call("free", l)} \cup Calls(t)
    <3> DEFINE w == <<Call("free", l)>> \o t
    <3>1. w \in Seq(CallType) /\ Once(w) /\ Calls(w) = {Call("free", l)} \cup Calls(t)
      BY <1>6
    <3>2. Call("drain", l).call \notin Single
      BY <1>5 DEF Single
    <3> HIDE DEF w
    <3>3. /\ <<Call("drain", l)>> \o w \in Seq(CallType) /\ Once(<<Call("drain", l)>> \o w)
          /\ Calls(<<Call("drain", l)>> \o w) = {Call("drain", l)} \cup Calls(w)
      BY <1>5, <3>1, <3>2, Push
    <3> QED
      BY <2>1, <3>1, <3>3 DEF w
  <2>3. /\ \A k \in Loops \ {l} : SameCalls(Calls(stack'), k)
        /\ ToClear \in Calls(stack') <=> ToClear \in Calls(stack)
        /\ ToShutDown \in Calls(stack') <=> ToShutDown \in Calls(stack)
    BY <1>2, <2>2, OthersPopped DEF t
  <2>4. Drained(loop[l]) \in LoopType /\ Drained(loop[l]).object = loop[l].object
    BY <1>1, DrainedType
  <2>5. Ending(Drained(loop[l]))
    BY <1>4, <2>4 DEF Ending
  <2>6. Call("free", l) \in Calls(stack')
    BY <2>2
  <2>7. Prepared([loop EXCEPT ![l] = Drained(loop[l])], Calls(stack'))
    BY <1>2, <1>4, <2>3, <2>4, <2>5, <2>6, EndingGoesOn
  <2>8. Prepared(loop', Calls(stack'))
    BY <1>7, <2>7
  <2> QED
    BY <2>2, <2>8, AfterPlain
<1>8. CASE loop' = loop /\ stack' = <<Call("free", l)>> \o t
  <2>1. /\ \A k \in Loops \ {l} : SameCalls(Calls(stack'), k)
        /\ ToClear \in Calls(stack') <=> ToClear \in Calls(stack)
        /\ ToShutDown \in Calls(stack') <=> ToShutDown \in Calls(stack)
    BY <1>2, <1>6, <1>8, OthersPopped DEF t
  <2>2. Call("free", l) \in Calls(stack')
    BY <1>6, <1>8
  <2>3. Prepared([loop EXCEPT ![l] = loop[l]], Calls(stack'))
    BY <1>1, <1>2, <1>4, <2>1, <2>2, EndingGoesOn
  <2>4. [loop EXCEPT ![l] = loop[l]] = loop'
    BY <1>1, <1>8
  <2> QED
    BY <1>6, <1>8, <2>3, <2>4, AfterPlain
<1>9. CASE loop' = [loop EXCEPT ![l] = Ended(@)] /\ stack' = t
  <2>1. /\ \A k \in Loops \ {l} : SameCalls(Calls(stack'), k)
        /\ ToClear \in Calls(stack') <=> ToClear \in Calls(stack)
        /\ ToShutDown \in Calls(stack') <=> ToShutDown \in Calls(stack)
    BY <1>2, <1>9, OthersPopped DEF t
  <2>2. Ended(loop[l]) \in LoopType /\ Ended(loop[l]).object = "destroyed"
    BY <1>1, EndedType
  <2>3. Ending(Ended(loop[l]))
    BY <2>2 DEF Ending
  <2>4. Prepared([loop EXCEPT ![l] = Ended(loop[l])], Calls(stack'))
    BY <1>2, <1>4, <2>1, <2>2, <2>3, EndingGoesOn
  <2>5. Prepared(loop', Calls(stack'))
    BY <1>9, <2>4
  <2> QED
    BY <1>3, <1>9, <2>5, AfterPlain
<1> QED
  BY <1>7, <1>8, <1>9 DEF Destruct, DestructWith, t

\* The uv_run() of the destructor is over, the rest of the destructor is not.
LEMMA DrainReturnKeeps == ASSUME IInv, NEW l \in Loops, DrainReturn(l) PROVE IInv'
<1>1. loop[l] \in LoopType /\ Holds(loop[l], Calls(stack), l) /\ loop \in [Loops -> LoopType]
  BY DEF IInv
<1>2. PICK v \in {"none", "open", "closed", "deleted"} :
        v = IF ext.ffi /\ Handles(l) = 0 THEN "closed" ELSE loop[l].native
  BY <1>1 DEF LoopType
<1> DEFINE r == [loop[l] EXCEPT !.stopping = FALSE, !.native = v]
<1>3. /\ NextCall("drain", l) /\ ModuleUnchanged /\ stack' = Tail(stack)
      /\ loop' = [loop EXCEPT ![l] = r]
  BY <1>2 DEF DrainReturn
<1>4. /\ stack' \in Seq(CallType) /\ Once(stack')
      /\ Calls(stack) = {Call("drain", l)} \cup Calls(stack')
  BY <1>3, Pop DEF IInv
<1>5. Ending(loop[l])
  BY <1>1, <1>4 DEF Holds
<1>6. r \in LoopType /\ r.object = loop[l].object
  BY <1>1 DEF LoopType
<1> HIDE DEF r
<1>7. /\ \A k \in Loops \ {l} : SameCalls(Calls(stack'), k)
      /\ ToClear \in Calls(stack') <=> ToClear \in Calls(stack)
      /\ ToShutDown \in Calls(stack') <=> ToShutDown \in Calls(stack)
  BY <1>3, OthersPopped
<1>8. loop[l].object = "dying" => Call("destruct", l) \in Calls(stack') \/ Call("free", l) \in Calls(stack')
  BY <1>1, <1>4, SameCall DEF Holds
<1>9. Ending(r)
  BY <1>5, <1>6 DEF Ending
<1>10. Prepared([loop EXCEPT ![l] = r], Calls(stack'))
  BY <1>3, <1>5, <1>6, <1>7, <1>8, <1>9, EndingGoesOn
<1>11. Prepared(loop', Calls(stack'))
  BY <1>3, <1>10
<1> QED
  BY <1>4, <1>11, AfterPlain

\* The destructor is over; it may have asked for request_shutdown().
LEMMA FreeKeeps == ASSUME IInv, NEW l \in Loops, Free(l) PROVE IInv'
<1> DEFINE t == Tail(stack)
<1>1. loop[l] \in LoopType /\ Holds(loop[l], Calls(stack), l) /\ loop \in [Loops -> LoopType]
  BY DEF IInv
<1>2. NextCall("free", l) /\ ModuleUnchanged
  BY DEF Free
<1>3. PICK r \in LoopType : r.object = "destroyed" /\ loop' = [loop EXCEPT ![l] = r]
  <2> DEFINE f == \/ loop[l].freed
                   \/ /\ ext.ffi /\ ~loop[l].is_default
                      /\ ~(loop[l].run_called /\ loop[l].close_called)
             s == [loop[l] EXCEPT !.freed = f]
  <2>1. f \in BOOLEAN
    OBVIOUS
  <2>2. loop' = [loop EXCEPT ![l] = Ended(s)]
    BY <1>1 DEF Free
  <2> HIDE DEF f
  <2>3. s \in LoopType
    BY <1>1, <2>1 DEF LoopType
  <2> QED
    BY <2>2, <2>3, EndedType
<1>4. t \in Seq(CallType) /\ Once(t) /\ Calls(stack) = {Call("free", l)} \cup Calls(t)
  BY <1>2, Pop DEF IInv
<1>5. Ending(loop[l])
  BY <1>1, <1>4 DEF Holds
<1>6. Ending(r)
  BY <1>3 DEF Ending
<1>7. /\ \A k \in Loops \ {l} : SameCalls(Calls(t), k)
      /\ ToClear \in Calls(t) <=> ToClear \in Calls(stack)
      /\ ToShutDown \in Calls(t) <=> ToShutDown \in Calls(stack)
  BY <1>2, OthersPopped
<1> HIDE DEF t
<1>8. CASE stack' = <<ToShutDown>> \o t
  <2>1. ToShutDown \in CallType /\ ToShutDown.call \notin Single
    BY CallTypes DEF ToShutDown, Call, Single
  <2>2. /\ stack' \in Seq(CallType) /\ Once(stack')
        /\ Calls(stack') = {ToShutDown} \cup Calls(t)
    BY <1>4, <1>8, <2>1, Push
  <2>3. /\ \A k \in Loops \ {l} : SameCalls(Calls(stack'), k)
        /\ ToClear \in Calls(stack') <=> ToClear \in Calls(stack)
    <3>1. \A k \in Loops : \A n \in {"run", "drain", "init", "destruct", "free"} :
            Call(n, k) # ToShutDown
      BY SameCall DEF ToShutDown
    <3>2. ToClear # ToShutDown
      BY SameCall DEF ToClear, ToShutDown
    <3> QED
      BY <1>7, <2>2, <3>1, <3>2 DEF SameCalls
  <2>4. Prepared([loop EXCEPT ![l] = r], Calls(stack'))
    BY <1>2, <1>3, <1>5, <1>6, <2>2, <2>3, EndingGoesOn
  <2>5. Prepared(loop', Calls(stack'))
    BY <1>3, <2>4
  <2> QED
    BY <2>2, <2>5, AfterPlain
<1>9. CASE stack' = <<>> \o t
  <2>1. stack' = t
    BY <1>4, <1>9, ConcatEmptySeq
  <2>2. Prepared([loop EXCEPT ![l] = r], Calls(stack'))
    BY <1>2, <1>3, <1>5, <1>6, <1>7, <2>1, EndingGoesOn
  <2>3. Prepared(loop', Calls(stack'))
    BY <1>3, <2>2
  <2> QED
    BY <1>4, <2>1, <2>3, AfterPlain
<1> QED
  BY <1>8, <1>9 DEF Free, ToShutDown, t

\* A loop that is left is destroyed whatever refers to it.
LEMMA DestroyLeftoverKeeps == ASSUME IInv, NEW l \in Loops, DestroyLeftover(l) PROVE IInv'
<1>1. /\ stack = <<>> /\ stack' = <<Call("destruct", l)>> /\ phase = "ending"
      /\ loop[l].object = "live"
      /\ ModuleUnchanged /\ loop' = [loop EXCEPT ![l].object = "dying"]
  BY DEF DestroyLeftover, GlobalsGone, Leftovers
<1>2. loop[l] \in LoopType
  BY DEF IInv
<1> DEFINE r == [loop[l] EXCEPT !.object = "dying"]
<1>3. r \in LoopType /\ r.object = "dying" /\ r.native = loop[l].native
  BY <1>2 DEF LoopType
<1>4. loop' = [loop EXCEPT ![l] = r]
  BY <1>1
<1> HIDE DEF r
<1>5. Calls(stack) = {} /\ Calls(stack') = {Call("destruct", l)} /\ stack' \in Seq(CallType)
  BY <1>1, NoCalls, OneCall, CallTypes
<1>C. Calls(stack') = {Call("destruct", l)} \cup Calls(stack)
  BY <1>5
<1>6. Once(stack')
  BY <1>1 DEF Once
<1>7. /\ \A k \in Loops \ {l} : SameCalls(Calls(stack'), k)
      /\ ToClear \in Calls(stack') <=> ToClear \in Calls(stack)
      /\ ToShutDown \in Calls(stack') <=> ToShutDown \in Calls(stack)
  BY <1>C, OthersPushed
<1>8. Holds(r, Calls(stack'), l)
  BY <1>3, <1>5 DEF Holds, Ending
<1>9. Prepared([loop EXCEPT ![l] = r], Calls(stack'))
  BY <1>1, <1>3, <1>7, <1>8, OneChanged DEF Ending, Gone
<1>10. Prepared(loop', Calls(stack'))
  BY <1>4, <1>9
<1> QED
  BY <1>5, <1>6, <1>10, AfterPlain

\* The loops and the calls are what they were to the invariant.
LEMMA LoopsUntouched ==
  ASSUME IInv, NEW C, \A k \in Loops : SameCalls(C, k), ext'.uv_default = ext.uv_default,
         ModuleTypes', Module(loop, C, ext', locks', phase')
  PROVE  Prepared(loop, C)
<1>1. ASSUME NEW k \in Loops
      PROVE  Holds(loop[k], C, k) /\ Sole(loop, ext'.uv_default, k)
  <2>1. Holds(loop[k], Calls(stack), k) /\ Sole(loop, ext.uv_default, k) /\ SameCalls(C, k)
    BY DEF IInv
  <2> QED
    BY <2>1 DEF Holds, Single, SameCalls
<1> QED
  BY <1>1 DEF IInv, Prepared

\* One loop is changed, to r, and d is to be the default.
LEMMA DefaultChanged ==
  ASSUME IInv, NEW l \in Loops, NEW r \in LoopType, NEW C, NEW d,
         \A k \in Loops \ {l} : SameCalls(C, k),
         r.object # "none", Ending(loop[l]) => Ending(r), Holds(r, C, l),
         r.object = "live" /\ r.native # "deleted" => d = l
  PROVE  LET L == [loop EXCEPT ![l] = r]
         IN  /\ L \in [Loops -> LoopType]
             /\ \A k \in Loops : Holds(L[k], C, k) /\ Sole(L, d, k)
             /\ \A k \in Loops : Ending(loop[k]) => Ending(L[k])
<1> DEFINE L == [loop EXCEPT ![l] = r]
<1>1. /\ L \in [Loops -> LoopType] /\ L[l] = r
      /\ \A k \in Loops \ {l} : L[k] = loop[k]
  BY DEF IInv
<1> HIDE DEF L
<1>2. ASSUME NEW k \in Loops \ {l}
      PROVE  Holds(L[k], C, k) /\ Sole(L, d, k)
  <2>1. L[k] = loop[k] /\ Holds(loop[k], Calls(stack), k) /\ SameCalls(C, k)
    BY <1>1 DEF IInv
  <2>2. ~Others(L, k)
    BY <1>1 DEF Others
  <2> QED
    BY <2>1, <2>2 DEF Holds, Single, SameCalls, Sole
<1>3. Holds(L[l], C, l) /\ Sole(L, d, l)
  BY <1>1 DEF Sole
<1> QED
  BY <1>1, <1>2, <1>3 DEF L

\* A new loop is the default, until it is given up for another.
LEMMA LoopInitSettles == ASSUME IInv, NEW l \in Loops, LoopInit(l) PROVE Settles
<1> DEFINE C == {Call("init", l)} \cup Calls(stack)
           rest == <<Call("init", l)>> \o stack
           r == [loop[l] EXCEPT !.object = "live"]
           L == [loop EXCEPT ![l] = r]
<1>1. /\ loop[l] \in LoopType /\ Holds(loop[l], Calls(stack), l)
      /\ stack \in Seq(CallType) /\ Once(stack)
  BY DEF IInv
<1>2. /\ loop[l].object = "none" /\ phase # "done"
      /\ ext' = [ext EXCEPT !.uv_default = l]
      /\ locks' = locks /\ lockLoop' = lockLoop /\ phase' = phase
      /\ Settle(L, rest)
  BY DEF LoopInit, Fresh, Calling, Program, CanForget
<1>3. /\ loop[l].native = "none" /\ loop[l].dels = 0 /\ loop[l].calls \in Nat
      /\ Call("init", l) \notin Calls(stack) /\ Call("run", l) \notin Calls(stack)
  BY <1>1, <1>2 DEF Holds, Single, LoopType
<1>4. r \in LoopType /\ r.object = "live" /\ r.native = "none" /\ r.dels = 0 /\ r.calls \in Nat
  BY <1>1, <1>3 DEF LoopType
<1>5. rest \in Seq(CallType) /\ Once(rest) /\ Calls(rest) = C
  BY <1>1, <1>3, CallTypes, Push
<1>6. /\ \A k \in Loops \ {l} : SameCalls(C, k)
      /\ ToClear \in C <=> ToClear \in Calls(stack)
      /\ ToShutDown \in C <=> ToShutDown \in Calls(stack)
  BY OthersPushed
<1>7. Holds(r, C, l)
  <2>1. \A m \in {"run", "drain", "destruct", "free"} : Call(m, l) # Call("init", l)
    BY SameCall
  <2>2. \A m \in {"run", "drain", "destruct", "free"} : Call(m, l) \notin C
    BY <1>1, <1>2, <1>3, <2>1 DEF Holds, Ending
  <2> HIDE DEF C
  <2> QED
    BY <1>4, <2>2 DEF Holds, One
<1>8. ~Ending(loop[l])
  BY <1>2 DEF Ending
<1> HIDE DEF r, C, rest
<1>9. /\ L \in [Loops -> LoopType]
      /\ \A k \in Loops : Holds(L[k], C, k) /\ Sole(L, l, k)
      /\ \A k \in Loops : Ending(loop[k]) => Ending(L[k])
  BY <1>4, <1>6, <1>7, <1>8, DefaultChanged
<1> HIDE DEF L
<1>10. /\ ModuleTypes' /\ ext'.uv_default = l
       /\ ext'.uv_exited = ext.uv_exited /\ ext'.ffi = ext.ffi
       /\ ext'.destructor_linked = ext.destructor_linked
  BY <1>2 DEF IInv, ModuleTypes
<1>11. Module(L, C, ext', locks', phase')
  BY <1>2, <1>6, <1>9, <1>10 DEF IInv, Module
<1>12. Prepared(L, C)
  BY <1>9, <1>10, <1>11 DEF Prepared
<1> QED
  BY <1>2, <1>4, <1>5, <1>12, SettlesOne DEF L

\* What the default loop is, made of libuv's if there was none.
LEMMA WrappedLoop ==
  ASSUME IInv, NEW l \in Loops, NEW b \in BOOLEAN
  PROVE  LET r == [Wrapped(l) EXCEPT !.held = IF b THEN TRUE ELSE @]
         IN  /\ r \in LoopType /\ r.object # "none" /\ Holds(r, Calls(stack), l)
             /\ Ending(loop[l]) => Ending(r)
             /\ ~b => r = Wrapped(l)
<1>1. loop[l] \in LoopType /\ Holds(loop[l], Calls(stack), l)
  BY DEF IInv
<1> DEFINE h == IF b THEN TRUE ELSE Wrapped(l).held
           r == [Wrapped(l) EXCEPT !.held = h]
<1>2. /\ Wrapper \in LoopType /\ Wrapper.object = "live" /\ Wrapper.native = "open"
      /\ Wrapper.dels = 0 /\ Wrapper.calls = 0
  BY DEF Wrapper, Blank, LoopType
<1>3. Wrapped(l) \in LoopType
  BY <1>1, <1>2 DEF Wrapped
<1>4. h \in BOOLEAN
  BY <1>3 DEF LoopType
<1>5. ~b => h = Wrapped(l).held
  OBVIOUS
<1> HIDE DEF h
<1>6. /\ r \in LoopType /\ r.object = Wrapped(l).object /\ r.native = Wrapped(l).native
      /\ r.dels = Wrapped(l).dels /\ r.calls = Wrapped(l).calls /\ r.mode = Wrapped(l).mode
  BY <1>3, <1>4 DEF LoopType
<1>7. ~b => r = Wrapped(l)
  BY <1>3, <1>5 DEF LoopType
<1> HIDE DEF r
<1>8. CASE loop[l].object = "none"
  <2>1. Wrapped(l) = Wrapper
    BY <1>8 DEF Wrapped
  <2>2. \A n \in {"run", "init", "drain", "destruct", "free"} : Call(n, l) \notin Calls(stack)
    BY <1>1, <1>8 DEF Holds, Single, Ending
  <2>3. Holds(r, Calls(stack), l)
    BY <1>2, <1>6, <2>1, <2>2 DEF Holds, One
  <2> QED
    BY <1>2, <1>6, <1>7, <1>8, <2>1, <2>3 DEF Ending, r, h
<1>9. CASE loop[l].object # "none"
  <2>1. Wrapped(l) = loop[l]
    BY <1>9 DEF Wrapped
  <2>2. Holds(r, Calls(stack), l)
    BY <1>1, <1>6, <2>1 DEF Holds, Ending
  <2> QED
    BY <1>6, <1>7, <1>9, <2>1, <2>2 DEF Ending, r, h
<1> QED
  BY <1>8, <1>9

\* uv_default_loop() makes the default loop if there is none, and holds it.
LEMMA DefaultLoopKeeps == ASSUME IInv, NEW l \in Loops, DefaultLoop(l) PROVE IInv'
<1> DEFINE r == [Wrapped(l) EXCEPT !.held = TRUE]
           L == [loop EXCEPT ![l] = r]
<1>1. /\ loop' = L /\ stack' = stack /\ phase # "done"
      /\ ext' = [ext EXCEPT !.uv_default = l]
      /\ locks' = locks /\ lockLoop' = lockLoop /\ phase' = phase
  BY DEF DefaultLoop, Calling, Program, CanForget
<1>2. /\ r \in LoopType /\ r.object # "none" /\ Holds(r, Calls(stack), l)
      /\ Ending(loop[l]) => Ending(r)
  BY WrappedLoop
<1> HIDE DEF r
<1>3. \A k \in Loops \ {l} : SameCalls(Calls(stack), k)
  BY DEF SameCalls
<1>4. /\ L \in [Loops -> LoopType]
      /\ \A k \in Loops : Holds(L[k], Calls(stack), k) /\ Sole(L, l, k)
      /\ \A k \in Loops : Ending(loop[k]) => Ending(L[k])
  BY <1>2, <1>3, DefaultChanged
<1> HIDE DEF L
<1>5. /\ ModuleTypes' /\ ext'.uv_default = l
      /\ ext'.uv_exited = ext.uv_exited /\ ext'.ffi = ext.ffi
      /\ ext'.destructor_linked = ext.destructor_linked
  BY <1>1 DEF IInv, ModuleTypes
<1>6. Module(L, Calls(stack), ext', locks', phase')
  BY <1>1, <1>4, <1>5 DEF IInv, Module
<1>7. Prepared(loop', Calls(stack'))
  BY <1>1, <1>4, <1>5, <1>6 DEF Prepared
<1> QED
  BY <1>1, <1>7, AfterPlain DEF IInv

\* So does the first lock.
LEMMA LockInitKeeps == ASSUME IInv, LockInit PROVE IInv'
<1>1. /\ stack' = stack /\ phase' = phase /\ phase # "done"
      /\ locks' = locks + 1 /\ locks \in Nat
  BY DEF LockInit, Calling, Program, CanForget, IInv, ModuleTypes
<1>2. CASE UNCHANGED <<loop, ext, lockLoop>>
  <2>1. ModuleTypes' /\ locks' # 0
    BY <1>1, <1>2 DEF IInv, ModuleTypes
  <2>2. Module(loop, Calls(stack), ext', locks', phase')
    BY <1>1, <1>2, <2>1 DEF IInv, Module
  <2>3. Prepared(loop, Calls(stack))
    BY <1>2, <2>1, <2>2, LoopsUntouched DEF SameCalls
  <2>4. Prepared(loop', Calls(stack'))
    BY <1>1, <1>2, <2>3
  <2> QED
    BY <1>1, <2>4, AfterPlain DEF IInv
<1>3. ASSUME NEW l \in Loops, lockLoop' = l, loop' = [loop EXCEPT ![l] = Wrapped(l)],
             ext' = [ext EXCEPT !.uv_default = l, !.destructor_linked = TRUE]
      PROVE  IInv'
  <2> DEFINE r == Wrapped(l)
             L == [loop EXCEPT ![l] = r]
  <2>1. /\ r \in LoopType /\ r.object # "none" /\ Holds(r, Calls(stack), l)
        /\ Ending(loop[l]) => Ending(r)
    BY WrappedLoop
  <2> HIDE DEF r
  <2>2. \A k \in Loops \ {l} : SameCalls(Calls(stack), k)
    BY DEF SameCalls
  <2>3. /\ L \in [Loops -> LoopType]
        /\ \A k \in Loops : Holds(L[k], Calls(stack), k) /\ Sole(L, l, k)
        /\ \A k \in Loops : Ending(loop[k]) => Ending(L[k])
    BY <2>1, <2>2, DefaultChanged
  <2>4. loop' = L
    BY <1>3 DEF r
  <2> HIDE DEF L
  <2>5. /\ ModuleTypes' /\ locks' # 0 /\ ext'.uv_default = l
        /\ ext'.uv_exited = ext.uv_exited /\ ext'.ffi = ext.ffi
    <3>1. /\ ext \in [uv_default : Loops \cup {NoLoop}, shutdown_on_request : BOOLEAN,
                      uv_exited : BOOLEAN, destructor_linked : BOOLEAN, ffi : BOOLEAN]
          /\ phase \in {"script", "ending", "done", "crashed"}
      BY DEF IInv, ModuleTypes
    <3>2. /\ ext' \in [uv_default : Loops \cup {NoLoop}, shutdown_on_request : BOOLEAN,
                       uv_exited : BOOLEAN, destructor_linked : BOOLEAN, ffi : BOOLEAN]
          /\ ext'.uv_default = l
          /\ ext'.uv_exited = ext.uv_exited /\ ext'.ffi = ext.ffi
      BY <1>3, <3>1
    <3>3. locks' \in Nat /\ locks' # 0
      BY <1>1
    <3> QED
      BY <1>1, <1>3, <3>1, <3>2, <3>3 DEF ModuleTypes
  <2>6. Module(L, Calls(stack), ext', locks', phase')
    BY <1>1, <2>3, <2>5 DEF IInv, Module
  <2>7. Prepared(loop', Calls(stack'))
    BY <1>1, <2>3, <2>4, <2>5, <2>6 DEF Prepared
  <2> QED
    BY <1>1, <2>7, AfterPlain DEF IInv
<1> QED
  BY <1>2, <1>3 DEF LockInit

\* A deleted loop is nobody's default.
LEMMA DeleteSettles == ASSUME IInv, NEW l \in Loops, Delete(l) PROVE Settles
<1>1. /\ loop[l] \in LoopType /\ Holds(loop[l], Calls(stack), l)
      /\ stack \in Seq(CallType) /\ Once(stack)
  BY DEF IInv
<1> DEFINE f == ~loop[l].is_default
           d == loop[l].dels + 1
           r == [loop[l] EXCEPT !.stop_called = TRUE, !.close_called = TRUE, !.is_default = TRUE,
                                !.native = "deleted", !.freed = f, !.dels = d]
           L == [loop EXCEPT ![l] = r]
<1>2. /\ loop[l].object \in {"live", "dying"} /\ loop[l].native = "open" /\ phase # "done"
      /\ Call("run", l) \notin Calls(stack)
      /\ ext' = [ext EXCEPT !.shutdown_on_request = TRUE, !.uv_default = NoLoop]
      /\ locks' = locks /\ lockLoop' = lockLoop /\ phase' = phase
  BY DEF Delete, HasPointer, Open, Runs, Calling, Program, CanForget
<1>3. Settle(L, stack)
  BY DEF Delete
<1>4. f \in BOOLEAN /\ d \in Nat
  BY <1>1 DEF LoopType
<1> HIDE DEF f, d
<1>5. r \in LoopType /\ r.object = loop[l].object /\ r.native = "deleted"
  BY <1>1, <1>4 DEF LoopType
<1> HIDE DEF r
<1>6. Holds(r, Calls(stack), l)
  <2>1. Ending(r) <=> Ending(loop[l])
    BY <1>5 DEF Ending
  <2>2. loop[l].object = "live" => Call("init", l) \notin Calls(stack)
    BY <1>1, <1>2 DEF Holds
  <2> QED
    BY <1>1, <1>2, <1>5, <2>1, <2>2 DEF Holds
<1>7. Ending(loop[l]) => Ending(r)
  BY <1>5 DEF Ending
<1>8. \A k \in Loops \ {l} : SameCalls(Calls(stack), k)
  BY DEF SameCalls
<1>9. /\ L \in [Loops -> LoopType]
      /\ \A k \in Loops : Holds(L[k], Calls(stack), k) /\ Sole(L, NoLoop, k)
      /\ \A k \in Loops : Ending(loop[k]) => Ending(L[k])
  BY <1>2, <1>5, <1>6, <1>7, <1>8, DefaultChanged
<1> HIDE DEF L
<1>10. /\ ModuleTypes' /\ ext'.uv_default = NoLoop
       /\ ext'.uv_exited = ext.uv_exited /\ ext'.ffi = ext.ffi
       /\ ext'.destructor_linked = ext.destructor_linked
  BY <1>2 DEF IInv, ModuleTypes
<1>11. Module(L, Calls(stack), ext', locks', phase')
  BY <1>2, <1>9, <1>10 DEF IInv, Module
<1>12. Prepared(L, Calls(stack))
  BY <1>9, <1>10, <1>11 DEF Prepared
<1> QED
  BY <1>1, <1>3, <1>5, <1>12, SettlesOne DEF L

\* The last lock leaves the clearing of the module on the stack.
LEMMA LockDestructSettles == ASSUME IInv, LockDestruct PROVE Settles
<1>1. /\ phase # "done" /\ locks > 0 /\ locks' = locks - 1 /\ ext' = ext /\ phase' = phase
      /\ lockLoop' = (IF locks' = 0 THEN NoLoop ELSE lockLoop)
  BY DEF LockDestruct, LockDestructWith, CanForget
<1>2. stack \in Seq(CallType) /\ Once(stack) /\ ModuleTypes
  BY DEF IInv
<1>3. ModuleTypes'
  <2>1. locks' \in Nat
    BY <1>1, <1>2 DEF ModuleTypes
  <2> QED
    BY <1>1, <1>2, <2>1 DEF ModuleTypes
<1>4. CASE locks' = 0
  <2> DEFINE rest == <<ToClear>> \o stack
  <2>1. Settle(loop, rest)
    BY <1>4 DEF LockDestruct, LockDestructWith, ToClear
  <2>2. ToClear \in CallType /\ ToClear.call \notin Single
    BY CallTypes DEF ToClear, Call, Single
  <2>3. rest \in Seq(CallType) /\ Once(rest) /\ Calls(rest) = {ToClear} \cup Calls(stack)
    BY <1>2, <2>2, Push
  <2> HIDE DEF rest
  <2>4. \A k \in Loops : \A n \in {"run", "drain", "init", "destruct", "free"} :
          Call(n, k) # ToClear
    BY SameCall DEF ToClear
  <2>5. \A k \in Loops : SameCalls(Calls(rest), k)
    BY <2>3, <2>4 DEF SameCalls
  <2>6. ToClear \in Calls(rest) /\ (ToShutDown \in Calls(rest) <=> ToShutDown \in Calls(stack))
    <3>1. ToShutDown # ToClear
      BY SameCall DEF ToShutDown, ToClear
    <3> QED
      BY <2>3, <3>1
  <2>7. Module(loop, Calls(rest), ext', locks', phase')
    BY <1>1, <2>6 DEF IInv, Module
  <2>8. Prepared(loop, Calls(rest))
    BY <1>1, <1>3, <2>5, <2>7, LoopsUntouched
  <2> QED
    BY <2>1, <2>3, <2>8, SettlesNone
<1>5. CASE locks' # 0
  <2>1. Settle(loop, stack)
    BY <1>5 DEF LockDestruct, LockDestructWith
  <2>2. Module(loop, Calls(stack), ext', locks', phase')
    BY <1>1, <1>5 DEF IInv, Module
  <2>3. Prepared(loop, Calls(stack))
    BY <1>1, <1>3, <2>2, LoopsUntouched DEF SameCalls
  <2> QED
    BY <1>2, <2>1, <2>3, SettlesNone
<1> QED
  BY <1>4, <1>5

\* A step that changes neither loops nor calls, nor makes the request end.
LEMMA ModuleStepKeeps ==
  ASSUME IInv, loop' = loop, stack' = stack, ext'.uv_default = ext.uv_default,
         ext'.uv_exited = ext.uv_exited, ext'.ffi = ext.ffi,
         ext'.destructor_linked = ext.destructor_linked, locks' = locks, ModuleTypes',
         phase' = phase \/ (phase # "done" /\ phase' # "done")
  PROVE  IInv'
<1>1. Module(loop, Calls(stack), ext', locks', phase')
  BY DEF IInv, Module
<1>2. Prepared(loop, Calls(stack))
  BY <1>1, LoopsUntouched DEF SameCalls
<1> QED
  BY <1>2, AfterPlain DEF IInv

\* uv_destruct_set(), the end of the script and a crash are such steps.
LEMMA DestructSetKeeps == ASSUME IInv, DestructSet PROVE IInv'
<1>1. /\ loop' = loop /\ stack' = stack /\ locks' = locks /\ phase' = phase
      /\ ext' = [ext EXCEPT !.shutdown_on_request = TRUE] /\ lockLoop' = lockLoop
  BY DEF DestructSet
<1>2. /\ ModuleTypes' /\ ext'.uv_default = ext.uv_default
      /\ ext'.uv_exited = ext.uv_exited /\ ext'.ffi = ext.ffi
      /\ ext'.destructor_linked = ext.destructor_linked
  BY <1>1 DEF IInv, ModuleTypes
<1> QED
  BY <1>1, <1>2, ModuleStepKeeps

LEMMA ScriptEndKeeps == ASSUME IInv, ScriptEnd PROVE IInv'
<1>1. ModuleTypes'
  BY DEF ScriptEnd, IInv, ModuleTypes
<1> QED
  BY <1>1, ModuleStepKeeps DEF ScriptEnd

LEMMA CallDestroyedKeeps == ASSUME IInv, NEW l \in Loops, CallDestroyed(l) PROVE IInv'
<1>1. ModuleTypes'
  BY DEF CallDestroyed, IInv, ModuleTypes
<1> QED
  BY <1>1, ModuleStepKeeps DEF CallDestroyed, Calling, Program, CanForget

\* request_shutdown() forgets the default loop, or else leaves the clearing of the
\* module on the stack.
LEMMA RequestShutdownSettles == ASSUME IInv, RequestShutdown PROVE Settles
<1> DEFINE t == Tail(stack)
           forgets == HasPointer(ext.uv_default)
<1>1. /\ NextCall("request_shutdown", NoLoop)
      /\ ext' = (IF forgets THEN [ext EXCEPT !.uv_default = NoLoop] ELSE ext)
      /\ locks' = locks /\ lockLoop' = lockLoop /\ phase' = phase
  BY DEF RequestShutdown, Shutdown
<1>2. /\ t \in Seq(CallType) /\ Once(t) /\ Calls(stack) = {ToShutDown} \cup Calls(t)
  BY <1>1, Pop DEF IInv, ToShutDown
<1>3. ModuleTypes /\ Module(loop, Calls(stack), ext, locks, phase)
  BY DEF IInv
<1>4. /\ ModuleTypes'
      /\ ext'.uv_exited = ext.uv_exited /\ ext'.ffi = ext.ffi
      /\ ext'.destructor_linked = ext.destructor_linked
  BY <1>1, <1>3 DEF ModuleTypes
<1>5. \A k \in Loops : \A n \in {"run", "drain", "init", "destruct", "free"} :
        Call(n, k) # ToShutDown /\ Call(n, k) # ToClear
  BY SameCall DEF ToShutDown, ToClear
<1>6. ToShutDown # ToClear
  BY SameCall DEF ToShutDown, ToClear
<1> HIDE DEF t, forgets
<1>7. /\ \A k \in Loops : SameCalls(Calls(t), k)
      /\ ToClear \in Calls(t) <=> ToClear \in Calls(stack)
      /\ ToShutDown \in Calls(t) => ToShutDown \in Calls(stack)
  BY <1>2, <1>5, <1>6 DEF SameCalls
<1>8. \A l \in Loops : Sole(loop, ext'.uv_default, l)
  <2>1. CASE ~forgets
    BY <1>1, <2>1 DEF IInv
  <2>2. CASE phase = "done"
    BY <1>3, <2>2 DEF Module, Gone, Sole
  <2>3. CASE \E k \in Loops : Ending(loop[k])
    BY <2>3 DEF Ending, Sole, Others
  <2> QED
    BY <1>2, <1>3, <2>1, <2>2, <2>3 DEF Module
<1>9. ASSUME NEW C, \A k \in Loops : SameCalls(C, k), Module(loop, C, ext', locks', phase')
      PROVE  Prepared(loop, C)
  <2>1. ASSUME NEW k \in Loops
        PROVE  Holds(loop[k], C, k)
    <3>1. Holds(loop[k], Calls(stack), k) /\ SameCalls(C, k)
      BY <1>9 DEF IInv
    <3> QED
      BY <3>1 DEF Holds, Single, SameCalls
  <2> QED
    BY <1>4, <1>8, <1>9, <2>1 DEF IInv, Prepared
<1>10. phase = "done" => ~forgets
  BY <1>3 DEF Module, ModuleTypes, Gone, HasPointer, forgets
<1>11. CASE forgets \/ ext.uv_exited \/ ext.destructor_linked
  <2>1. Settle(loop, t)
    BY <1>11 DEF RequestShutdown, Shutdown, t, forgets
  <2>2. Module(loop, Calls(t), ext', locks', phase')
    <3>1. phase' = "done" => ext'.uv_exited \/ ToShutDown \in Calls(t) \/ ToClear \in Calls(t)
      BY <1>1, <1>3, <1>4, <1>7, <1>10, <1>11 DEF Module
    <3> QED
      BY <1>1, <1>3, <1>4, <1>7, <3>1 DEF Module
  <2>3. Prepared(loop, Calls(t))
    BY <1>7, <1>9, <2>2
  <2> QED
    BY <1>2, <2>1, <2>3, SettlesNone
<1>12. CASE ~(forgets \/ ext.uv_exited \/ ext.destructor_linked)
  <2> DEFINE rest == <<ToClear>> \o t
  <2>1. Settle(loop, rest)
    BY <1>12 DEF RequestShutdown, Shutdown, t, forgets, ToClear
  <2>2. ToClear \in CallType /\ ToClear.call \notin Single
    BY CallTypes DEF ToClear, Call, Single
  <2>3. rest \in Seq(CallType) /\ Once(rest) /\ Calls(rest) = {ToClear} \cup Calls(t)
    BY <1>2, <2>2, Push
  <2> HIDE DEF rest
  <2>4. /\ \A k \in Loops : SameCalls(Calls(rest), k)
        /\ ToClear \in Calls(rest)
        /\ ToShutDown \in Calls(rest) => ToShutDown \in Calls(stack)
    BY <1>5, <1>6, <1>7, <2>3 DEF SameCalls
  <2>5. Module(loop, Calls(rest), ext', locks', phase')
    BY <1>1, <1>3, <1>4, <2>4 DEF Module
  <2>6. Prepared(loop, Calls(rest))
    BY <1>9, <2>4, <2>5
  <2> QED
    BY <2>1, <2>3, <2>6, SettlesNone
<1> QED
  BY <1>11, <1>12

\* module_clear() marks the module as gone.
LEMMA ModuleClearKeeps == ASSUME IInv, ModuleClear PROVE IInv'
<1>1. /\ NextCall("module_clear", NoLoop) /\ stack' = Tail(stack) /\ loop' = loop
      /\ ext' = [ext EXCEPT !.uv_exited = TRUE, !.ffi = FALSE]
      /\ locks' = locks /\ lockLoop' = lockLoop /\ phase' = phase
  BY DEF ModuleClear
<1>2. /\ stack' \in Seq(CallType) /\ Once(stack') /\ Calls(stack) = {ToClear} \cup Calls(stack')
  BY <1>1, Pop DEF IInv, ToClear
<1>3. ModuleTypes' /\ ext'.uv_exited /\ ~ext'.ffi /\ ext'.uv_default = ext.uv_default
  BY <1>1 DEF IInv, ModuleTypes
<1>4. Module(loop, Calls(stack'), ext', locks', phase')
  BY <1>1, <1>2, <1>3 DEF IInv, Module
<1>5. \A k \in Loops : SameCalls(Calls(stack'), k)
  <2>1. \A k \in Loops : \A n \in {"run", "drain", "init", "destruct", "free"} :
          Call(n, k) # ToClear
    BY SameCall DEF ToClear
  <2> QED
    BY <1>2, <2>1 DEF SameCalls
<1>6. Prepared(loop', Calls(stack'))
  BY <1>1, <1>3, <1>4, <1>5, LoopsUntouched
<1> QED
  BY <1>2, <1>6, AfterPlain

\* When all loops are destroyed the module's own shutdown is on the stack.
LEMMA RequestEndKeeps == ASSUME IInv, RequestEnd PROVE IInv'
<1>1. /\ stack = <<>> /\ stack' = <<ToShutDown>> /\ phase' = "done" /\ Leftovers = {}
      /\ ext.ffi => locks = 0
      /\ loop' = loop /\ ext' = ext /\ locks' = locks /\ lockLoop' = lockLoop
  BY DEF RequestEnd, GlobalsGone, ToShutDown
<1>2. stack' \in Seq(CallType) /\ Calls(stack') = {ToShutDown} /\ Calls(stack) = {}
  BY <1>1, CallTypes, OneCall, NoCalls
<1>3. Once(stack')
  BY <1>1 DEF Once
<1>4. ASSUME NEW l \in Loops
      PROVE  Gone(loop[l])
  <2>1. loop[l] \in LoopType /\ Holds(loop[l], Calls(stack), l) /\ loop[l].object # "live"
    BY <1>1 DEF IInv, Leftovers
  <2> QED
    BY <1>2, <2>1 DEF Holds, Gone, LoopType
<1>5. ModuleTypes'
  BY <1>1 DEF IInv, ModuleTypes
<1>6. Module(loop, Calls(stack'), ext', locks', phase')
  BY <1>1, <1>2, <1>4 DEF IInv, Module
<1>7. \A k \in Loops : SameCalls(Calls(stack'), k)
  <2>1. \A k \in Loops : \A n \in {"run", "drain", "init", "destruct", "free"} :
          Call(n, k) # ToShutDown
    BY SameCall DEF ToShutDown
  <2> QED
    BY <1>2, <2>1 DEF SameCalls
<1>8. Prepared(loop', Calls(stack'))
  BY <1>1, <1>5, <1>6, <1>7, LoopsUntouched
<1> QED
  BY <1>2, <1>3, <1>8, AfterPlain

------------------------------------------------------------------------------

\* The invariant holds at first.
LEMMA Start == Init => IInv
<1> SUFFICES ASSUME Init
             PROVE  IInv
  OBVIOUS
<1>1. Blank \in LoopType
  BY DEF Blank, LoopType
<1>2. loop \in [Loops -> LoopType] /\ stack \in Seq(CallType) /\ Calls(stack) = {} /\ Once(stack)
      /\ \A l \in Loops : loop[l] = Blank
  BY <1>1, NoCalls DEF Init, Once
<1>3. ModuleTypes /\ Module(loop, Calls(stack), ext, locks, phase)
  BY <1>2 DEF Init, Module, ModuleTypes
<1>4. ASSUME NEW l \in Loops
      PROVE  Holds(loop[l], Calls(stack), l) /\ Sole(loop, ext.uv_default, l)
  BY <1>2 DEF Holds, Sole, Blank, Ending
<1> QED
  BY <1>2, <1>3, <1>4 DEF IInv

\* Every step keeps the invariant.
LEMMA Step == IInv /\ [Next]_vars => IInv'
<1> SUFFICES ASSUME IInv, [Next]_vars
             PROVE  IInv'
  OBVIOUS
<1>1. CASE Make
  BY <1>1, DefaultLoopKeeps, LoopInitSettles, LockInitKeeps, LockDestructSettles,
     DestructSetKeeps, AfterSettle DEF Make
<1>2. ASSUME NEW l \in Loops, Use(l)
      PROVE  IInv'
  BY <1>2, MoveHandleKeeps, RunBeginKeeps, StopSettles, CloseSettles, DeleteSettles,
     CallDestroyedKeeps, ForgetSettles, AfterSettle DEF Use
<1>3. ASSUME NEW l \in Loops, Running(l)
      PROVE  IInv'
  BY <1>3, LoopStepKeeps, RunReturnSettles, DrainReturnKeeps, AfterSettle DEF Running
<1>4. CASE Unwind
  BY <1>4, DestructKeeps, FreeKeeps, InitReturnSettles, RequestShutdownSettles,
     ModuleClearKeeps, AfterSettle DEF Unwind
<1>5. CASE End
  BY <1>5, ScriptEndKeeps, RequestEndKeeps, DestroyLeftoverKeeps DEF End
<1>6. CASE UNCHANGED vars
  <2>1. ModuleTypes'
    BY <1>6 DEF vars, IInv, ModuleTypes
  <2> QED
    BY <1>6, <2>1, ModuleStepKeeps DEF vars
<1> QED
  BY <1>1, <1>2, <1>3, <1>4, <1>5, <1>6 DEF Next

\* The inductive invariant holds throughout.
LEMMA Inductive == Spec => []IInv
<1> QED
  BY Start, Step, PTL DEF Spec

------------------------------------------------------------------------------
(* What follows *)

\* The variables have their types, for any number of loops, handles and calls.
THEOREM TypeCorrect == Spec => []TypeOK
<1>1. IInv => TypeOK
  BY DEF IInv, ModuleTypes, TypeOK
<1> QED
  BY <1>1, Inductive, PTL

\* When the request has ended the module is cleared, whoever did it: as long as
\* it is not, some call that is still to be made leads to module_clear().
THEOREM ClearedInTheEnd == Spec => []ClearedAtEnd
<1>1. IInv => ClearedAtEnd
  BY NoCalls DEF IInv, Module, ClearedAtEnd
<1> QED
  BY <1>1, Inductive, PTL

\* A live loop is lost where loops are settled, or with the globals.
LEMMA Lost ==
  ASSUME IInv, Next, NEW l \in Loops, loop[l].object = "live", loop'[l].object # "live"
  PROVE  Settles \/ DestroyLeftover(l)
<1>1. /\ loop \in [Loops -> LoopType] /\ stack \in Seq(CallType) /\ Once(stack)
      /\ \A k \in Loops : loop[k] \in LoopType /\ Holds(loop[k], Calls(stack), k)
  BY DEF IInv
<1>2. ASSUME NEW n, NEW k \in Loops, NextCall(n, k)
      PROVE  Call(n, k) \in Calls(stack)
  BY <1>1, <1>2, CallsPopped DEF NextCall
<1>3. ASSUME NEW k \in Loops, Destruct(k) \/ DrainReturn(k) \/ Free(k)
      PROVE  k # l
  <2>1. \/ Call("destruct", k) \in Calls(stack) \/ Call("free", k) \in Calls(stack)
        \/ Call("drain", k) \in Calls(stack)
    BY <1>2, <1>3 DEF Destruct, DestructWith, DrainReturn, Free
  <2> QED
    BY <1>1, <2>1 DEF Holds, Ending
<1>4. ASSUME NEW k \in Loops, Destruct(k) \/ DrainReturn(k) \/ Free(k) \/ DestroyLeftover(k)
      PROVE  \A j \in Loops \ {k} : loop'[j] = loop[j]
  BY <1>1, <1>4 DEF Destruct, DestructWith, DrainReturn, Free, DestroyLeftover
<1>5. CASE Unwind
  BY <1>3, <1>4, <1>5, InitReturnSettles, RequestShutdownSettles DEF Unwind, ModuleClear
<1>6. ASSUME NEW k \in Loops, Running(k)
      PROVE  Settles
  <2>1. ~LoopStep(k)
    BY <1>1 DEF LoopStep, LoopType
  <2> QED
    BY <1>3, <1>4, <1>6, <2>1, RunReturnSettles DEF Running
<1>7. ASSUME NEW k \in Loops, Use(k)
      PROVE  Settles
  <2>1. ~MoveHandle(k)
    <3>1. loop[l] \in LoopType
      BY <1>1
    <3>2. loop' # [loop EXCEPT ![k].inactive = @ + 1]
      BY <1>1, <3>1 DEF LoopType
    <3>3. /\ loop' # [loop EXCEPT ![k].inactive = @ - 1, ![k].active = @ + 1]
          /\ loop' # [loop EXCEPT ![k].active = @ - 1, ![k].inactive = @ + 1]
      BY <1>1, <3>1 DEF LoopType
    <3>4. loop' # [loop EXCEPT ![k].active = @ - 1, ![k].closing = @ + 1]
      <4>1. CASE k = l
        <5> DEFINE r == [loop[l] EXCEPT !.active = @ - 1, !.closing = @ + 1]
        <5>1. r.object = loop[l].object
          BY <3>1 DEF LoopType
        <5>2. loop' = [loop EXCEPT ![k].active = @ - 1, ![k].closing = @ + 1] => loop'[l] = r
          BY <1>1, <4>1
        <5> HIDE DEF r
        <5> QED
          BY <5>1, <5>2
      <4>2. CASE k # l
        BY <1>1, <4>2
      <4> QED
        BY <4>1, <4>2
    <3>5. loop' # [loop EXCEPT ![k].inactive = @ - 1, ![k].closing = @ + 1]
      <4>1. CASE k = l
        <5> DEFINE r == [loop[l] EXCEPT !.inactive = @ - 1, !.closing = @ + 1]
        <5>1. r.object = loop[l].object
          BY <3>1 DEF LoopType
        <5>2. loop' = [loop EXCEPT ![k].inactive = @ - 1, ![k].closing = @ + 1] => loop'[l] = r
          BY <1>1, <4>1
        <5> HIDE DEF r
        <5> QED
          BY <5>1, <5>2
      <4>2. CASE k # l
        BY <1>1, <4>2
      <4> QED
        BY <4>1, <4>2
    <3> QED
      BY <3>2, <3>3, <3>4, <3>5 DEF MoveHandle
  <2>2. ASSUME NEW mode \in {"default", "nowait"}
        PROVE  ~RunBegin(k, mode)
    BY <1>1 DEF RunBegin, LoopType
  <2> QED
    BY <1>7, <2>1, <2>2, StopSettles, CloseSettles, DeleteSettles, ForgetSettles
    DEF Use, CallDestroyed
<1>8. ASSUME NEW k \in Loops
      PROVE  ~DefaultLoop(k)
  <2>1. loop' # [loop EXCEPT ![k] = [Wrapped(k) EXCEPT !.held = TRUE]]
    <3>1. CASE k = l
      <4>1. Wrapped(k) = loop[l] /\ loop[l] \in LoopType
        BY <1>1, <3>1 DEF Wrapped
      <4>2. [loop[l] EXCEPT !.held = TRUE].object = "live"
        BY <4>1 DEF LoopType
      <4> QED
        BY <1>1, <3>1, <4>1, <4>2
    <3>2. CASE k # l
      BY <1>1, <3>2
    <3> QED
      BY <3>1, <3>2
  <2> QED
    BY <2>1 DEF DefaultLoop
<1>9. ~LockInit
  <2>1. ASSUME NEW k \in Loops
        PROVE  loop' # [loop EXCEPT ![k] = Wrapped(k)]
    <3>1. k = l => Wrapped(k) = loop[l]
      BY DEF Wrapped
    <3> QED
      BY <1>1, <3>1
  <2> QED
    BY <2>1 DEF LockInit
<1>10. CASE Make
  BY <1>8, <1>9, <1>10, LoopInitSettles, LockDestructSettles DEF Make, DestructSet
<1>11. CASE End
  BY <1>4, <1>11 DEF End, ScriptEnd, RequestEnd
<1> QED
  BY <1>5, <1>6, <1>7, <1>10, <1>11 DEF Next

\* What a loop had that is lost where loops are settled: no reference was left,
\* not even of those the invariant speaks of.
LEMMA NothingLeft ==
  ASSUME Settles, NEW l \in Loops, loop[l].object = "live", loop'[l].object # "live"
  PROVE  \E r \in LoopType :
           /\ r.object = "live" /\ loop'[l] = [r EXCEPT !.object = "dying"]
           /\ One(r.held) + One(ext'.uv_default = l)
                + 2 * One(Call("run", l) \in Calls(stack')) =< r.dels
           /\ r.native # "deleted" =>
                r.dels + One(Call("run", l) \in Calls(stack') /\ r.mode = "default") =< r.calls
           /\ Call("run", l) \in Calls(stack') => r.native # "deleted"
           /\ r.native # "deleted" /\ (\A k \in Loops \ {l} : loop'[k].object = "none") =>
                ext'.uv_default = l
<1>1. PICK L \in [Loops -> LoopType], rest \in Seq(CallType) :
        /\ Settle(L, rest) /\ Prepared(L, Calls(rest))
        /\ \A k \in Loops : loop[k].object = "live" => L[k].object = "live"
  BY DEF Settles
<1> DEFINE C == Calls(rest)
<1>2. /\ \A k \in Loops : loop'[k] = IF Dies(L, C, k) THEN [L[k] EXCEPT !.object = "dying"] ELSE L[k]
      /\ Calls(stack') = {Call("destruct", k) : k \in {j \in Loops : Dies(L, C, j)}} \cup C
  BY <1>1, SettleStep
<1> HIDE DEF C
<1>3. L[l] \in LoopType /\ L[l].object = "live" /\ Holds(L[l], C, l)
  BY <1>1 DEF Prepared, C
<1>4. Dies(L, C, l) /\ loop'[l] = [L[l] EXCEPT !.object = "dying"]
  BY <1>2, <1>3
<1>5. Call("run", l) \in Calls(stack') <=> Call("run", l) \in C
  BY <1>2, SameCall
<1>6. One(L[l].held) + One(ext'.uv_default = l) + 2 * One(Call("run", l) \in C) =< L[l].dels
  <2>1. References(L, C, l) =< 0
    BY <1>4 DEF Dies
  <2>2. L[l].dels \in Nat
    BY <1>3 DEF LoopType
  <2> QED
    BY <2>1, <2>2 DEF References, One
<1>7. (\A k \in Loops \ {l} : loop'[k].object = "none") => Others(L, l)
  <2>1. ASSUME NEW k \in Loops, loop'[k].object = "none"
        PROVE  L[k].object = "none"
    <3>1. L[k] \in LoopType
      OBVIOUS
    <3> QED
      BY <1>2, <2>1, <3>1 DEF LoopType
  <2> QED
    BY <2>1 DEF Others
<1>8. Sole(L, ext'.uv_default, l)
  BY <1>1 DEF Prepared
<1>9. /\ L[l].native # "deleted" =>
           L[l].dels + One(Call("run", l) \in C /\ L[l].mode = "default") =< L[l].calls
      /\ Call("run", l) \in C => L[l].native # "deleted"
  BY <1>3 DEF Holds
<1>10. L[l].native # "deleted" /\ (\A k \in Loops \ {l} : loop'[k].object = "none") =>
         ext'.uv_default = l
  BY <1>3, <1>7, <1>8 DEF Sole
<1> WITNESS L[l] \in LoopType
<1> QED
  BY <1>3, <1>4, <1>5, <1>6, <1>9, <1>10

\* The variable of a program with one loop of its own keeps that loop alive
\* through one call of run(), stop() or close(), each of which takes a reference
\* away: the loop is the default, and that is the reference it can spare.
THEOREM SoleLoopStays == Spec => SoleLoopKept
<1>1. ASSUME IInv, [Next]_vars, NEW l \in Loops, TakesSole(l)
      PROVE  FALSE
  <2>1. loop[l].object = "live" /\ loop'[l].object # "live"
    BY <1>1 DEF TakesSole
  <2>2. Next
    BY <1>1, <2>1 DEF vars
  <2>3. ~DestroyLeftover(l)
    BY <1>1 DEF TakesSole, DestroyLeftover, GlobalsGone
  <2>4. Settles
    BY <1>1, <2>1, <2>2, <2>3, Lost
  <2>5. PICK r \in LoopType :
           /\ r.object = "live" /\ loop'[l] = [r EXCEPT !.object = "dying"]
           /\ One(r.held) + One(ext'.uv_default = l)
                + 2 * One(Call("run", l) \in Calls(stack')) =< r.dels
           /\ r.native # "deleted" =>
                r.dels + One(Call("run", l) \in Calls(stack') /\ r.mode = "default") =< r.calls
           /\ r.native # "deleted" /\ (\A k \in Loops \ {l} : loop'[k].object = "none") =>
                ext'.uv_default = l
    BY <2>1, <2>4, NothingLeft
  <2>6. /\ r.held = loop'[l].held /\ r.native = loop'[l].native /\ r.calls = loop'[l].calls
        /\ r.dels \in Nat /\ r.calls \in Nat
    BY <2>5 DEF LoopType
  <2>7. r.held /\ r.native # "deleted" /\ r.calls =< 1 /\ ext'.uv_default = l
    BY <1>1, <2>5, <2>6 DEF TakesSole
  <2> QED
    BY <2>5, <2>6, <2>7 DEF One
<1>2. IInv /\ [Next]_vars => [\A l \in Loops : ~TakesSole(l)]_vars
  BY <1>1
<1> QED
  BY <1>2, Inductive, PTL DEF Spec, SoleLoopKept

\* The references of run() itself outlast one call that takes one away, whatever
\* its callbacks do.
THEOREM RunningLoopStays == Spec => RunKeepsLoop
<1>1. ASSUME IInv, [Next]_vars, NEW l \in Loops, TakesRunning(l)
      PROVE  FALSE
  <2>1. loop[l].object = "live" /\ loop'[l].object # "live"
    BY <1>1 DEF TakesRunning
  <2>2. Next
    BY <1>1, <2>1 DEF vars
  <2>3. ~DestroyLeftover(l)
    BY <1>1, NoCalls DEF TakesRunning, DestroyLeftover, GlobalsGone
  <2>4. Settles
    BY <1>1, <2>1, <2>2, <2>3, Lost
  <2>5. PICK r \in LoopType :
           /\ r.object = "live" /\ loop'[l] = [r EXCEPT !.object = "dying"]
           /\ One(r.held) + One(ext'.uv_default = l)
                + 2 * One(Call("run", l) \in Calls(stack')) =< r.dels
           /\ r.native # "deleted" =>
                r.dels + One(Call("run", l) \in Calls(stack') /\ r.mode = "default") =< r.calls
           /\ Call("run", l) \in Calls(stack') => r.native # "deleted"
    BY <2>1, <2>4, NothingLeft
  <2>6. /\ r.calls = loop'[l].calls /\ r.mode = loop'[l].mode
        /\ r.dels \in Nat /\ r.calls \in Nat
    BY <2>5 DEF LoopType
  <2>7. Call("run", l) \in Calls(stack') /\ r.calls =< 1 + One(r.mode = "default")
    BY <1>1, <2>6 DEF TakesRunning
  <2> QED
    BY <2>5, <2>6, <2>7 DEF One
<1>2. IInv /\ [Next]_vars => [\A l \in Loops : ~TakesRunning(l)]_vars
  BY <1>1
<1> QED
  BY <1>2, Inductive, PTL DEF Spec, RunKeepsLoop

\* A step that settles the loops leaves the uv_loop_t's alone as far as the loops
\* it settles do.
LEMMA SettledAlone ==
  ASSUME NEW L \in [Loops -> LoopType], NEW rest \in Seq(CallType), Settle(L, rest),
         NEW l \in Loops,
         L[l].native = loop[l].native,
         L[l].stopping # loop[l].stopping => Runs(l),
         L[l].active = loop[l].active, L[l].inactive = loop[l].inactive,
         L[l].closing = loop[l].closing
  PROVE  LeftAlone(l)
<1>1. loop'[l] = IF Dies(L, Calls(rest), l) THEN [L[l] EXCEPT !.object = "dying"] ELSE L[l]
  BY SettleStep
<1>2. L[l] \in LoopType
  OBVIOUS
<1>3. /\ loop'[l].native = L[l].native /\ loop'[l].stopping = L[l].stopping
      /\ loop'[l].active = L[l].active /\ loop'[l].inactive = L[l].inactive
      /\ loop'[l].closing = L[l].closing
  BY <1>1, <1>2 DEF LoopType
<1> QED
  BY <1>3 DEF LeftAlone, Handles

\* So does one that changes no loop but, perhaps, the state of an object.
SameNative(r, t) ==
  /\ r.native = t.native /\ r.stopping = t.stopping
  /\ r.active = t.active /\ r.inactive = t.inactive /\ r.closing = t.closing

LEMMA PlainAlone ==
  ASSUME NEW l \in Loops, SameNative(loop'[l], loop[l])
  PROVE  LeftAlone(l)
  BY DEF SameNative, LeftAlone, Handles

\* Once the module is cleared no step reaches libuv but those of a uv_run() that
\* was not over: what the program does asks for the FFI instance, and so do the
\* destructors.
THEOREM NothingAfterClear == Spec => NoCallAfterClear
<1>1. ASSUME IInv, [Next]_vars, ~ext.ffi, NEW l \in Loops
      PROVE  LeftAlone(l)
  <2>1. /\ loop \in [Loops -> LoopType] /\ loop[l] \in LoopType
        /\ stack \in Seq(CallType) /\ Once(stack)
    BY <1>1 DEF IInv
  <2>2. ~Calling
    BY <1>1 DEF Calling
  <2>3. ASSUME NEW n, NEW k, NextCall(n, k)
        PROVE  Tail(stack) \in Seq(CallType) /\ Call(n, k) \in Calls(stack)
    BY <2>1, <2>3, CallsPopped DEF NextCall
  <2>4. CASE loop' = loop
    BY <2>4, PlainAlone DEF SameNative
  <2>5. ASSUME NEW k \in Loops, Forget(k)
        PROVE  LeftAlone(l)
    <3> DEFINE r == [loop[k] EXCEPT !.held = FALSE]
               L == [loop EXCEPT ![k] = r]
    <3>1. Settle(L, stack)
      BY <2>5 DEF Forget
    <3>2. loop[k] \in LoopType
      BY <2>1
    <3>3. r \in LoopType /\ SameNative(r, loop[k])
      BY <3>2 DEF LoopType, SameNative
    <3> HIDE DEF r
    <3>4. L \in [Loops -> LoopType] /\ SameNative(L[l], loop[l])
      BY <2>1, <3>3 DEF SameNative
    <3> HIDE DEF L
    <3> QED
      BY <2>1, <3>1, <3>4, SettledAlone DEF SameNative
  <2>6. ASSUME NEW k \in Loops, RunReturn(k)
        PROVE  LeftAlone(l)
    <3>1. loop[k] \in LoopType
      BY <2>1
    <3>2. PICK d \in Nat : d = loop[k].dels + One(loop[k].mode = "default")
      BY <3>1 DEF LoopType, One
    <3> DEFINE r == [loop[k] EXCEPT !.stopping = FALSE, !.run_called = TRUE, !.mode = "default",
                                    !.dels = d]
               L == [loop EXCEPT ![k] = r]
    <3>3. Settle(L, Tail(stack)) /\ NextCall("run", k)
      BY <2>6, <3>2 DEF RunReturn, RunEnd
    <3>4. Tail(stack) \in Seq(CallType) /\ Runs(k)
      BY <2>3, <3>3 DEF Runs
    <3>5. r \in LoopType
      BY <3>1 DEF LoopType
    <3>6. /\ r.native = loop[k].native /\ r.active = loop[k].active
          /\ r.inactive = loop[k].inactive /\ r.closing = loop[k].closing
      BY <3>1 DEF LoopType
    <3> HIDE DEF r
    <3>7. /\ L \in [Loops -> LoopType]
          /\ L[l].native = loop[l].native /\ L[l].active = loop[l].active
          /\ L[l].inactive = loop[l].inactive /\ L[l].closing = loop[l].closing
          /\ L[l].stopping # loop[l].stopping => Runs(l)
      BY <2>1, <3>4, <3>5, <3>6
    <3> HIDE DEF L
    <3> QED
      BY <3>3, <3>4, <3>7, SettledAlone
  <2>7. ASSUME NEW k \in Loops, NEW success \in BOOLEAN, InitReturn(k, success)
        PROVE  LeftAlone(l)
    <3> DEFINE r == [loop[k] EXCEPT !.held = FALSE]
               L == [loop EXCEPT ![k] = r]
    <3>1. loop[k] \in LoopType
      BY <2>1
    <3>2. r \in LoopType /\ SameNative(r, loop[k])
      BY <3>1 DEF LoopType, SameNative
    <3>3. L = [loop EXCEPT ![k].held = FALSE, ![k].native = @]
      BY <2>1, <3>1 DEF LoopType
    <3>4. ~success
      BY <1>1, <2>7 DEF InitReturn
    <3>5. Settle(L, Tail(stack)) /\ NextCall("init", k)
      BY <2>7, <3>3, <3>4 DEF InitReturn
    <3>6. Tail(stack) \in Seq(CallType)
      BY <2>3, <3>5
    <3> HIDE DEF r
    <3>7. L \in [Loops -> LoopType] /\ SameNative(L[l], loop[l])
      BY <2>1, <3>2 DEF SameNative
    <3> HIDE DEF L
    <3> QED
      BY <3>5, <3>6, <3>7, SettledAlone DEF SameNative
  <2>8. ASSUME NEW rest \in Seq(CallType), Settle(loop, rest)
        PROVE  LeftAlone(l)
    BY <2>1, <2>8, SettledAlone
  <2>9. ASSUME NEW k \in Loops, Destruct(k)
        PROVE  LeftAlone(l)
    <3>1. loop' = [loop EXCEPT ![k] = Ended(@)]
      BY <1>1, <2>9 DEF Destruct, DestructWith
    <3>2. SameNative(Ended(loop[k]), loop[k])
      BY <2>1, EndedType DEF SameNative
    <3>3. SameNative(loop'[l], loop[l])
      BY <2>1, <3>1, <3>2 DEF SameNative
    <3> QED
      BY <3>3, PlainAlone
  <2>10. ASSUME NEW k \in Loops, Free(k)
         PROVE  LeftAlone(l)
    <3> DEFINE f == \/ loop[k].freed
                    \/ /\ ext.ffi /\ ~loop[k].is_default
                       /\ ~(loop[k].run_called /\ loop[k].close_called)
               s == [loop[k] EXCEPT !.freed = f]
    <3>1. loop' = [loop EXCEPT ![k] = Ended(s)] /\ loop[k] \in LoopType
      BY <2>1, <2>10 DEF Free
    <3>2. f \in BOOLEAN
      OBVIOUS
    <3> HIDE DEF f
    <3>3. s \in LoopType /\ SameNative(s, loop[k])
      BY <3>1, <3>2 DEF LoopType, SameNative
    <3> HIDE DEF s
    <3>4. SameNative(Ended(s), loop[k])
      BY <3>3, EndedType DEF SameNative
    <3>5. SameNative(loop'[l], loop[l])
      BY <2>1, <3>1, <3>4 DEF SameNative
    <3> QED
      BY <3>5, PlainAlone
  <2>11. ASSUME NEW k \in Loops, DrainReturn(k)
         PROVE  LeftAlone(l)
    <3>1. NextCall("drain", k)
      BY <2>11 DEF DrainReturn
    <3>2. Runs(k)
      BY <2>3, <3>1 DEF Runs
    <3> DEFINE r == [loop[k] EXCEPT !.stopping = FALSE, !.native = @]
    <3>3. loop' = [loop EXCEPT ![k] = r] /\ loop[k] \in LoopType
      BY <1>1, <2>1, <2>11 DEF DrainReturn
    <3>4. /\ r.native = loop[k].native /\ r.active = loop[k].active
          /\ r.inactive = loop[k].inactive /\ r.closing = loop[k].closing
      BY <3>3 DEF LoopType
    <3> HIDE DEF r
    <3> QED
      BY <2>1, <3>2, <3>3, <3>4 DEF LeftAlone, Handles
  <2>12. ASSUME NEW k \in Loops, LoopStep(k)
         PROVE  LeftAlone(l)
    <3>1. Executing(k)
      BY <2>12 DEF LoopStep
    <3>2. CASE k = l
      <4>1. loop'[l].native = loop[l].native /\ loop'[l].stopping = loop[l].stopping
        BY <2>1, <2>12, <3>2 DEF LoopStep, LoopType
      <4> QED
        BY <3>1, <3>2, <4>1 DEF LeftAlone
    <3>3. CASE k # l
      <4>1. loop'[l] = loop[l]
        BY <2>1, <2>12, <3>3 DEF LoopStep
      <4> QED
        BY <4>1, PlainAlone DEF SameNative
    <3> QED
      BY <3>2, <3>3
  <2>13. ASSUME NEW k \in Loops, DestroyLeftover(k)
         PROVE  LeftAlone(l)
    <3> DEFINE r == [loop[k] EXCEPT !.object = "dying"]
    <3>1. loop' = [loop EXCEPT ![k] = r] /\ loop[k] \in LoopType
      BY <2>1, <2>13 DEF DestroyLeftover
    <3>2. SameNative(r, loop[k])
      BY <3>1 DEF LoopType, SameNative
    <3> HIDE DEF r
    <3>3. SameNative(loop'[l], loop[l])
      BY <2>1, <3>1, <3>2 DEF SameNative
    <3> QED
      BY <3>3, PlainAlone
  <2>14. CASE RequestShutdown
    <3>1. NextCall("request_shutdown", NoLoop)
      BY <2>14 DEF RequestShutdown, Shutdown
    <3>2. Tail(stack) \in Seq(CallType) /\ <<ToClear>> \o Tail(stack) \in Seq(CallType)
      BY <2>3, <3>1, CallTypes, CallsJoined
    <3> QED
      BY <2>8, <2>14, <3>2 DEF RequestShutdown, Shutdown, ToClear
  <2>15. CASE Unwind
    BY <2>4, <2>7, <2>9, <2>10, <2>14, <2>15 DEF Unwind, ModuleClear
  <2>16. CASE Make
    BY <2>2, <2>4, <2>16, <1>1
    DEF Make, LoopInit, DefaultLoop, LockInit, LockDestruct, LockDestructWith, DestructSet
  <2>17. ASSUME NEW k \in Loops, Use(k)
         PROVE  LeftAlone(l)
    BY <2>2, <2>5, <2>17
    DEF Use, MoveHandle, RunBegin, Stop, Close, Delete, CallDestroyed
  <2>18. ASSUME NEW k \in Loops, Running(k)
         PROVE  LeftAlone(l)
    BY <2>6, <2>11, <2>12, <2>18 DEF Running
  <2>19. CASE End
    BY <2>4, <2>13, <2>19 DEF End, ScriptEnd, RequestEnd
  <2>20. CASE UNCHANGED vars
    BY <2>4, <2>20 DEF vars
  <2> QED
    BY <1>1, <2>15, <2>16, <2>17, <2>18, <2>19, <2>20 DEF Next
<1>2. IInv /\ [Next]_vars => [~ext.ffi => \A l \in Loops : LeftAlone(l)]_vars
  BY <1>1
<1> QED
  BY <1>2, Inductive, PTL DEF Spec, NoCallAfterClear

------------------------------------------------------------------------------
(* The last loop takes the module with it *)

\* What the destructor of the last loop has led to, until the module is cleared.
Clearing(l) ==
  /\ ext.shutdown_on_request /\ ~ext.destructor_linked
  /\ \A k \in Loops \ {l} : Gone(loop[k])
  /\ \/ NextCall("free", l)
     \/ /\ NextCall("request_shutdown", NoLoop) \/ NextCall("module_clear", NoLoop)
        /\ Gone(loop[l])

\* The innermost call is the one put first.
LEMMA FirstCall ==
  ASSUME NEW c \in CallType, NEW s \in Seq(CallType)
  PROVE  <<c>> \o s # <<>> /\ Head(<<c>> \o s) = c
<1>1. <<c>> \in Seq(CallType) /\ Len(<<c>>) = 1 /\ <<c>>[1] = c
  OBVIOUS
<1>2. <<c>> \o s \in Seq(CallType) /\ Len(<<c>> \o s) = 1 + Len(s)
      /\ (<<c>> \o s)[1] = c
  BY <1>1, ConcatProperties, LenProperties
<1>3. Len(s) \in Nat
  BY LenProperties
<1> QED
  BY <1>2, <1>3

\* Where no loop is alive Settle() destroys none.
LEMMA NothingSettled ==
  ASSUME loop \in [Loops -> LoopType], NEW rest \in Seq(CallType), Settle(loop, rest),
         \A l \in Loops : Gone(loop[l])
  PROVE  loop' = loop /\ stack' = rest
<1>1. {l \in Loops : loop[l].object = "live" /\ References(loop, Calls(rest), l) =< 0} = {}
  BY DEF Gone
<1>2. loop' = [l \in Loops |-> loop[l]]
  BY <1>1 DEF Settle
<1>3. PICK order \in SetToSeqs({}) : stack' = order \o rest
  BY <1>1 DEF Settle
<1>4. order = <<>>
  <2>1. Cardinality({}) = 0
    BY FS_EmptySet
  <2>2. order \in [1 .. 0 -> {}]
    BY <1>3, <2>1 DEF SetToSeqs
  <2> QED
    BY <2>2
<1> QED
  BY <1>2, <1>3, <1>4

\* The program and libuv wait for the calls of the destructors.
LEMMA OnlyUnwinds ==
  ASSUME Next, ~(stack = <<>> \/ InCallback)
  PROVE  Unwind
<1>1. ~CanForget /\ ~Calling /\ ~Program
  BY DEF CanForget, Calling, Program
<1>2. ASSUME NEW n, NEW k, NextCall(n, k), n \in {"run", "drain"}
      PROVE  FALSE
  BY <1>2 DEF NextCall, InCallback, Call
<1>3. ~Make
  BY <1>1 DEF Make, LoopInit, DefaultLoop, LockInit, LockDestruct, LockDestructWith, DestructSet
<1>4. \A l \in Loops : ~Use(l)
  BY <1>1 DEF Use, MoveHandle, RunBegin, Stop, Close, Delete, CallDestroyed, Forget
<1>5. \A l \in Loops : ~Running(l)
  BY <1>2 DEF Running, LoopStep, Executing, RunReturn, RunEnd, DrainReturn
<1>6. ~End
  BY DEF End, ScriptEnd, RequestEnd, DestroyLeftover, GlobalsGone
<1> QED
  BY <1>3, <1>4, <1>5, <1>6 DEF Next

LEMMA ClearingCalls ==
  ASSUME NEW l, Clearing(l)
  PROVE  ~(stack = <<>> \/ InCallback)
<1>1. PICK n \in {"free", "request_shutdown", "module_clear"} : \E k : NextCall(n, k)
  BY DEF Clearing
<1> QED
  BY <1>1 DEF NextCall, InCallback, Call

\* A step of what the destructor led to goes on with it or clears the module.
LEMMA ClearingGoesOn ==
  ASSUME IInv, NEW l \in Loops, Clearing(l), [Next]_vars
  PROVE  Clearing(l)' \/ ext'.uv_exited
<1>1. /\ stack # <<>> /\ stack \in Seq(CallType) /\ loop \in [Loops -> LoopType]
      /\ phase # "crashed"
  BY DEF Clearing, NextCall, IInv
<1>2. Tail(stack) \in Seq(CallType)
  BY <1>1, CallsPopped
<1>3. ModuleTypes /\ (ext.uv_exited <=> ~ext.ffi)
  BY DEF IInv, Module
<1>4. CASE UNCHANGED vars
  BY <1>4 DEF vars, Clearing, Gone, NextCall
<1>5. CASE Next
  <2>1. Unwind
    BY <1>5, OnlyUnwinds, ClearingCalls
  <2>2. ASSUME NEW n, NEW k, NextCall(n, k)
        PROVE  /\ n = "free" => k = l
               /\ n \in {"free", "request_shutdown", "module_clear"}
               /\ n # "free" => Gone(loop[l])
    BY <2>2, SameCall DEF Clearing, NextCall
  <2>3. ASSUME NEW k \in Loops
        PROVE  ~Destruct(k) /\ \A success \in BOOLEAN : ~InitReturn(k, success)
    BY <2>2 DEF Destruct, DestructWith, InitReturn
  <2>4. ASSUME NEW k \in Loops, Free(k)
        PROVE  Clearing(l)' \/ ext'.uv_exited
    <3>1. k = l /\ ext' = ext /\ phase' = phase
      BY <2>2, <2>4 DEF Free, ModuleUnchanged
    <3>2. CASE ext.ffi
      <4>1. stack' = <<ToShutDown>> \o Tail(stack)
        BY <2>4, <3>2 DEF Free, Clearing, ToShutDown
      <4>2. NextCall("request_shutdown", NoLoop)'
        BY <1>1, <1>2, <3>1, <4>1, CallTypes, FirstCall DEF NextCall, ToShutDown
      <4>3. PICK r \in LoopType : r.object = "destroyed" /\ loop' = [loop EXCEPT ![l] = r]
        <5> DEFINE f == \/ loop[l].freed
                        \/ /\ ext.ffi /\ ~loop[l].is_default
                           /\ ~(loop[l].run_called /\ loop[l].close_called)
                   s == [loop[l] EXCEPT !.freed = f]
        <5>1. f \in BOOLEAN /\ loop[l] \in LoopType
          BY <1>1
        <5>2. loop' = [loop EXCEPT ![l] = Ended(s)]
          BY <2>4, <3>1 DEF Free
        <5> HIDE DEF f
        <5>3. s \in LoopType
          BY <5>1 DEF LoopType
        <5> QED
          BY <5>2, <5>3, EndedType
      <4>4. loop'[l].object = "destroyed" /\ \A j \in Loops \ {l} : loop'[j] = loop[j]
        BY <1>1, <4>3
      <4> QED
        BY <3>1, <4>2, <4>4 DEF Clearing, Gone
    <3>3. CASE ~ext.ffi
      BY <1>3, <3>1, <3>3
    <3> QED
      BY <3>2, <3>3
  <2>5. CASE RequestShutdown
    <3>1. NextCall("request_shutdown", NoLoop)
      BY <2>5 DEF RequestShutdown, Shutdown
    <3>2. \A k \in Loops : Gone(loop[k])
      BY <2>2, <3>1 DEF Clearing
    <3>3. ~HasPointer(ext.uv_default)
      BY <1>3, <3>2 DEF HasPointer, Gone, ModuleTypes
    <3>4. ext' = ext /\ phase' = phase
      BY <2>5, <3>3 DEF RequestShutdown, Shutdown
    <3>5. CASE ~ext.uv_exited
      <4>1. Settle(loop, <<ToClear>> \o Tail(stack))
        BY <2>5, <3>3, <3>5 DEF RequestShutdown, Shutdown, Clearing, ToClear
      <4>2. <<ToClear>> \o Tail(stack) \in Seq(CallType)
        BY <1>2, CallTypes, CallsJoined
      <4>3. loop' = loop /\ stack' = <<ToClear>> \o Tail(stack)
        BY <1>1, <3>2, <4>1, <4>2, NothingSettled
      <4>4. NextCall("module_clear", NoLoop)'
        BY <1>1, <1>2, <3>4, <4>3, CallTypes, FirstCall DEF NextCall, ToClear
      <4> QED
        BY <3>2, <3>4, <4>3, <4>4 DEF Clearing
    <3> QED
      BY <3>4, <3>5
  <2>6. CASE ModuleClear
    BY <1>3, <2>6 DEF ModuleClear, ModuleTypes
  <2> QED
    BY <2>1, <2>3, <2>4, <2>5, <2>6 DEF Unwind
<1> QED
  BY <1>4, <1>5

\* With uv_destruct_set() the last loop takes the module with it, provided that
\* calls return: that they do, under fairness, is what the runs check.  What the
\* destructor of the loop puts on the stack does not come off it before
\* module_clear() is called.
THEOREM LastLoopClears == Spec /\ CallsReturn => ClearsWithLastLoop
<1> DEFINE Alone == \E l \in Loops : LastLoop(l)
           Under == \E l \in Loops : Clearing(l)
           Idle == stack = <<>> \/ InCallback
<1>1. Alone => Under
  BY DEF LastLoop, Clearing, Gone
<1>2. IInv /\ Under /\ [Next]_vars => Under' \/ (ext.uv_exited)'
  BY ClearingGoesOn
<1>3. Under => ~Idle
  BY ClearingCalls
<1>4. CallsReturn <=> []<>Idle
  BY PTL DEF CallsReturn
<1> HIDE DEF Idle
<1> QED
  BY <1>1, <1>2, <1>3, <1>4, Inductive, PTL DEF Spec, ClearsWithLastLoop

------------------------------------------------------------------------------
(* Calls come to an end *)

\* Where the calls by one of the names T are on a stack.
At(s, T) == {i \in 1 .. Len(s) : s[i].call \in T}

\* What a call weighs: a destructor runs its loop and goes on, then it may call
\* for request_shutdown(), which may call for module_clear().
Weight(s) ==
  Len(s) + Cardinality(At(s, {"destruct", "free", "request_shutdown"}))
         + Cardinality(At(s, {"destruct", "free"}))
         + 2 * Cardinality(At(s, {"destruct"}))

Rank(c) ==
  1 + One(c.call \in {"destruct", "free", "request_shutdown"})
    + One(c.call \in {"destruct", "free"}) + 2 * One(c.call \in {"destruct"})

\* A bound on the calls there will be: each loop that is alive may still be
\* destroyed.
CallsLeft == Weight(stack) + 5 * Cardinality(Leftovers)

\* The places on two stacks, one on top of the other.
LEMMA PlacesJoined ==
  ASSUME NEW s \in Seq(CallType), NEW t \in Seq(CallType), NEW T
  PROVE  /\ Cardinality(At(s, T)) \in Nat /\ Cardinality(At(t, T)) \in Nat
         /\ Cardinality(At(s \o t, T)) = Cardinality(At(s, T)) + Cardinality(At(t, T))
<1> DEFINE n == Len(s)
           u == s \o t
           A == At(s, T)
           B == At(t, T)
           M == {i + n : i \in B}
<1>1. /\ n \in Nat /\ Len(t) \in Nat /\ Len(u) = n + Len(t)
      /\ \A i \in 1 .. n + Len(t) : u[i] = IF i =< n THEN s[i] ELSE t[i - n]
  BY ConcatProperties, LenProperties
<1> HIDE DEF n, u
<1>2. IsFiniteSet(A) /\ Cardinality(A) \in Nat /\ A \subseteq 1 .. n
  <2>1. IsFiniteSet(1 .. n) /\ A \subseteq 1 .. n
    BY <1>1, FS_Interval DEF At, n
  <2> QED
    BY <2>1, FS_Subset, FS_CardinalityType
<1>3. IsFiniteSet(B) /\ Cardinality(B) \in Nat /\ B \subseteq 1 .. Len(t)
  <2>1. IsFiniteSet(1 .. Len(t)) /\ B \subseteq 1 .. Len(t)
    BY <1>1, FS_Interval DEF At
  <2> QED
    BY <2>1, FS_Subset, FS_CardinalityType
<1>4. IsFiniteSet(M) /\ Cardinality(M) = Cardinality(B)
  <2> DEFINE f == [i \in B |-> i + n]
  <2>1. B \subseteq Nat
    BY <1>1, <1>3
  <2>2. f \in Bijection(B, M)
    BY <1>1, <2>1 DEF Bijection, Injection, Surjection, IsInjective
  <2>3. ExistsBijection(B, M)
    BY <2>2 DEF ExistsBijection
  <2> QED
    BY <1>3, <2>3, FS_Bijection
<1>5. At(u, T) = A \cup M
  <2>1. ASSUME NEW j \in At(u, T)
        PROVE  j \in A \cup M
    <3>1. j \in 1 .. n + Len(t) /\ u[j].call \in T
      BY <1>1 DEF At
    <3>2. CASE j =< n
      BY <1>1, <3>1, <3>2 DEF At, n
    <3>3. CASE ~(j =< n)
      <4>1. j - n \in 1 .. Len(t) /\ u[j] = t[j - n]
        BY <1>1, <3>1, <3>3
      <4>2. j - n \in B /\ j = (j - n) + n
        BY <1>1, <3>1, <4>1 DEF At
      <4> QED
        BY <4>2
    <3> QED
      BY <3>2, <3>3
  <2>2. ASSUME NEW j \in A
        PROVE  j \in At(u, T)
    <3>1. j \in 1 .. n + Len(t) /\ j =< n /\ s[j].call \in T
      BY <1>1, <1>2 DEF At
    <3> QED
      BY <1>1, <3>1 DEF At
  <2>3. ASSUME NEW i \in B
        PROVE  i + n \in At(u, T)
    <3>1. i \in 1 .. Len(t) /\ t[i].call \in T
      BY DEF At
    <3>2. i + n \in 1 .. n + Len(t) /\ ~(i + n =< n) /\ (i + n) - n = i
      BY <1>1, <3>1
    <3>3. u[i + n] = t[i]
      BY <1>1, <3>2
    <3> QED
      BY <1>1, <3>1, <3>2, <3>3 DEF At
  <2> QED
    BY <2>1, <2>2, <2>3
<1>6. A \cap M = {}
  BY <1>1, <1>2, <1>3
<1> HIDE DEF A, B, M
<1>7. Cardinality(A \cup M) = Cardinality(A) + Cardinality(M) - Cardinality(A \cap M)
  BY <1>2, <1>4, FS_Union
<1>8. Cardinality(A \cap M) = 0
  BY <1>6, FS_EmptySet
<1> QED
  BY <1>2, <1>3, <1>4, <1>5, <1>7, <1>8 DEF A, B, u

\* A stack weighs what its parts do.
LEMMA WeightJoined ==
  ASSUME NEW s \in Seq(CallType), NEW t \in Seq(CallType)
  PROVE  Weight(s) \in Nat /\ Weight(t) \in Nat /\ Weight(s \o t) = Weight(s) + Weight(t)
<1> DEFINE Two == {"destruct", "free", "request_shutdown"}
           Three == {"destruct", "free"}
           Five == {"destruct"}
           u == s \o t
<1>1. Len(s) \in Nat /\ Len(t) \in Nat /\ Len(u) = Len(s) + Len(t)
  BY ConcatProperties, LenProperties
<1>2. /\ Cardinality(At(s, Two)) \in Nat /\ Cardinality(At(t, Two)) \in Nat
      /\ Cardinality(At(u, Two)) = Cardinality(At(s, Two)) + Cardinality(At(t, Two))
  BY PlacesJoined
<1>3. /\ Cardinality(At(s, Three)) \in Nat /\ Cardinality(At(t, Three)) \in Nat
      /\ Cardinality(At(u, Three)) = Cardinality(At(s, Three)) + Cardinality(At(t, Three))
  BY PlacesJoined
<1>4. /\ Cardinality(At(s, Five)) \in Nat /\ Cardinality(At(t, Five)) \in Nat
      /\ Cardinality(At(u, Five)) = Cardinality(At(s, Five)) + Cardinality(At(t, Five))
  BY PlacesJoined
<1> DEFINE n(v) == Len(v)
           a(v) == Cardinality(At(v, Two))
           b(v) == Cardinality(At(v, Three))
           c(v) == Cardinality(At(v, Five))
<1>5. \A v : Weight(v) = n(v) + a(v) + b(v) + 2 * c(v)
  BY DEF Weight
<1>6. n(s) \in Nat /\ a(s) \in Nat /\ b(s) \in Nat /\ c(s) \in Nat
  BY <1>1, <1>2, <1>3, <1>4
<1>7. n(t) \in Nat /\ a(t) \in Nat /\ b(t) \in Nat /\ c(t) \in Nat
  BY <1>1, <1>2, <1>3, <1>4
<1>8. n(u) = n(s) + n(t) /\ a(u) = a(s) + a(t) /\ b(u) = b(s) + b(t) /\ c(u) = c(s) + c(t)
  BY <1>1, <1>2, <1>3, <1>4
<1> HIDE DEF u, n, a, b, c
<1>9. Weight(s) \in Nat
  BY <1>5, <1>6
<1>10. Weight(t) \in Nat
  BY <1>5, <1>7
<1>11. Weight(u) = Weight(s) + Weight(t)
  <2>1. Weight(u) = (n(s) + n(t)) + (a(s) + a(t)) + (b(s) + b(t)) + 2 * (c(s) + c(t))
    BY <1>5, <1>8
  <2>2. PICK n1, a1, b1, c1 \in Nat : n(s) = n1 /\ a(s) = a1 /\ b(s) = b1 /\ c(s) = c1
    BY <1>6
  <2>3. PICK n2, a2, b2, c2 \in Nat : n(t) = n2 /\ a(t) = a2 /\ b(t) = b2 /\ c(t) = c2
    BY <1>7
  <2>4. Weight(u) = (n1 + n2) + (a1 + a2) + (b1 + b2) + 2 * (c1 + c2)
    BY <2>1, <2>2, <2>3
  <2>5. Weight(s) = n1 + a1 + b1 + 2 * c1 /\ Weight(t) = n2 + a2 + b2 + 2 * c2
    BY <1>5, <2>2, <2>3
  <2> QED
    BY <2>4, <2>5
<1> QED
  BY <1>9, <1>10, <1>11 DEF u

\* A stack of one call weighs what the call does, the empty one nothing.
LEMMA WeightOne ==
  ASSUME NEW c
  PROVE  Weight(<<c>>) = Rank(c)
<1>1. ASSUME NEW T
      PROVE  Cardinality(At(<<c>>, T)) = One(c.call \in T)
  <2>1. At(<<c>>, T) = IF c.call \in T THEN {1} ELSE {}
    BY DEF At
  <2> QED
    BY <2>1, FS_EmptySet, FS_Singleton DEF One
<1>2. Len(<<c>>) = 1
  OBVIOUS
<1> QED
  BY <1>1, <1>2 DEF Weight, Rank

LEMMA WeightPut ==
  ASSUME NEW c \in CallType, NEW t \in Seq(CallType)
  PROVE  /\ Weight(t) \in Nat /\ Rank(c) \in Nat \ {0}
         /\ <<c>> \o t \in Seq(CallType) /\ Weight(<<c>> \o t) = Rank(c) + Weight(t)
<1> DEFINE s == <<c>>
<1>1. s \in Seq(CallType) /\ Weight(s) = Rank(c)
  BY WeightOne
<1>2. Rank(c) \in Nat \ {0}
  BY DEF Rank, One
<1> HIDE DEF s
<1>3. Weight(t) \in Nat /\ s \o t \in Seq(CallType) /\ Weight(s \o t) = Weight(s) + Weight(t)
  BY <1>1, WeightJoined, ConcatProperties
<1> QED
  BY <1>1, <1>2, <1>3 DEF s

\* The destructors weigh five each, in whatever order they are called.
LEMMA WeightDestructors ==
  ASSUME NEW D \in SUBSET Loops, NEW order \in SetToSeqs({Call("destruct", l) : l \in D})
  PROVE  Weight(order) = 5 * Cardinality(D)
<1> DEFINE S == {Call("destruct", l) : l \in D}
<1>1. IsFiniteSet(D)
  BY LoopAssumption, FS_Subset DEF LoopAssumption
<1>2. IsFiniteSet(S) /\ Cardinality(S) = Cardinality(D)
  <2> DEFINE f == [l \in D |-> Call("destruct", l)]
  <2>1. f \in Bijection(D, S)
    BY SameCall DEF Bijection, Injection, Surjection, IsInjective
  <2>2. ExistsBijection(D, S)
    BY <2>1 DEF ExistsBijection
  <2> QED
    BY <1>1, <2>2, FS_Bijection
<1>3. Cardinality(S) \in Nat
  BY <1>2, FS_CardinalityType
<1>4. order \in [1 .. Cardinality(S) -> S] /\ order \in Seq(CallType)
  BY OrderOfDestructors DEF SetToSeqs
<1>5. Len(order) = Cardinality(S)
  <2>1. Len(order) \in Nat /\ DOMAIN order = 1 .. Len(order)
    BY <1>4, LenProperties
  <2>2. DOMAIN order = 1 .. Cardinality(S)
    BY <1>4
  <2>3. \A n \in Nat : Cardinality(1 .. n) = n
    BY FS_Interval
  <2> QED
    BY <1>3, <2>1, <2>2, <2>3
<1>6. ASSUME NEW T, "destruct" \in T
      PROVE  Cardinality(At(order, T)) = Cardinality(S)
  <2>1. \A i \in 1 .. Len(order) : order[i].call = "destruct"
    BY <1>4, <1>5 DEF Call
  <2>2. At(order, T) = 1 .. Cardinality(S)
    BY <1>5, <1>6, <2>1 DEF At
  <2> QED
    BY <1>3, <2>2, FS_Interval
<1> HIDE DEF S
<1>7. Weight(order) = Cardinality(S) + Cardinality(S) + Cardinality(S) + 2 * Cardinality(S)
  BY <1>5, <1>6 DEF Weight
<1> QED
  BY <1>2, <1>3, <1>7

\* The loops that are left are finitely many.
LEMMA FewLeft ==
  ASSUME NEW D \in SUBSET Loops
  PROVE  IsFiniteSet(D) /\ Cardinality(D) \in Nat
  BY LoopAssumption, FS_Subset, FS_CardinalityType DEF LoopAssumption

\* A loop that Settle() destroys is not left, and its destructor is called: that
\* weighs the same.
LEMMA SettleWeighs ==
  ASSUME loop \in [Loops -> LoopType], NEW L \in [Loops -> LoopType],
         NEW rest \in Seq(CallType), Settle(L, rest),
         \A l \in Loops : L[l].object = loop[l].object
  PROVE  /\ Weight(rest) \in Nat /\ Weight(stack') \in Nat
         /\ Cardinality(Leftovers) \in Nat /\ Cardinality(Leftovers') \in Nat
         /\ Weight(stack') + 5 * Cardinality(Leftovers') = Weight(rest) + 5 * Cardinality(Leftovers)
<1> DEFINE D == {l \in Loops : Dies(L, Calls(rest), l)}
<1>1. \A l \in Loops : loop'[l] = IF l \in D THEN [L[l] EXCEPT !.object = "dying"] ELSE L[l]
  BY SettleStep
<1>2. PICK order \in SetToSeqs({Call("destruct", l) : l \in D}) : stack' = order \o rest
  BY DEF Settle, Dies
<1>3. D \subseteq Leftovers
  BY DEF Dies, Leftovers
<1> HIDE DEF D
<1>4. Leftovers' = Leftovers \ D
  <2>1. ASSUME NEW l \in Loops
        PROVE  loop'[l].object = "live" <=> loop[l].object = "live" /\ l \notin D
    <3>1. L[l] \in LoopType
      OBVIOUS
    <3> QED
      BY <1>1, <3>1 DEF LoopType
  <2> QED
    BY <2>1 DEF Leftovers
<1>5. /\ IsFiniteSet(Leftovers) /\ Cardinality(Leftovers) \in Nat
      /\ IsFiniteSet(D) /\ Cardinality(D) \in Nat
      /\ IsFiniteSet(Leftovers \ D) /\ Cardinality(Leftovers \ D) \in Nat
  <2>1. Leftovers \subseteq Loops
    BY DEF Leftovers
  <2>2. D \subseteq Loops /\ Leftovers \ D \subseteq Loops
    BY <1>3, <2>1
  <2> QED
    BY <2>1, <2>2, FewLeft
<1>6. Cardinality(Leftovers \ D) = Cardinality(Leftovers) - Cardinality(D)
  <2>1. Cardinality(Leftovers \ D) = Cardinality(Leftovers) - Cardinality(Leftovers \cap D)
    BY <1>5, FS_Difference
  <2>2. Leftovers \cap D = D
    BY <1>3
  <2> QED
    BY <2>1, <2>2
<1>7. D \in SUBSET Loops
  BY <1>3 DEF Leftovers
<1>8. order \in Seq(CallType) /\ Weight(order) = 5 * Cardinality(D)
  BY <1>2, <1>7, OrderOfDestructors, WeightDestructors
<1>9. /\ Weight(rest) \in Nat /\ Weight(order) \in Nat
      /\ Weight(stack') = Weight(order) + Weight(rest)
  BY <1>2, <1>8, WeightJoined
<1>10. /\ Cardinality(Leftovers') \in Nat
       /\ Cardinality(Leftovers') = Cardinality(Leftovers) - Cardinality(D)
  BY <1>4, <1>5, <1>6
<1>11. Weight(stack') \in Nat /\ Weight(stack') = 5 * Cardinality(D) + Weight(rest)
  BY <1>5, <1>8, <1>9
<1> QED
  BY <1>5, <1>9, <1>10, <1>11

\* The call on top of the stack, and the others.
LEMMA WeightPopped ==
  ASSUME NEW n, NEW l, NextCall(n, l), stack \in Seq(CallType)
  PROVE  /\ Tail(stack) \in Seq(CallType) /\ Weight(Tail(stack)) \in Nat
         /\ Weight(stack) = Rank(Call(n, l)) + Weight(Tail(stack))
         /\ Rank(Call(n, l)) \in Nat \ {0}
<1> DEFINE t == Tail(stack)
           c == Call(n, l)
<1>1. stack # <<>> /\ Head(stack) = c
  BY DEF NextCall
<1>2. t \in Seq(CallType) /\ c \in CallType
  BY <1>1, CallsPopped
<1>3. /\ Len(stack) = Len(t) + 1 /\ stack[1] = c /\ Len(t) \in Nat
      /\ \A i \in 1 .. Len(t) : t[i] = stack[i + 1]
  BY <1>1, <1>2, HeadTailProperties, LenProperties, EmptySeq
<1> DEFINE s == <<c>>
<1>4. s \in Seq(CallType) /\ Len(s) = 1 /\ s[1] = c
  BY <1>2
<1> HIDE DEF s, t, c
<1>5. s \o t = stack
  <2>1. /\ s \o t \in Seq(CallType) /\ Len(s \o t) = Len(s) + Len(t)
        /\ \A i \in 1 .. Len(s) + Len(t) :
             (s \o t)[i] = IF i =< Len(s) THEN s[i] ELSE t[i - Len(s)]
    BY <1>2, <1>4, ConcatProperties
  <2>2. ASSUME NEW i \in 1 .. Len(stack)
        PROVE  (s \o t)[i] = stack[i]
    <3>1. i \in 1 .. 1 + Len(t)
      BY <1>3
    <3>2. CASE i = 1
      BY <1>3, <1>4, <2>1, <3>1, <3>2
    <3>3. CASE i # 1
      <4>1. i - 1 \in 1 .. Len(t) /\ ~(i =< 1) /\ (i - 1) + 1 = i
        BY <1>3, <3>1, <3>3
      <4> QED
        BY <1>3, <1>4, <2>1, <3>1, <4>1
    <3> QED
      BY <3>2, <3>3
  <2>3. Len(s \o t) = Len(stack)
    BY <1>3, <1>4, <2>1
  <2> QED
    BY <2>1, <2>2, <2>3, SeqEqual
<1>6. Weight(t) \in Nat /\ Weight(stack) = Rank(c) + Weight(t) /\ Rank(c) \in Nat \ {0}
  BY <1>2, <1>5, WeightPut DEF s
<1> QED
  BY <1>2, <1>6 DEF t, c

LEMMA Ranks ==
  /\ Rank(ToClear) = 1 /\ Rank(ToShutDown) = 2
  /\ \A l : /\ Rank(Call("destruct", l)) = 5 /\ Rank(Call("free", l)) = 3
            /\ Rank(Call("drain", l)) = 1 /\ Rank(Call("init", l)) = 1
  BY DEF Rank, One, ToClear, ToShutDown, Call

\* Each call that is made leaves fewer to be made.
LEMMA CallsFewer ==
  ASSUME IInv, Unwind
  PROVE  CallsLeft \in Nat /\ CallsLeft' \in Nat /\ CallsLeft' < CallsLeft
<1> DEFINE t == Tail(stack)
           Fewer == CallsLeft \in Nat /\ CallsLeft' \in Nat /\ CallsLeft' < CallsLeft
<1>1. stack \in Seq(CallType) /\ loop \in [Loops -> LoopType]
  BY DEF IInv
<1>2. ASSUME NEW n, NEW l, NextCall(n, l)
      PROVE  /\ t \in Seq(CallType) /\ Weight(t) \in Nat
             /\ Weight(stack) = Rank(Call(n, l)) + Weight(t)
  BY <1>1, <1>2, WeightPopped
<1> HIDE DEF t
<1>3. Cardinality(Leftovers) \in Nat
  <2>1. Leftovers \in SUBSET Loops
    BY DEF Leftovers
  <2> QED
    BY <2>1, FewLeft
\* A step that destroys no other loop and calls for less than it was.
<1>4. ASSUME NEW m \in Nat, NEW k \in Nat, Weight(stack) \in Nat, Weight(stack) = k + Weight(t),
             Weight(t) \in Nat, Weight(stack') = m + Weight(t), m < k, Leftovers' = Leftovers
      PROVE  Fewer
  <2>1. Cardinality(Leftovers') = Cardinality(Leftovers)
    BY <1>4
  <2> QED
    BY <1>3, <1>4, <2>1 DEF CallsLeft
\* One that settles the loops.
<1>5. ASSUME NEW L \in [Loops -> LoopType], NEW rest \in Seq(CallType), Settle(L, rest),
             \A l \in Loops : L[l].object = loop[l].object,
             Weight(stack) \in Nat, Weight(rest) < Weight(stack)
      PROVE  Fewer
  <2>1. /\ Weight(rest) \in Nat /\ Weight(stack') \in Nat
        /\ Cardinality(Leftovers') \in Nat
        /\ Weight(stack') + 5 * Cardinality(Leftovers') = Weight(rest) + 5 * Cardinality(Leftovers)
    BY <1>1, <1>5, SettleWeighs
  <2> QED
    BY <1>3, <1>5, <2>1 DEF CallsLeft
<1>6. ASSUME NEW l \in Loops, NEW r \in LoopType, loop' = [loop EXCEPT ![l] = r],
             r.object # "live", loop[l].object # "live"
      PROVE  Leftovers' = Leftovers
  BY <1>1, <1>6 DEF Leftovers
<1>7. ASSUME NEW l \in Loops, Destruct(l)
      PROVE  Fewer
  <2>1. NextCall("destruct", l) /\ ext' = ext
    BY <1>7 DEF Destruct, DestructWith, ModuleUnchanged
  <2>2. /\ t \in Seq(CallType) /\ Weight(t) \in Nat
        /\ Weight(stack) = 5 + Weight(t) /\ Weight(stack) \in Nat
    BY <1>2, <2>1, Ranks
  <2>3. loop[l] \in LoopType /\ loop[l].object # "live"
    <3>1. Call("destruct", l) \in Calls(stack)
      BY <1>1, <2>1, CallsPopped DEF NextCall
    <3> QED
      BY <3>1 DEF IInv, Holds, Ending
  <2>4. Leftovers' = Leftovers
    <3>1. CASE loop' = loop
      BY <3>1 DEF Leftovers
    <3>2. CASE loop' = [loop EXCEPT ![l] = Drained(@)]
      BY <1>1, <1>6, <2>3, <3>2, DrainedType
    <3>3. CASE loop' = [loop EXCEPT ![l] = Ended(@)]
      BY <1>1, <1>6, <2>3, <3>3, EndedType
    <3> QED
      BY <1>7, <3>1, <3>2, <3>3 DEF Destruct, DestructWith
  <2>5. Call("free", l) \in CallType /\ Call("drain", l) \in CallType
    BY CallTypes
  <2>6. CASE stack' = t
    <3>1. Weight(stack') = 0 + Weight(t)
      BY <2>2, <2>6
    <3> QED
      BY <1>4, <2>2, <2>4, <3>1
  <2>7. CASE stack' = <<Call("free", l)>> \o t
    <3>1. Weight(stack') = 3 + Weight(t)
      BY <2>2, <2>5, <2>7, WeightPut, Ranks
    <3> QED
      BY <1>4, <2>2, <2>4, <3>1
  <2>8. CASE stack' = <<Call("drain", l), Call("free", l)>> \o t
    <3> DEFINE u == <<Call("free", l)>> \o t
    <3>1. stack' = <<Call("drain", l)>> \o u
      BY <2>2, <2>5, <2>8, TwoPushed
    <3>2. u \in Seq(CallType) /\ Weight(u) = 3 + Weight(t)
      BY <2>2, <2>5, WeightPut, Ranks
    <3> HIDE DEF u
    <3>3. Weight(stack') = 4 + Weight(t)
      BY <2>2, <2>5, <3>1, <3>2, WeightPut, Ranks
    <3> QED
      BY <1>4, <2>2, <2>4, <3>3
  <2> QED
    BY <1>7, <2>6, <2>7, <2>8 DEF Destruct, DestructWith, t
<1>8. ASSUME NEW l \in Loops, Free(l)
      PROVE  Fewer
  <2>1. NextCall("free", l)
    BY <1>8 DEF Free
  <2>2. /\ t \in Seq(CallType) /\ Weight(t) \in Nat
        /\ Weight(stack) = 3 + Weight(t) /\ Weight(stack) \in Nat
    BY <1>2, <2>1, Ranks
  <2>3. loop[l] \in LoopType /\ loop[l].object # "live"
    <3>1. Call("free", l) \in Calls(stack)
      BY <1>1, <2>1, CallsPopped DEF NextCall
    <3> QED
      BY <3>1 DEF IInv, Holds, Ending
  <2>4. Leftovers' = Leftovers
    <3> DEFINE f == \/ loop[l].freed
                    \/ /\ ext.ffi /\ ~loop[l].is_default
                       /\ ~(loop[l].run_called /\ loop[l].close_called)
               s == [loop[l] EXCEPT !.freed = f]
    <3>1. f \in BOOLEAN
      OBVIOUS
    <3>2. loop' = [loop EXCEPT ![l] = Ended(s)]
      BY <1>8 DEF Free
    <3> HIDE DEF f
    <3>3. s \in LoopType
      BY <2>3, <3>1 DEF LoopType
    <3> QED
      BY <1>6, <2>3, <3>2, <3>3, EndedType
  <2>5. CASE stack' = <<>> \o t
    <3>1. stack' = t
      BY <2>2, <2>5, ConcatEmptySeq
    <3>2. Weight(stack') = 0 + Weight(t)
      BY <2>2, <3>1
    <3> QED
      BY <1>4, <2>2, <2>4, <3>2
  <2>6. CASE stack' = <<ToShutDown>> \o t
    <3>1. Weight(stack') = 2 + Weight(t)
      BY <2>2, <2>6, CallTypes, WeightPut, Ranks
    <3> QED
      BY <1>4, <2>2, <2>4, <3>1
  <2> QED
    BY <1>8, <2>5, <2>6 DEF Free, ToShutDown, t
<1>9. ASSUME NEW l \in Loops, NEW success \in BOOLEAN, InitReturn(l, success)
      PROVE  Fewer
  <2>1. NextCall("init", l)
    BY <1>9 DEF InitReturn
  <2>2. /\ t \in Seq(CallType) /\ Weight(t) \in Nat
        /\ Weight(stack) = 1 + Weight(t) /\ Weight(stack) \in Nat
    BY <1>2, <2>1, Ranks
  <2>3. loop[l] \in LoopType
    BY <1>1
  <2>4. PICK n \in {"none", "open", "closed", "deleted"} :
          n = IF success THEN "open" ELSE loop[l].native
    BY <2>3 DEF LoopType
  <2> DEFINE r == [loop[l] EXCEPT !.held = success, !.native = n]
             L == [loop EXCEPT ![l] = r]
  <2>5. Settle(L, t)
    BY <1>9, <2>4 DEF InitReturn, t
  <2>6. r \in LoopType /\ r.object = loop[l].object
    BY <2>3 DEF LoopType
  <2> HIDE DEF r
  <2>7. L \in [Loops -> LoopType] /\ \A k \in Loops : L[k].object = loop[k].object
    BY <1>1, <2>6
  <2> HIDE DEF L
  <2>8. Weight(t) < Weight(stack)
    BY <2>2
  <2> QED
    BY <1>5, <2>2, <2>5, <2>7, <2>8
<1>10. CASE RequestShutdown
  <2>1. NextCall("request_shutdown", NoLoop)
    BY <1>10 DEF RequestShutdown, Shutdown
  <2>2. /\ t \in Seq(CallType) /\ Weight(t) \in Nat
        /\ Weight(stack) = 2 + Weight(t) /\ Weight(stack) \in Nat
    BY <1>2, <2>1, Ranks DEF ToShutDown
  <2>3. PICK rest \in {t, <<ToClear>> \o t} : Settle(loop, rest)
    BY <1>10 DEF RequestShutdown, Shutdown, ToClear, t
  <2>4. rest \in Seq(CallType) /\ Weight(rest) < Weight(stack)
    <3>1. CASE rest = t
      BY <2>2, <3>1
    <3>2. CASE rest = <<ToClear>> \o t
      <4>1. rest \in Seq(CallType) /\ Weight(rest) = 1 + Weight(t)
        BY <2>2, <3>2, CallTypes, WeightPut, Ranks
      <4> QED
        BY <2>2, <4>1
    <3> QED
      BY <2>3, <3>1, <3>2
  <2> QED
    BY <1>1, <1>5, <2>2, <2>3, <2>4
<1>11. CASE ModuleClear
  <2>1. NextCall("module_clear", NoLoop) /\ stack' = t /\ Leftovers' = Leftovers
    BY <1>11 DEF ModuleClear, Leftovers, t
  <2>2. Weight(t) \in Nat /\ Weight(stack) = 1 + Weight(t) /\ Weight(stack) \in Nat
    BY <1>2, <2>1, Ranks DEF ToClear
  <2>3. Weight(stack') = 0 + Weight(t)
    BY <2>1, <2>2
  <2> QED
    BY <1>4, <2>1, <2>2, <2>3
<1> QED
  BY <1>7, <1>8, <1>9, <1>10, <1>11 DEF Unwind

\* Destructors and shutdown functions, which call for each other, do not call for
\* ever, for any number of loops: until the program or a callback goes on every
\* step makes a call, and what that calls for weighs less than it did.
CallsDwindle ==
  [][~(stack = <<>> \/ InCallback) =>
       CallsLeft \in Nat /\ CallsLeft' \in Nat /\ CallsLeft' < CallsLeft]_vars

THEOREM NoCallsForEver == Spec => CallsDwindle
<1>1. IInv /\ [Next]_vars =>
        [~(stack = <<>> \/ InCallback) =>
           CallsLeft \in Nat /\ CallsLeft' \in Nat /\ CallsLeft' < CallsLeft]_vars
  BY OnlyUnwinds, CallsFewer
<1> QED
  BY <1>1, Inductive, PTL DEF Spec, CallsDwindle
==============================================================================
