------------------------------- MODULE Lending -------------------------------
(***************************************************************************)
(* What a wrapper owes a library that works with memory it was lent and    *)
(* that calls back.  A thing, a handle or a request, is lent while the     *)
(* library works with its struct or is going to call with it; it is called *)
(* while a callback about it runs; it is gone when its memory was given    *)
(* back to PHP.                                                            *)
(***************************************************************************)
CONSTANT Things

VARIABLES lent, called, gone

vars == <<lent, called, gone>>

Init == lent = {} /\ called = {} /\ gone = {}

\* Things are lent, taken back and given up, but what is gone stays gone, and
\* nothing goes that the library has or that a callback is about.
Managed ==
  /\ lent' \subseteq Things /\ gone' \subseteq Things
  /\ gone \subseteq gone'
  /\ (lent' \cup called') \cap gone' = {}

\* A callback does not interrupt another, and is about things that were lent
\* until it was called.
Call == called = {} /\ called' \subseteq lent

Return == called' = {}

Next == Managed /\ (Call \/ Return \/ UNCHANGED called)

Spec == Init /\ [][Next]_vars
==============================================================================
