---------------------------- MODULE UVTypesProofs ----------------------------
(***************************************************************************)
(* Proofs about keys and libraries, for any number of objects, libraries   *)
(* and key numbers.  Keys: a number whose owner is a key is nobody else's, *)
(* so what a destructor deletes is its own.  Libraries: what an object has *)
(* open is counted at least once, so no close is one too many.             *)
(***************************************************************************)
EXTENDS UVTypes, FiniteSetTheorems, TLAPS

KeyTypes ==
  /\ key \in [Keys -> [object : Objects \cup {"refused"}, pointer : BOOLEAN, number : Numbers,
                       set : BOOLEAN, deleted : BOOLEAN]]
  /\ owner \in [Numbers -> Keys \cup {Engine, Nobody}]
  /\ stored \in [Numbers -> Keys \cup {Engine, Nobody}]
  /\ ffi \in BOOLEAN
  /\ aborted \in BOOLEAN

\* A key that was not created is as its constructor finds it.
KeyInv ==
  /\ KeyTypes
  /\ \A k \in Keys : key[k].object = "none" => key[k] = NewKey
  /\ KeysKept

LibInv ==
  /\ lib \in [Libs -> [object : Objects, pointer : BOOLEAN, file : Files \cup {NoFile}]]
  /\ loaded \in [Files -> Nat]
  /\ ffi \in BOOLEAN
  /\ \A l \in Libs : lib[l].pointer => lib[l].object = "live" /\ lib[l].file \in Files
  /\ LoadedWhileOpen

------------------------------------------------------------------------------

\* The owner of a number is undisturbed by what happens to another number.
LEMMA KeyStep == KeyInv /\ [Next]_vars => KeyInv'
<1> SUFFICES ASSUME KeyInv, [Next]_vars
             PROVE  KeyInv'
  OBVIOUS
<1>1. ASSUME NEW k \in Keys, NEW n \in Numbers, KeyCreate(k, n)
      PROVE  KeyInv'
  <2>1. KeyTypes'
    BY <1>1 DEF KeyCreate, KeyInv, KeyTypes, NewKey, Objects, NativeDelete, libVars
  <2>2. \A j \in Keys : j # k => key'[j] = key[j]
    BY <1>1 DEF KeyCreate, KeyInv, KeyTypes
  <2>3. key'[k].object # "none"
    BY <1>1 DEF KeyCreate, KeyInv, KeyTypes
  <2>4. KeysKept'
    BY <1>1, <2>2, TypesAssumption DEF TypesAssumption, KeyCreate, KeyInv, KeyTypes, KeysKept,
       KeyUsable, Refused, Deleted, NewKey, Running, NativeDelete, libVars
  <2> QED
    BY <2>1, <2>2, <2>3, <2>4 DEF KeyInv
<1>2. ASSUME NEW k \in Keys, KeyRefused(k)
      PROVE  KeyInv'
  <2>1. KeyTypes'
    BY <1>2 DEF KeyRefused, KeyInv, KeyTypes, NewKey, Objects, NativeDelete, libVars
  <2>2. \A j \in Keys : j # k => key'[j] = key[j]
    BY <1>2 DEF KeyRefused, KeyInv, KeyTypes
  <2>3. key'[k].object # "none"
    BY <1>2 DEF KeyRefused, KeyInv, KeyTypes
  <2>4. KeysKept'
    BY <1>2, <2>2, TypesAssumption DEF TypesAssumption, KeyRefused, KeyInv, KeyTypes, KeysKept,
       KeyUsable, Refused, Deleted, NewKey, Running, NativeDelete, libVars
  <2> QED
    BY <2>1, <2>2, <2>3, <2>4 DEF KeyInv
<1>3. ASSUME NEW k \in Keys, KeySet(k)
      PROVE  KeyInv'
  <2>1. KeyTypes'
    BY <1>3 DEF KeySet, KeyInv, KeyTypes, NewKey, Objects, NativeDelete, libVars
  <2>2. \A j \in Keys : j # k => key'[j] = key[j]
    BY <1>3 DEF KeySet, KeyInv, KeyTypes
  <2>3. key'[k].object # "none"
    BY <1>3 DEF KeySet, KeyUsable, KeyInv, KeyTypes
  <2>4. KeysKept'
    BY <1>3, <2>2, TypesAssumption DEF TypesAssumption, KeySet, KeyInv, KeyTypes, KeysKept,
       KeyUsable, Refused, Deleted, NewKey, Running, NativeDelete, libVars
  <2> QED
    BY <2>1, <2>2, <2>3, <2>4 DEF KeyInv
<1>4. ASSUME NEW k \in Keys, KeyDelete(k)
      PROVE  KeyInv'
  <2>1. KeyTypes'
    BY <1>4 DEF KeyDelete, KeyInv, KeyTypes, NewKey, Objects, NativeDelete, libVars
  <2>2. \A j \in Keys : j # k => key'[j] = key[j]
    BY <1>4 DEF KeyDelete, KeyInv, KeyTypes
  <2>3. key'[k].object # "none"
    BY <1>4 DEF KeyDelete, KeyUsable, KeyInv, KeyTypes
  <2>4. KeysKept'
    BY <1>4, <2>2, TypesAssumption DEF TypesAssumption, KeyDelete, KeyInv, KeyTypes, KeysKept,
       KeyUsable, Refused, Deleted, NewKey, Running, NativeDelete, libVars
  <2> QED
    BY <2>1, <2>2, <2>3, <2>4 DEF KeyInv
<1>5. ASSUME NEW k \in Keys, KeyFree(k)
      PROVE  KeyInv'
  <2>1. KeyTypes'
    BY <1>5 DEF KeyFree, KeyInv, KeyTypes, NewKey, Objects, NativeDelete, libVars
  <2>2. \A j \in Keys : j # k => key'[j] = key[j]
    BY <1>5 DEF KeyFree, KeyInv, KeyTypes
  <2>3. key'[k].object # "none"
    BY <1>5 DEF KeyFree, KeyInv, KeyTypes
  <2>4. KeysKept'
    BY <1>5, <2>2, TypesAssumption DEF TypesAssumption, KeyFree, KeyInv, KeyTypes, KeysKept,
       KeyUsable, Refused, Deleted, NewKey, Running, NativeDelete, libVars
  <2> QED
    BY <2>1, <2>2, <2>3, <2>4 DEF KeyInv
<1>6. ASSUME NEW k \in Keys, KeyDestruct(k)
      PROVE  KeyInv'
  <2>1. KeyTypes'
    BY <1>6 DEF KeyDestruct, KeyInv, KeyTypes, NewKey, Objects, NativeDelete, libVars
  <2>2. \A j \in Keys : j # k => key'[j] = key[j]
    BY <1>6 DEF KeyDestruct, KeyInv, KeyTypes
  <2>3. key'[k].object # "none"
    BY <1>6 DEF KeyDestruct, KeyInv, KeyTypes
  <2>4. KeysKept'
    BY <1>6, <2>2, TypesAssumption DEF TypesAssumption, KeyDestruct, KeyInv, KeyTypes, KeysKept,
       KeyUsable, Refused, Deleted, NewKey, Running, NativeDelete, libVars
  <2> QED
    BY <2>1, <2>2, <2>3, <2>4 DEF KeyInv
<1>7. ASSUME UNCHANGED keyVars, ffi' \in BOOLEAN
      PROVE  KeyInv'
  BY <1>7 DEF keyVars, KeyInv, KeyTypes, KeysKept, KeyUsable, Refused, Deleted
<1>8. ASSUME NEW l \in Libs, \/ \E f \in Files : LibOpen(l, f)
                             \/ LibRefused(l)
                             \/ LibClose(l)
                             \/ LibDestruct(l)
      PROVE  KeyInv'
  BY <1>7, <1>8 DEF LibOpen, LibRefused, LibClose, LibDestruct, LibDestroyed, keyVars, KeyInv,
     KeyTypes
<1>9. CASE Clear
  BY <1>7, <1>9 DEF Clear, keyVars
<1>10. CASE UNCHANGED vars
  BY <1>7, <1>10 DEF vars, keyVars, KeyInv, KeyTypes
<1> QED
  BY <1>1, <1>2, <1>3, <1>4, <1>5, <1>6, <1>8, <1>9, <1>10 DEF Next

------------------------------------------------------------------------------

\* Objects that have a library open are finitely many.
LEMMA OpenedFinite == ASSUME NEW f \in Files
                      PROVE  IsFiniteSet(Opened(f)) /\ Cardinality(Opened(f)) \in Nat
<1>1. IsFiniteSet(Opened(f))
  BY TypesAssumption, FS_Subset DEF TypesAssumption, Opened
<1> QED
  BY <1>1, FS_CardinalityType

\* An object that had its library open and has no longer: one fewer, of that
\* library only.
LEMMA OneFewer ==
  ASSUME LibInv, NEW l \in Libs, lib[l].pointer,
         NEW change, lib' = [lib EXCEPT ![l] = change], ~change.pointer
  PROVE  \A f \in Files :
           Cardinality(Opened(f))' = Cardinality(Opened(f)) - (IF f = lib[l].file THEN 1 ELSE 0)
<1> SUFFICES ASSUME NEW f \in Files
             PROVE  Cardinality(Opened(f))' =
                      Cardinality(Opened(f)) - (IF f = lib[l].file THEN 1 ELSE 0)
  OBVIOUS
<1>1. Opened(f)' = Opened(f) \ {l}
  BY DEF Opened, LibInv
<1>2. f = lib[l].file <=> l \in Opened(f)
  BY DEF Opened, LibInv
<1>3. CASE l \in Opened(f)
  BY <1>1, <1>2, <1>3, OpenedFinite, FS_RemoveElement
<1>4. CASE l \notin Opened(f)
  <2>1. Opened(f)' = Opened(f)
    BY <1>1, <1>4
  <2> QED
    BY <2>1, <1>2, <1>4, OpenedFinite
<1> QED
  BY <1>3, <1>4

\* Opening adds one to both counts, closing takes one from both, and without the
\* FFI instance only the objects go.
LEMMA LibStep == LibInv /\ [Next]_vars => LibInv'
<1> SUFFICES ASSUME LibInv, [Next]_vars
             PROVE  LibInv'
  OBVIOUS
<1>1. ASSUME NEW l \in Libs, NEW f \in Files, LibOpen(l, f)
      PROVE  LibInv'
  <2>1. ASSUME NEW g \in Files
        PROVE  Cardinality(Opened(g))' = Cardinality(Opened(g)) + (IF g = f THEN 1 ELSE 0)
    <3>1. l \notin Opened(g)
      BY <1>1 DEF LibOpen, Opened
    <3>2. CASE g = f
      <4>1. Opened(g)' = Opened(g) \cup {l}
        BY <1>1, <3>2 DEF LibOpen, Opened, LibInv
      <4> QED
        BY <3>1, <3>2, <4>1, OpenedFinite, FS_AddElement
    <3>3. CASE g # f
      <4>1. Opened(g)' = Opened(g)
        BY <1>1, <3>1, <3>3 DEF LibOpen, Opened, LibInv
      <4> QED
        BY <3>3, <4>1, OpenedFinite
    <3> QED
      BY <3>2, <3>3
  <2>2. /\ lib' \in [Libs -> [object : Objects, pointer : BOOLEAN, file : Files \cup {NoFile}]]
        /\ ffi' \in BOOLEAN
        /\ \A k \in Libs : lib'[k].pointer => lib'[k].object = "live" /\ lib'[k].file \in Files
    BY <1>1 DEF LibOpen, LibInv, Objects
  <2>3. loaded' \in [Files -> Nat] /\ LoadedWhileOpen'
    BY <1>1, <2>1, OpenedFinite DEF LibOpen, LibInv, LoadedWhileOpen
  <2> QED
    BY <2>2, <2>3 DEF LibInv
<1>2. ASSUME lib' = lib, loaded' = loaded, ffi' \in BOOLEAN, ffi' => ffi
      PROVE  LibInv'
  BY <1>2 DEF LibInv, LoadedWhileOpen, Opened
<1>3. ASSUME NEW l \in Libs, LibRefused(l)
      PROVE  LibInv'
  <2>1. \A f \in Files : Opened(f)' = Opened(f)
    BY <1>3 DEF LibRefused, Opened, LibInv
  <2> QED
    BY <1>3, <2>1 DEF LibRefused, LibInv, LoadedWhileOpen, Objects
<1>4. ASSUME NEW l \in Libs, lib[l].pointer, ffi' = ffi, NEW change, ~change.pointer,
             change \in [object : Objects, pointer : BOOLEAN, file : Files \cup {NoFile}],
             lib' = [lib EXCEPT ![l] = change], ffi, NativeClose(l)
      PROVE  LibInv'
  <2>1. \A f \in Files :
          Cardinality(Opened(f))' = Cardinality(Opened(f)) - (IF f = lib[l].file THEN 1 ELSE 0)
    BY <1>4, OneFewer
  <2>2. lib[l].file \in Files /\ l \in Opened(lib[l].file)
    BY <1>4 DEF LibInv, Opened
  <2>3. Cardinality(Opened(lib[l].file)) # 0
    BY <2>2, OpenedFinite, FS_EmptySet
  <2>4. loaded' = [loaded EXCEPT ![lib[l].file] = @ - 1]
    BY <1>4 DEF NativeClose
  <2>5. loaded[lib[l].file] \in Nat \ {0}
    BY <2>2, <2>3, OpenedFinite DEF LibInv, LoadedWhileOpen
  <2>6. loaded' \in [Files -> Nat]
    BY <2>2, <2>4, <2>5 DEF LibInv
  <2>7. LoadedWhileOpen'
    BY <1>4, <2>1, <2>2, <2>4, OpenedFinite DEF LibInv, LoadedWhileOpen
  <2> QED
    BY <1>4, <2>6, <2>7 DEF LibInv
<1>5. ASSUME NEW l \in Libs, LibClose(l)
      PROVE  LibInv'
  <2> DEFINE change == [lib[l] EXCEPT !.pointer = FALSE]
  <2>1. /\ change \in [object : Objects, pointer : BOOLEAN, file : Files \cup {NoFile}]
        /\ ~change.pointer
    BY DEF LibInv
  <2>2. lib' = [lib EXCEPT ![l] = change]
    BY <1>5 DEF LibClose
  <2> HIDE DEF change
  <2> QED
    BY <1>4, <1>5, <2>1, <2>2 DEF LibClose
<1>6. ASSUME NEW l \in Libs, LibDestruct(l)
      PROVE  LibInv'
  <2> DEFINE change == [lib[l] EXCEPT !.object = "destroyed", !.pointer = FALSE]
  <2>1. /\ change \in [object : Objects, pointer : BOOLEAN, file : Files \cup {NoFile}]
        /\ ~change.pointer
    BY DEF LibInv, Objects
  <2>2. lib' = [lib EXCEPT ![l] = change]
    BY <1>6 DEF LibDestruct, LibDestroyed
  <2> HIDE DEF change
  <2>3. CASE lib[l].pointer /\ ffi
    BY <1>4, <1>6, <2>1, <2>2, <2>3 DEF LibDestruct, LibDestroyed
  <2>4. CASE ~lib[l].pointer
    <3>1. \A f \in Files : Opened(f)' = Opened(f)
      BY <2>1, <2>2, <2>4 DEF Opened, LibInv
    <3> QED
      BY <1>6, <2>1, <2>2, <2>4, <3>1 DEF LibDestruct, LibDestroyed, LibInv, LoadedWhileOpen
  <2>5. CASE lib[l].pointer /\ ~ffi
    <3>1. \A f \in Files :
            Cardinality(Opened(f))' = Cardinality(Opened(f)) - (IF f = lib[l].file THEN 1 ELSE 0)
      BY <2>1, <2>2, <2>5, OneFewer
    <3>2. loaded' = loaded /\ ffi' = ffi
      BY <1>6, <2>5 DEF LibDestruct, LibDestroyed
    <3>3. LoadedWhileOpen'
      BY <2>5, <3>1, <3>2, OpenedFinite DEF LibInv, LoadedWhileOpen
    <3> QED
      BY <2>1, <2>2, <3>2, <3>3 DEF LibInv
  <2> QED
    BY <2>3, <2>4, <2>5 DEF LibInv
<1>7. ASSUME NEW k \in Keys, \/ \E n \in Numbers : KeyCreate(k, n)
                             \/ KeyRefused(k)
                             \/ KeySet(k)
                             \/ KeyDelete(k)
                             \/ KeyFree(k)
                             \/ KeyDestruct(k)
      PROVE  LibInv'
  BY <1>2, <1>7 DEF LibInv, KeyCreate, KeyRefused, KeySet, KeyDelete, KeyFree, KeyDestruct, libVars
<1>8. CASE Clear
  BY <1>2, <1>8 DEF Clear, libVars
<1>9. CASE UNCHANGED vars
  BY <1>2, <1>9 DEF vars, LibInv
<1> QED
  BY <1>1, <1>3, <1>5, <1>6, <1>7, <1>8, <1>9 DEF Next

------------------------------------------------------------------------------

LEMMA KeysStart == Init => KeyInv
<1> SUFFICES ASSUME Init
             PROVE  KeyInv
  OBVIOUS
<1>1. KeyTypes
  BY TypesAssumption DEF TypesAssumption, Init, InitialOwner, NewKey, KeyTypes, Objects
<1>2. \A k \in Keys : key[k] = NewKey /\ ~key[k].pointer
  BY DEF Init, NewKey
<1>3. KeysKept
  BY <1>2, TypesAssumption DEF TypesAssumption, Init, InitialOwner, KeysKept, KeyUsable
<1> QED
  BY <1>1, <1>2, <1>3 DEF KeyInv

LEMMA LibsStart == Init => LibInv
<1> SUFFICES ASSUME Init
             PROVE  LibInv
  OBVIOUS
<1>1. \A f \in Files : Opened(f) = {}
  BY DEF Init, NewLib, Opened
<1>2. LoadedWhileOpen
  BY <1>1, FS_EmptySet DEF Init, LoadedWhileOpen
<1> QED
  BY <1>2 DEF Init, NewLib, LibInv, Objects

\* Every variable keeps its type; that a library is never closed more often than
\* it was opened is part of it.
THEOREM TypeCorrect == Spec => []TypeOK
<1>1. KeyInv /\ LibInv => TypeOK
  BY DEF KeyInv, KeyTypes, LibInv, TypeOK
<1> QED
  BY <1>1, KeysStart, KeyStep, LibsStart, LibStep, PTL DEF Spec

\* However many keys are created, freed and destroyed in whatever order, no key
\* that is in use, and none that PHP or libuv had, is taken away by another.
THEOREM KeysStay == Spec => []KeysKept
<1>1. KeyInv => KeysKept
  BY DEF KeyInv
<1> QED
  BY <1>1, KeysStart, KeyStep, PTL DEF Spec

\* A library stays loaded as long as an object has it open, and while there is
\* an FFI instance no longer: uv_dlclose(), free() and the destructor close once.
THEOREM LibrariesStay == Spec => []LoadedWhileOpen
<1>1. LibInv => LoadedWhileOpen
  BY DEF LibInv
<1> QED
  BY <1>1, LibsStart, LibStep, PTL DEF Spec
==============================================================================
