------------------------------ MODULE UVTypes ------------------------------
(***************************************************************************)
(* Objects that own something of the operating system through a C struct   *)
(* and have no callbacks: UVKey, a key for thread-local values, and UVLib, *)
(* a shared library.  Both can be given up by a function, by free() and by *)
(* the destructor, in any order; the pointer to the struct tells the       *)
(* destructor whether there is something to give up.                       *)
(*                                                                         *)
(* Keys are numbers of which a process has a limited supply, and which are *)
(* used again; PHP, its extensions and libuv have some of their own.  The  *)
(* program is assumed not to use an object it has given up: libuv would be *)
(* passed a null pointer.                                                  *)
(***************************************************************************)
EXTENDS Integers, FiniteSets

CONSTANTS
  Keys,         \* the UVKey objects a program may create
  Libs,         \* the UVLib objects a program may create
  Files,        \* the shared libraries there are
  NoFile,       \* "nothing was opened"
  Numbers,      \* the key numbers of the process
  Reserved,     \* those that were taken before the program started
  Engine,       \* their owner
  Nobody        \* the owner of a number that is free

ASSUME TypesAssumption ==
  /\ IsFiniteSet(Libs)
  /\ NoFile \notin Files
  /\ 0 \in Numbers /\ Reserved \subseteq Numbers
  /\ Engine # Nobody /\ {Engine, Nobody} \cap Keys = {}

VARIABLES
  key,      \* the UVKey objects, see NewKey
  owner,    \* of each number who has it
  stored,   \* of each number whose value the thread has stored under it
  lib,      \* the UVLib objects, see NewLib
  loaded,   \* of each library how often it was opened and not closed
  ffi,      \* the FFI instance is there: the module was not cleared
  aborted   \* libuv has aborted the process

keyVars == <<key, owner, stored, aborted>>
libVars == <<lib, loaded>>
vars == <<key, owner, stored, lib, loaded, ffi, aborted>>

Objects == {"none", "live", "destroyed"}

\* `pointer` says whether uv_type_ptr is set, `number` is what the struct holds;
\* `set` and `deleted` say whether uv_key_set() and uv_key_delete() were called.
\* An object whose key was refused is dropped at once.
NewKey ==
  [object |-> "none", pointer |-> FALSE, number |-> 0, set |-> FALSE, deleted |-> FALSE]
NewLib == [object |-> "none", pointer |-> FALSE, file |-> NoFile]

TypeOK ==
  /\ key \in [Keys -> [object : Objects \cup {"refused"}, pointer : BOOLEAN, number : Numbers,
                       set : BOOLEAN, deleted : BOOLEAN]]
  /\ owner \in [Numbers -> Keys \cup {Engine, Nobody}]
  /\ stored \in [Numbers -> Keys \cup {Engine, Nobody}]
  /\ lib \in [Libs -> [object : Objects, pointer : BOOLEAN, file : Files \cup {NoFile}]]
  /\ loaded \in [Files -> Nat]
  /\ ffi \in BOOLEAN
  /\ aborted \in BOOLEAN

InitialOwner == [n \in Numbers |-> IF n \in Reserved THEN Engine ELSE Nobody]

Init ==
  /\ key = [k \in Keys |-> NewKey]
  /\ owner = InitialOwner
  /\ stored = InitialOwner
  /\ lib = [l \in Libs |-> NewLib]
  /\ loaded = [f \in Files |-> 0]
  /\ ffi = TRUE
  /\ aborted = FALSE

------------------------------------------------------------------------------
(* Keys *)

Running == ~aborted

\* libuv's uv_key_delete(): the number is free again, and if it was already the
\* process is aborted.
NativeDelete(n) ==
  /\ owner' = [owner EXCEPT ![n] = Nobody]
  /\ aborted' = (owner[n] = Nobody)

KeyUsable(k) == key[k].object = "live" /\ key[k].pointer /\ ~key[k].deleted

\* uv_key_create() finds a free number; no value is stored under it.
KeyCreate(k, n) ==
  /\ Running /\ ffi
  /\ key[k].object = "none"
  /\ owner[n] = Nobody
  /\ key' = [key EXCEPT ![k].object = "live", ![k].pointer = TRUE, ![k].number = n]
  /\ owner' = [owner EXCEPT ![n] = k]
  /\ stored' = [stored EXCEPT ![n] = Nobody]
  /\ UNCHANGED <<libVars, ffi, aborted>>

\* There is no free number.  The object, whose struct still holds FFI's zero, is
\* dropped, and its destructor deletes what it holds.
KeyRefused(k) ==
  /\ Running /\ ffi
  /\ key[k].object = "none"
  /\ \A n \in Numbers : owner[n] # Nobody
  /\ key' = [key EXCEPT ![k].object = "refused"]
  /\ NativeDelete(key[k].number)
  /\ UNCHANGED <<stored, libVars, ffi>>

\* uv_key_set()
KeySet(k) ==
  /\ Running /\ ffi
  /\ KeyUsable(k)
  /\ key' = [key EXCEPT ![k].set = TRUE]
  /\ stored' = [stored EXCEPT ![key[k].number] = k]
  /\ UNCHANGED <<owner, libVars, ffi, aborted>>

\* uv_key_delete(), which leaves the pointer as it is.
KeyDelete(k) ==
  /\ Running /\ ffi
  /\ KeyUsable(k)
  /\ key' = [key EXCEPT ![k].deleted = TRUE]
  /\ NativeDelete(key[k].number)
  /\ UNCHANGED <<stored, libVars, ffi>>

\* Mutant: free() deletes the key and leaves the struct to the destructor.
KeyFreeDeletes(k) ==
  /\ Running /\ ffi
  /\ key[k].object = "live"
  /\ NativeDelete(key[k].number)
  /\ UNCHANGED <<key, stored, libVars, ffi>>

\* free() drops the struct and with it the number, which is lost.
KeyFree(k) ==
  /\ Running
  /\ key[k].object = "live"
  /\ key' = [key EXCEPT ![k].pointer = FALSE]
  /\ UNCHANGED <<owner, stored, libVars, ffi, aborted>>

\* The destructor deletes the key if there is a struct.  Without the FFI
\* instance it fails with an Error before it has done anything.
KeyDestruct(k) ==
  /\ Running
  /\ key[k].object = "live"
  /\ key' = [key EXCEPT ![k].object = "destroyed", ![k].pointer = FALSE]
  /\ IF key[k].pointer /\ ffi THEN NativeDelete(key[k].number) ELSE UNCHANGED <<owner, aborted>>
  /\ UNCHANGED <<stored, libVars, ffi>>

------------------------------------------------------------------------------
(* Libraries *)

LibOpen(l, f) ==
  /\ Running /\ ffi
  /\ lib[l].object = "none"
  /\ lib' = [lib EXCEPT ![l] = [object |-> "live", pointer |-> TRUE, file |-> f]]
  /\ loaded' = [loaded EXCEPT ![f] = @ + 1]
  /\ UNCHANGED <<keyVars, ffi>>

\* The object is dropped with the message uv_dlerror() would give; its
\* destructor closes a struct that refers to no library.
LibRefused(l) ==
  /\ Running /\ ffi
  /\ lib[l].object = "none"
  /\ lib' = [lib EXCEPT ![l].object = "destroyed"]
  /\ UNCHANGED <<loaded, keyVars, ffi>>

\* libuv's uv_dlclose().
NativeClose(l) == loaded' = [loaded EXCEPT ![lib[l].file] = @ - 1]

\* Mutant: the struct is not dropped when the library is closed.
LibCloseKept(l) ==
  /\ Running /\ ffi
  /\ lib[l].object = "live" /\ lib[l].pointer
  /\ NativeClose(l)
  /\ UNCHANGED <<lib, keyVars, ffi>>

\* uv_dlclose() and free(): a second one does nothing.
LibClose(l) ==
  /\ Running /\ ffi
  /\ lib[l].object = "live" /\ lib[l].pointer
  /\ lib' = [lib EXCEPT ![l].pointer = FALSE]
  /\ NativeClose(l)
  /\ UNCHANGED <<keyVars, ffi>>

LibDestroyed(l, closes) ==
  /\ Running
  /\ lib[l].object = "live"
  /\ lib' = [lib EXCEPT ![l].object = "destroyed", ![l].pointer = FALSE]
  /\ IF closes THEN NativeClose(l) ELSE UNCHANGED loaded
  /\ UNCHANGED <<keyVars, ffi>>

\* Mutant: the destructor does not ask whether there is a struct.
LibDestructUnguarded(l) == LibDestroyed(l, ffi)

\* The destructor closes what is open; without the FFI instance it fails, and
\* the library stays.
LibDestruct(l) == LibDestroyed(l, lib[l].pointer /\ ffi)

------------------------------------------------------------------------------

\* The module is cleared, by the last lock or at the end of the request.
Clear ==
  /\ Running
  /\ ffi' = FALSE
  /\ UNCHANGED <<keyVars, libVars>>

Next ==
  \/ \E k \in Keys :
       \/ \E n \in Numbers : KeyCreate(k, n)
       \/ KeyRefused(k)
       \/ KeySet(k)
       \/ KeyDelete(k)
       \/ KeyFree(k)
       \/ KeyDestruct(k)
  \/ \E l \in Libs :
       \/ \E f \in Files : LibOpen(l, f)
       \/ LibRefused(l)
       \/ LibClose(l)
       \/ LibDestruct(l)
  \/ Clear

Spec == Init /\ [][Next]_vars

------------------------------------------------------------------------------
(* What owning something promises *)

Refused == {k \in Keys : key[k].object = "refused"}
Deleted == {k \in Keys : key[k].deleted}

\* The end of one object takes no key from another: a UVKey that was not given
\* up has its number to itself, finds under it what it stored itself, and the
\* keys that PHP and libuv had before are still theirs.  It takes a program that
\* leaves the deletion to the destructor and is refused no key.
KeysKept ==
  Refused = {} /\ Deleted = {} =>
    /\ \A k \in Keys : KeyUsable(k) =>
         /\ owner[key[k].number] = k
         /\ key[k].set => stored[key[k].number] = k
    /\ \A n \in Reserved : owner[n] = Engine
    /\ ~aborted

\* A program that is refused a key loses nothing by it ("it may not be possible
\* to create many TLS keys", UVFunctions.php).
RefusalHarmless ==
  Deleted = {} => ~aborted /\ \A n \in Reserved : owner[n] = Engine

\* What is loaded is what objects have open, for as long as there is an FFI
\* instance to close it with: closed by uv_dlclose(), free() or the destructor,
\* an object's library is closed once.
Opened(f) == {l \in Libs : lib[l].object = "live" /\ lib[l].pointer /\ lib[l].file = f}

LoadedWhileOpen ==
  \A f \in Files :
    /\ loaded[f] >= Cardinality(Opened(f))
    /\ ffi => loaded[f] = Cardinality(Opened(f))
==============================================================================
