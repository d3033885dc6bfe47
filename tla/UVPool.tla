------------------------------- MODULE UVPool -------------------------------
(***************************************************************************)
(* The requests that libuv's thread pool works on: file system operations  *)
(* (UVFs), name lookups (UVGetAddrinfo, UVGetNameinfo) and work of the     *)
(* program (UVWork, in a thread-safe build of PHP).                        *)
(*                                                                         *)
(* A file system operation without a callback is done when the function    *)
(* returns.  For an open file the program has a resource; the package      *)
(* ze-ffi keeps a table from resources to descriptors, from which UVFs     *)
(* removes entries.  What becomes of a resource without an entry is that   *)
(* package's business and is left out.                                     *)
(***************************************************************************)
EXTENDS UVRequest

CONSTANTS
  Files,    \* the resources of files a program may open
  NoFile,   \* an operation on a path
  Callers   \* the uv_fs_*() functions the program calls, a subset of FsFunctions

\* The functions that UVFs::init() is reached from, by what they pass on: the
\* path of a file, or its resource.
PathFunctions ==
  {"open", "unlink", "mkdir", "rename", "chmod", "utime", "chown", "link", "symlink",
   "rmdir", "stat", "lstat", "scandir", "readlink"}
FileFunctions ==
  {"fstat", "sendfile", "close", "fsync", "fdatasync", "ftruncate", "fchmod", "futime",
   "fchown", "read", "write"}
FsFunctions == PathFunctions \cup FileFunctions

\* Those whose callback may be left out.
Blocking ==
  {"open", "mkdir", "rmdir", "readlink", "scandir", "stat", "fstat", "close", "read",
   "write", "sendfile"}

\* The cases of the switch for paths.  That of FS_FSTAT calls uv_fs_lstat(), and
\* there is none for FS_LSTAT.
PathCases == (PathFunctions \ {"lstat"}) \cup {"fstat"}

ASSUME PoolAssumption == NoFile \notin Files /\ Callers \subseteq FsFunctions

VARIABLES
  fs,    \* of each request the operation, its fd_alt, and whether it was cleaned up
  file   \* of each file whether it is open, and whether the table has its resource

poolVars == <<fs, file>>

PoolTypeOK ==
  /\ fs \in [Requests -> [op : FsFunctions \cup {"none"}, fd_alt : Files \cup {NoFile},
                          clean : BOOLEAN]]
  /\ file \in [Files -> [state : {"none", "open", "closed", "invalid"}, listed : BOOLEAN]]

PoolInit ==
  /\ fs = [r \in Requests |-> [op |-> "none", fd_alt |-> NoFile, clean |-> TRUE]]
  /\ file = [f \in Files |-> [state |-> "none", listed |-> FALSE]]

------------------------------------------------------------------------------
(* Lookups and work *)

\* A request of the pool.
Queue(r, k, callback, state, refs, buffer) ==
  Submit(r, k, NoHandle, callback, state, refs, buffer)

\* UVGetNameinfo::getnameinfo().  Without a callback libuv answers at once, and
\* a reference is given back that only the function's variable has.
GetNameInfo(r, callback, success) ==
  /\ IF callback
       THEN Queue(r, "getnameinfo", TRUE, IF success THEN "pending" ELSE "failed", 1, 0)
       ELSE Queue(r, "getnameinfo", FALSE, "done", -1, 0)
  /\ UNCHANGED poolVars

GetAddrInfo(r, success) ==
  /\ Queue(r, "getaddrinfo", TRUE, IF success THEN "pending" ELSE "failed", 1, 0)
  /\ UNCHANGED poolVars

\* Mutant: the work gives back the reference of its closure when it is made.
QueueWorkReleased(r, success) ==
  /\ Queue(r, "work", TRUE, IF success THEN "pending" ELSE "failed", 0, 0)
  /\ UNCHANGED poolVars

QueueWork(r, success) ==
  /\ Queue(r, "work", TRUE, IF success THEN "pending" ELSE "failed", 1, 0)
  /\ UNCHANGED poolVars

------------------------------------------------------------------------------
(* The file system *)

\* remove_fd_resource(): the table F without the entry of f.
Unlisted(F, f) == IF f = NoFile THEN F ELSE [F EXCEPT ![f].listed = FALSE]

\* What an operation makes of its file, done by libuv with or without success.
Performed(F, op, f, success) ==
  IF op = "close" /\ success THEN [F EXCEPT ![f].state = "closed"] ELSE F

CanName(op, f) ==
  IF op \in FileFunctions THEN f \in Files /\ file[f].listed ELSE f = NoFile

InOneCase(op) == op \in PathCases \cup FileFunctions

\* An operation that does not get as far as the pool is cleaned up, and the
\* file's resource forgotten, whatever the operation was.
FsRefused(r, op, f, callback) ==
  /\ Queue(r, "fs", callback, "failed", One(callback), 0)
  /\ fs' = [fs EXCEPT ![r] = [op |-> op, fd_alt |-> NoFile, clean |-> TRUE]]
  /\ file' = Unlisted(file, f)

BufferOf(op) == One(op \in {"read", "write"})

FsQueued(r, op, f, buffers, clean) ==
  /\ InOneCase(op)
  /\ Queue(r, "fs", TRUE, "pending", 1, buffers)
  /\ fs' = [fs EXCEPT ![r] = [op |-> op, fd_alt |-> IF clean THEN NoFile ELSE f, clean |-> clean]]
  /\ UNCHANGED file

\* Mutant: cleanup(false) is called whether or not there is a callback.
FsQueueCleaned(r, op, f) == FsQueued(r, op, f, 0, TRUE)

\* With a callback: the closure captures the request for good.
FsQueue(r, op, f) == FsQueued(r, op, f, BufferOf(op), FALSE)

\* Those whose result without a callback is made from what libuv left in the
\* request, whether or not it failed.
Overwritten == {"stat", "fstat", "scandir", "readlink"}

\* Without: the request is cleaned up but the resource stays, unless the file
\* is closed or the operation is seen to have failed.
FsBlock(r, op, f, success) ==
  /\ InOneCase(op) /\ op \in Blocking \ {"open"}
  /\ Queue(r, "fs", FALSE, "done", 0, 0)
  /\ fs' = [fs EXCEPT ![r] = [op |-> op, fd_alt |-> NoFile, clean |-> TRUE]]
  /\ LET after == Performed(file, op, f, success)
     IN  file' = IF op # "close" /\ (success \/ op \in Overwritten)
                   THEN after ELSE Unlisted(after, f)

\* open without a callback makes a resource of the result, also of an error, and
\* returns it before any cleanup.
FsOpenBlock(r, f, success) ==
  /\ "open" \in Callers
  /\ file[f].state = "none"
  /\ Queue(r, "fs", FALSE, "done", 1, 0)
  /\ fs' = [fs EXCEPT ![r] = [op |-> "open", fd_alt |-> NoFile, clean |-> FALSE]]
  /\ file' = [file EXCEPT ![f] =
                [state |-> IF success THEN "open" ELSE "invalid", listed |-> TRUE]]

FsOperation(r, op, f) ==
  /\ op \in Callers /\ CanName(op, f)
  /\ \/ FsQueue(r, op, f)
     \/ \E callback \in BOOLEAN :
          (op \in Blocking \/ callback) /\ FsRefused(r, op, f, callback)
     \/ \E success \in BOOLEAN : FsBlock(r, op, f, success)

------------------------------------------------------------------------------
(* Answers *)

\* The pool has done its work: the result is in, and the callback is entered.
\* The resource of a file that was opened is made for the callback.
PoolAnswer(r, success) ==
  /\ req[r].kind \in PoolRequests /\ Answer(r)
  /\ \/ req[r].kind = "fs" /\ fs[r].op = "open" /\ success
        /\ \E f \in Files :
             /\ file[f].state = "none"
             /\ file' = [file EXCEPT ![f] = [state |-> "open", listed |-> TRUE]]
     \/ ~(fs[r].op = "open" /\ success) 
        /\ file' = Performed(file, fs[r].op, fs[r].fd_alt, success)
  /\ UNCHANGED fs

LookupReturn(r) ==
  /\ req[r].kind \in {"getnameinfo", "work"}
  /\ Answered(r, 1, 0)
  /\ UNCHANGED poolVars

\* UVGetAddrinfo frees the struct and leaves the object.
AddrInfoReturn(r) ==
  /\ req[r].kind = "getaddrinfo"
  /\ serving = r
  /\ req' = [req EXCEPT ![r].freed = TRUE]
  /\ serving' = NoRequest
  /\ UNCHANGED poolVars

\* Mutant: cleanup(false).
FsReturnListed(r) ==
  /\ req[r].kind = "fs"
  /\ Answered(r, 0, req[r].buffer)
  /\ fs' = [fs EXCEPT ![r].fd_alt = NoFile, ![r].clean = TRUE]
  /\ UNCHANGED file

\* After the callback of a file system operation cleanup() drops the buffer and
\* takes the file's resource out of the table.
FsReturn(r) ==
  /\ req[r].kind = "fs"
  /\ Answered(r, 0, req[r].buffer)
  /\ fs' = [fs EXCEPT ![r].fd_alt = NoFile, ![r].clean = TRUE]
  /\ file' = Unlisted(file, fs[r].fd_alt)

PoolReturn(r) ==
  /\ LookupReturn(r) \/ AddrInfoReturn(r) \/ FsReturn(r)
  /\ UNCHANGED handlerVars

Ask(r) ==
  /\ \/ \E success \in BOOLEAN :
          \/ \E callback \in BOOLEAN : GetNameInfo(r, callback, success)
          \/ GetAddrInfo(r, success)
          \/ QueueWork(r, success)
          \/ \E f \in Files : FsOpenBlock(r, f, success)
     \/ \E op \in Callers, f \in Files \cup {NoFile} : FsOperation(r, op, f)
  /\ UNCHANGED handlerVars

PoolNext ==
  \E r \in Requests :
    \/ Ask(r)
    \/ \E success \in BOOLEAN : PoolAnswer(r, success)
    \/ PoolReturn(r)

------------------------------------------------------------------------------
(* What an operation promises *)

\* The callback of an operation finds what was kept for it: a read its buffer
\* and an operation on a file that file's resource.  libuv's answer comes long
\* after the function that kept them has returned, and cleanup() drops both.
KeptForCallback ==
  \A r \in Requests : req[r].kind = "fs" /\ (Pending(r) \/ serving = r) =>
    /\ ~fs[r].clean
    /\ fs[r].op \in {"read", "write"} => req[r].buffer > 0
    /\ fs[r].op \in FileFunctions => fs[r].fd_alt # NoFile

\* A resource is not found in the table once its file is closed and nobody works
\* on it any more: the number may soon be that of another file.
Busy(f) == \E r \in Requests : (Pending(r) \/ serving = r) /\ fs[r].fd_alt = f

ClosedUnlisted == \A f \in Files : file[f].state = "closed" /\ ~Busy(f) => ~file[f].listed
==============================================================================
