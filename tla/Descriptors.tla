---------------------------- MODULE Descriptors -----------------------------
(***************************************************************************)
(* The POSIX descriptor shims of hookfs over the open-object registry.     *)
(*                                                                         *)
(* A virtual open is bound to a carrier, a real descriptor on /dev/null,   *)
(* and the registry of the engine maps the carrier's number to the open    *)
(* file.  A shim enters the thread's HookScope, clones the active engine,  *)
(* clones the registry entry out of the registry's lock, and only then     *)
(* works under the lock of that open file: between any two of these steps  *)
(* the other threads run, the number may be closed and handed out again by *)
(* the kernel, and the installation may be replaced.                       *)
(*                                                                         *)
(* The provider behind a stream is any implementation of FileStream: it    *)
(* may answer short, fail, panic, and call back into a hooked function on  *)
(* the same thread.  What the program and its providers do is one of       *)
(* Programs, chosen at the start.                                          *)
(***************************************************************************)
EXTENDS Integers, FiniteSets

CONSTANTS Threads,        \* threads of the hooked program
          Fds,            \* descriptor numbers of the process
          MaxOpens,       \* bound: streams the providers open
          MaxEngines,     \* bound: installations
          AllowWrites,    \* [Engines -> BOOLEAN], Engine.allow_writes
          Programs        \* a set of [calls : what each thread calls, fds : the
                          \* numbers it may get, opens, engines, panics : how many,
                          \* reach : the last position of a cursor, reentrant : the
                          \* threads on which providers call hooked functions]

ASSUME BoundsAssumption ==
  /\ MaxOpens \in Nat /\ MaxEngines \in Nat
  /\ AllowWrites \in [1..MaxEngines -> BOOLEAN]

VARIABLES
  engine,    \* ACTIVE: the published engine, 0 if none
  published, \* engines published so far
  files,     \* [Engines -> [Fds -> 0..MaxOpens]], Registry.files, 0 = no entry
  table,     \* [Fds -> Kinds], the kernel's descriptor table
  held,      \* [Fds -> Holdings], what the program opened and has not closed
  opened,    \* streams opened so far; stream o is the OpenFile o
  home,      \* [Streams -> 0..MaxEngines], the engine that opened it
  writable,  \* [Streams -> BOOLEAN], OpenFile.writable
  pos,       \* [Streams -> Positions], the cursor
  holder,    \* [Streams -> Procs \cup {NoProc}], the lock of the OpenFile
  poisoned,  \* [Streams -> BOOLEAN], a holder of the lock panicked
  in_hook,   \* [Threads -> BOOLEAN], IN_HOOK
  pc, op, fd, eng, obj, saved, scope, \* the call each process is in
  expect,    \* history: the cursor as read, write and lseek alone would leave it
  strayed,   \* history: [Streams -> BOOLEAN], a seek back failed and left the cursor
             \* elsewhere, and no lseek has put it to a position of its choice since
  panics,    \* provider calls that panicked so far
  program    \* the one of Programs that runs

vars == <<engine, published, files, table, held, opened, home, writable, pos,
          holder, poisoned, in_hook, pc, op, fd, eng, obj, saved, scope, expect,
          strayed, panics, program>>

routing == <<engine, published, program>>
streams == <<opened, home, writable>>
cursors == <<pos, expect, strayed>>
locks   == <<holder, poisoned>>

Engines == 1..MaxEngines
Streams == 1..MaxOpens
Positions == 0..program.reach
Kinds == {"free", "carrier", "real"}
NotHeld == 0
Real == -1
Holdings == Streams \cup {NotHeld, Real}

(***************************************************************************)
(* A process is a thread at a depth: depth 2 is the call a provider makes  *)
(* while a shim of the same thread waits for it.                           *)
(***************************************************************************)
Procs == Threads \X {1, 2}
NoProc == <<>>
Thread(p) == p[1]
Outer(p) == <<p[1], 1>>
Nested(p) == p[2] = 2

Positional == {"pread", "pwrite", "fstat"}
Mutating == {"write", "pwrite", "ftruncate"}
Answered == {"fstatvfs", "fdopendir", "sendfile"}
Locking == {"read", "write", "lseek", "ftruncate", "fsync", "fchmod"} \cup Positional
FdOps == Locking \cup Answered \cup {"close"}
Opens == {"open", "open_write"}
Calls == FdOps \cup Opens

ASSUME ProgramAssumption ==
  \A p \in Programs :
    /\ p.calls \in [Threads -> SUBSET Calls] /\ p.reentrant \subseteq Threads
    /\ p.fds \subseteq Fds /\ p.opens \in 0..MaxOpens /\ p.engines \in 0..MaxEngines
    /\ p.reach \in Nat /\ p.panics \in Nat

PC == {"idle", "vfs", "carrier", "insert", "lookup", "lock", "io", "seek", "move",
       "restore", "orig"}

TypeOK ==
  /\ engine \in 0..MaxEngines /\ published \in 0..MaxEngines
  /\ files \in [Engines -> [Fds -> 0..MaxOpens]]
  /\ table \in [Fds -> Kinds]
  /\ held \in [Fds -> Holdings]
  /\ opened \in 0..MaxOpens
  /\ home \in [Streams -> 0..MaxEngines]
  /\ writable \in [Streams -> BOOLEAN]
  /\ pos \in [Streams -> Positions] /\ expect \in [Streams -> Positions]
  /\ holder \in [Streams -> Procs \cup {NoProc}]
  /\ poisoned \in [Streams -> BOOLEAN] /\ strayed \in [Streams -> BOOLEAN]
  /\ in_hook \in [Threads -> BOOLEAN]
  /\ pc \in [Procs -> PC] /\ op \in [Procs -> Calls \cup {"none"}]
  /\ fd \in [Procs -> Fds \cup {NotHeld}]
  /\ eng \in [Procs -> 0..MaxEngines]
  /\ obj \in [Procs -> 0..MaxOpens]
  /\ saved \in [Procs -> Positions]
  /\ scope \in [Procs -> BOOLEAN]
  /\ panics \in 0..program.panics /\ program \in Programs

Init ==
  /\ engine = 0 /\ published = 0
  /\ files = [e \in Engines |-> [f \in Fds |-> 0]]
  /\ table = [f \in Fds |-> "free"]
  /\ held = [f \in Fds |-> NotHeld]
  /\ opened = 0
  /\ home = [o \in Streams |-> 0]
  /\ writable = [o \in Streams |-> FALSE]
  /\ pos = [o \in Streams |-> 0] /\ expect = [o \in Streams |-> 0]
  /\ holder = [o \in Streams |-> NoProc]
  /\ poisoned = [o \in Streams |-> FALSE] /\ strayed = [o \in Streams |-> FALSE]
  /\ in_hook = [t \in Threads |-> FALSE]
  /\ pc = [p \in Procs |-> "idle"] /\ op = [p \in Procs |-> "none"]
  /\ fd = [p \in Procs |-> NotHeld]
  /\ eng = [p \in Procs |-> 0]
  /\ obj = [p \in Procs |-> 0]
  /\ saved = [p \in Procs |-> 0]
  /\ scope = [p \in Procs |-> FALSE]
  /\ panics = 0 /\ program \in Programs

-----------------------------------------------------------------------------
(* The installation, seen from the shims: ACTIVE is set and cleared whole. *)

try_activate ==
  /\ engine = 0 /\ published < program.engines
  /\ engine' = published + 1 /\ published' = published + 1
  /\ UNCHANGED <<files, table, held, streams, cursors, locks, in_hook, pc, op, fd, eng,
                 obj, saved, scope, panics, program>>

deactivate ==
  /\ engine # 0
  /\ engine' = 0
  /\ UNCHANGED <<published, files, table, held, streams, cursors, locks, in_hook,
                 pc, op, fd, eng, obj, saved, scope, panics, program>>

-----------------------------------------------------------------------------
(* Frames *)

(* A nested call starts while the outer one waits for its provider, which  *)
(* goes on when the nested call has returned.                              *)
InProvider(p) == pc[p] \in {"vfs", "io", "move"}
MayCall(p) == pc[p] = "idle" /\ (Nested(p) => InProvider(Outer(p)))
Running(p, at) == pc[p] = at /\ (~Nested(p) => pc[<<Thread(p), 2>>] = "idle")

(* Mutation: the IN_HOOK flag is not consulted. *)
EntersAgain(p) == TRUE

(* HookScope::enter succeeds. *)
Enters(p) == ~in_hook[Thread(p)]

(* A call begins: HookScope::enter, then current_engine.  Reentered or     *)
(* without an engine, it goes straight to the original function.           *)
Begin(p, o, f, next) ==
  /\ pc' = [pc EXCEPT ![p] = IF Enters(p) /\ engine # 0 THEN next ELSE "orig"]
  /\ op' = [op EXCEPT ![p] = o]
  /\ fd' = [fd EXCEPT ![p] = f]
  /\ eng' = [eng EXCEPT ![p] = IF Enters(p) THEN engine ELSE 0]
  /\ scope' = [scope EXCEPT ![p] = Enters(p)]
  /\ in_hook' = [in_hook EXCEPT ![Thread(p)] = TRUE]
  /\ UNCHANGED <<obj, saved>>

(* The call returns, by guard_abi when a panic unwinds: HookScope's drop.  *)
Return(p) ==
  /\ pc' = [pc EXCEPT ![p] = "idle"] /\ op' = [op EXCEPT ![p] = "none"]
  /\ fd' = [fd EXCEPT ![p] = NotHeld]
  /\ eng' = [eng EXCEPT ![p] = 0] /\ obj' = [obj EXCEPT ![p] = 0]
  /\ saved' = [saved EXCEPT ![p] = 0]
  /\ scope' = [scope EXCEPT ![p] = FALSE]
  /\ in_hook' = IF scope[p] THEN [in_hook EXCEPT ![Thread(p)] = FALSE] ELSE in_hook

(* It goes on at another step. *)
Goto(p, to) ==
  /\ pc' = [pc EXCEPT ![p] = to]
  /\ UNCHANGED <<op, eng, scope, in_hook>>

Unlock(p) == holder' = [holder EXCEPT ![obj[p]] = NoProc]

-----------------------------------------------------------------------------
(* open, open64, openat: of a virtual path, or of a path of the disk *)

(* A write open of a virtual path needs allow_writes; else EROFS. *)
WriteGranted(o) == (o = "open_write") => AllowWrites[engine]

open_impl(p, o) ==
  /\ MayCall(p) /\ ~Nested(p) /\ o \in program.calls[Thread(p)]
  /\ \/ Begin(p, o, NotHeld, "orig")                        \* Route::Real
     \/ (engine # 0 => WriteGranted(o)) /\ Begin(p, o, NotHeld, "vfs")
  /\ UNCHANGED <<routing, files, table, held, streams, cursors, locks, panics>>

(* engine.vfs().open or open_write. *)
OpenStream(p) ==
  /\ Running(p, "vfs")
  /\ \/ /\ Return(p)                                        \* None or Some(Err)
        /\ UNCHANGED streams
     \/ /\ opened < program.opens
        /\ opened' = opened + 1
        /\ home' = [home EXCEPT ![opened + 1] = eng[p]]
        /\ writable' = [writable EXCEPT ![opened + 1] = (op[p] = "open_write")]
        /\ obj' = [obj EXCEPT ![p] = opened + 1]
        /\ Goto(p, "carrier") /\ UNCHANGED <<fd, saved>>
  /\ UNCHANGED <<routing, files, table, held, cursors, locks, panics>>

(* The original open of /dev/null: any free number, or EMFILE. *)
carrier_fd(p) ==
  /\ Running(p, "carrier")
  /\ \/ \E f \in program.fds :
          /\ table[f] = "free"
          /\ table' = [table EXCEPT ![f] = "carrier"]
          /\ fd' = [fd EXCEPT ![p] = f]
          /\ Goto(p, "insert") /\ UNCHANGED <<obj, saved>>
     \/ /\ \A f \in program.fds : table[f] # "free"
        /\ Return(p) /\ UNCHANGED table
  /\ UNCHANGED <<routing, files, held, streams, cursors, locks, panics>>

(* Registry::insert_file; the program gets the number. *)
insert_file(p) ==
  /\ Running(p, "insert")
  /\ files' = [files EXCEPT ![eng[p]][fd[p]] = obj[p]]
  /\ held' = [held EXCEPT ![fd[p]] = obj[p]]
  /\ Return(p)
  /\ UNCHANGED <<routing, table, streams, cursors, locks, panics>>

-----------------------------------------------------------------------------
(* Calls on a descriptor *)

(* The program calls with a number it holds, and closes it once; a         *)
(* provider reads some descriptor of the process.                          *)
CallFd(p, o, f) ==
  /\ MayCall(p)
  /\ IF Nested(p) THEN o = "read" /\ Thread(p) \in program.reentrant
     ELSE o \in program.calls[Thread(p)]
  /\ held[f] # NotHeld
  /\ Begin(p, o, f, "lookup")
  /\ held' = IF o = "close" THEN [held EXCEPT ![f] = NotHeld] ELSE held
  /\ UNCHANGED <<routing, files, table, streams, cursors, locks, panics>>

Entry(p) == files[eng[p]][fd[p]]

(* Registry::get_file clones the entry; without one the original serves.   *)
get_file(p) ==
  /\ Running(p, "lookup") /\ op[p] \in Locking
  /\ obj' = [obj EXCEPT ![p] = Entry(p)]
  /\ Goto(p, IF Entry(p) = 0 THEN "orig" ELSE "lock") /\ UNCHANGED <<fd, saved>>
  /\ UNCHANGED <<routing, files, table, held, streams, cursors, locks, panics>>

(* Some calls answer from the existence of the entry alone. *)
Answer(p) ==
  /\ Running(p, "lookup")
  /\ \/ Entry(p) # 0 /\ Return(p)
     \/ Entry(p) = 0 /\ Goto(p, "orig") /\ UNCHANGED <<fd, obj, saved>>
  /\ UNCHANGED <<routing, files, table, held, streams, cursors, locks, panics>>

fstatvfs(p) == op[p] = "fstatvfs" /\ Answer(p)
fdopendir(p) == op[p] = "fdopendir" /\ Answer(p)   \* ENOTDIR
sendfile(p) == op[p] = "sendfile" /\ Answer(p)     \* EINVAL; the source descriptor

(* Mutation: the carrier is closed and its entry stays. *)
remove_file_kept(p) ==
  /\ Running(p, "lookup") /\ op[p] = "close"
  /\ Goto(p, "orig") /\ UNCHANGED <<fd, obj, saved>>
  /\ UNCHANGED <<routing, files, table, held, streams, cursors, locks, panics>>

(* Mutation: the registry is cleared where one entry should go. *)
remove_file_all(p) ==
  /\ Running(p, "lookup") /\ op[p] = "close"
  /\ files' = [files EXCEPT ![eng[p]] = [f \in Fds |-> 0]]
  /\ Goto(p, "orig") /\ UNCHANGED <<fd, obj, saved>>
  /\ UNCHANGED <<routing, table, held, streams, cursors, locks, panics>>

(* Mutation: an entry that is found is dropped and its carrier is not closed. *)
remove_file_leaks(p) ==
  /\ Running(p, "lookup") /\ op[p] = "close"
  /\ files' = [files EXCEPT ![eng[p]][fd[p]] = 0]
  /\ IF Entry(p) # 0 THEN Return(p) ELSE Goto(p, "orig") /\ UNCHANGED <<fd, obj, saved>>
  /\ UNCHANGED <<routing, table, held, streams, cursors, locks, panics>>

(* shim_close: the entry goes first, then the carrier. *)
remove_file(p) ==
  /\ Running(p, "lookup") /\ op[p] = "close"
  /\ files' = [files EXCEPT ![eng[p]][fd[p]] = 0]
  /\ Goto(p, "orig") /\ UNCHANGED <<fd, obj, saved>>
  /\ UNCHANGED <<routing, table, held, streams, cursors, locks, panics>>

(* The original function, on whatever the number now stands for. *)
Original(p) ==
  /\ Running(p, "orig")
  /\ \/ /\ op[p] \in Opens
        /\ \/ \E f \in program.fds :
                /\ table[f] = "free"
                /\ table' = [table EXCEPT ![f] = "real"]
                /\ held' = [held EXCEPT ![f] = Real]
           \/ UNCHANGED <<table, held>>
     \/ /\ op[p] = "close"
        /\ table' = [table EXCEPT ![fd[p]] = "free"]
        /\ UNCHANGED held
     \/ /\ op[p] \in FdOps \ {"close"}
        /\ UNCHANGED <<table, held>>
  /\ Return(p)
  /\ UNCHANGED <<routing, files, streams, cursors, locks, panics>>

-----------------------------------------------------------------------------
(* Under the lock of the open file *)

(* Mutation: the registry entry is used without its lock. *)
FreeAlways(p) == TRUE

Free(p) == holder[obj[p]] = NoProc

(* A null buffer, a zero count, a bad offset or whence: a reading call is  *)
(* refused before it locks, a mutation after, where it may also be EROFS.  *)
Refuse(p) ==
  /\ Running(p, "lock")
  /\ op[p] \in {"read", "pread", "lseek"} \/ (op[p] \in Mutating /\ Free(p))
  /\ Return(p)
  /\ UNCHANGED <<routing, files, table, held, streams, cursors, locks, panics>>

(* Mutation: the writable flag of the open is not consulted. *)
PermittedAlways(p) == TRUE

Permitted(p) == op[p] \in Mutating => writable[obj[p]]

Lock(p) ==
  /\ Running(p, "lock") /\ Free(p) /\ op[p] # "fchmod"
  /\ Permitted(p)
  /\ holder' = [holder EXCEPT ![obj[p]] = p]
  /\ Goto(p, IF op[p] \in Positional THEN "seek" ELSE "io") /\ UNCHANGED <<fd, obj, saved>>
  /\ UNCHANGED <<routing, files, table, held, streams, cursors, poisoned, panics>>

(* shim_fchmod denies through deny_write_fd, which is about writing: a     *)
(* writable virtual descriptor goes on to the original.                    *)
fchmod(p) ==
  /\ Running(p, "lock") /\ Free(p) /\ op[p] = "fchmod"
  /\ \/ ~writable[obj[p]] /\ Return(p)
     \/ writable[obj[p]] /\ Goto(p, "orig") /\ UNCHANGED <<fd, obj, saved>>
  /\ UNCHANGED <<routing, files, table, held, streams, cursors, locks, panics>>

(* The bytes the provider says it moved from here: fewer than asked for,   *)
(* or none, past the end or on an error.  The shim knows no length: a      *)
(* cursor may be past the end, and a write there extends the file.         *)
Room(at) == 0..(program.reach - at)

Advance(p, n) ==
  /\ pos' = [pos EXCEPT ![obj[p]] = @ + n]
  /\ expect' = [expect EXCEPT ![obj[p]] = @ + n]

(* read and readv: one stream.read per iovec until one is short. *)
read(p) ==
  /\ Running(p, "io") /\ op[p] = "read"
  /\ \E n \in Room(pos[obj[p]]) \cap Room(expect[obj[p]]) : Advance(p, n)
  /\ Unlock(p) /\ Return(p)
  /\ UNCHANGED <<routing, files, table, held, streams, poisoned, strayed, panics>>

write(p) ==
  /\ Running(p, "io") /\ op[p] = "write"
  /\ \E n \in Room(pos[obj[p]]) \cap Room(expect[obj[p]]) : Advance(p, n)
  /\ Unlock(p) /\ Return(p)
  /\ UNCHANGED <<routing, files, table, held, streams, poisoned, strayed, panics>>

(* seek_from: SEEK_SET and SEEK_END choose the position, SEEK_CUR moves    *)
(* from the cursor, back by -n or on by n, past the end too; an error      *)
(* leaves the cursor.                                                      *)
lseek(p) ==
  /\ Running(p, "io") /\ op[p] = "lseek"
  /\ \/ /\ \E to \in Positions : /\ pos' = [pos EXCEPT ![obj[p]] = to]
                                 /\ expect' = [expect EXCEPT ![obj[p]] = to]
        /\ strayed' = [strayed EXCEPT ![obj[p]] = FALSE]
     \/ /\ \E n \in -program.reach..program.reach :
             /\ pos[obj[p]] + n \in Positions /\ expect[obj[p]] + n \in Positions
             /\ Advance(p, n)
        /\ UNCHANGED strayed
  /\ Unlock(p) /\ Return(p)
  /\ UNCHANGED <<routing, files, table, held, streams, poisoned, panics>>

ftruncate_fd(p) ==
  /\ Running(p, "io") /\ op[p] = "ftruncate"
  /\ Unlock(p) /\ Return(p)
  /\ UNCHANGED <<routing, files, table, held, streams, cursors, poisoned, panics>>

fsync(p) ==
  /\ Running(p, "io") /\ op[p] = "fsync"
  /\ Unlock(p) /\ Return(p)
  /\ UNCHANGED <<routing, files, table, held, streams, cursors, poisoned, panics>>

(* pread, pwrite and the default FileStream::size, used by fstat: save the *)
(* cursor, seek, transfer, seek back.  A failed stream_position or seek    *)
(* leaves the cursor, and the seek back has nothing to undo.               *)
SaveAndSeek(p, targets) ==
  /\ Running(p, "seek")
  /\ saved' = [saved EXCEPT ![p] = pos[obj[p]]]
  /\ \/ \E to \in targets : pos' = [pos EXCEPT ![obj[p]] = to] /\ Goto(p, "move")
     \/ Goto(p, "restore") /\ UNCHANGED pos
  /\ UNCHANGED <<routing, files, table, held, streams, expect, strayed, locks, fd, obj,
                 panics>>

(* Mutation: a negative offset is not refused before the seek. *)
pread_signed(p) == op[p] = "pread" /\ SaveAndSeek(p, Positions \cup {-1})

pread(p) == op[p] = "pread" /\ SaveAndSeek(p, Positions)
pwrite(p) == op[p] = "pwrite" /\ SaveAndSeek(p, Positions)
fstat(p) == op[p] = "fstat" /\ SaveAndSeek(p, Positions)   \* SeekFrom::End(0)

Transfer(p) ==
  /\ Running(p, "move")
  /\ \E n \in IF op[p] = "fstat" THEN {0} ELSE Room(pos[obj[p]]) :
       pos' = [pos EXCEPT ![obj[p]] = @ + n]
  /\ Goto(p, "restore")
  /\ UNCHANGED <<routing, files, table, held, streams, expect, strayed, locks, fd, obj,
                 saved, panics>>

(* The seek back is one more call of the provider: its error is dropped by *)
(* pread and pwrite and returned by size, and leaves the cursor where the  *)
(* transfer left it.                                                       *)
SeekBack(p) ==
  /\ Running(p, "restore")
  /\ \/ /\ pos' = [pos EXCEPT ![obj[p]] = saved[p]]
        /\ UNCHANGED strayed
     \/ /\ pos[obj[p]] # saved[p]
        /\ strayed' = [strayed EXCEPT ![obj[p]] = TRUE]
        /\ UNCHANGED pos
  /\ Unlock(p) /\ Return(p)
  /\ UNCHANGED <<routing, files, table, held, streams, expect, poisoned, panics>>

(* A provider call panics: the unwind drops the guard of the lock, which   *)
(* poisons it, and the HookScope; guard_abi returns the error.  The next   *)
(* lock() takes a poisoned lock as it is.                                  *)
Panic(p) ==
  /\ panics < program.panics /\ panics' = panics + 1
  /\ \E at \in {"vfs", "io", "seek", "move", "restore"} : Running(p, at)
  /\ IF pc[p] = "vfs" THEN UNCHANGED locks
     ELSE Unlock(p) /\ poisoned' = [poisoned EXCEPT ![obj[p]] = TRUE]
  /\ Return(p)
  /\ UNCHANGED <<routing, files, table, held, streams, cursors>>

-----------------------------------------------------------------------------
Step(p) ==
  \/ OpenStream(p) \/ carrier_fd(p) \/ insert_file(p)
  \/ get_file(p) \/ fstatvfs(p) \/ fdopendir(p) \/ sendfile(p) \/ remove_file(p)
  \/ Original(p)
  \/ Refuse(p) \/ Lock(p) \/ fchmod(p)
  \/ read(p) \/ write(p) \/ lseek(p) \/ ftruncate_fd(p) \/ fsync(p)
  \/ pread(p) \/ pwrite(p) \/ fstat(p) \/ Transfer(p) \/ SeekBack(p) \/ Panic(p)

Next ==
  \/ try_activate \/ deactivate
  \/ \E p \in Procs : \/ Step(p)
                      \/ \E o \in Opens : open_impl(p, o)
                      \/ \E o \in FdOps, f \in Fds : CallFd(p, o, f)

Spec == Init /\ [][Next]_vars

-----------------------------------------------------------------------------
(* Properties *)

(* A number in the active registry is an open carrier: shim_close takes    *)
(* the entry out before it gives the number back, so the kernel cannot     *)
(* hand out a number whose entry is still there.                           *)
CarrierBacked ==
  engine # 0 => \A f \in Fds : files[engine][f] # 0 => table[f] = "carrier"

(* What the program holds is what the shims serve: a virtual descriptor    *)
(* opened under the active engine still leads to the stream of its own     *)
(* open, and a real descriptor never leads to a stream, whatever numbers   *)
(* were closed and handed out again in between.                            *)
HeldIsServed ==
  engine # 0 => \A f \in Fds :
    /\ held[f] \in Streams /\ home[held[f]] = engine => files[engine][f] = held[f]
    /\ held[f] = Real => files[engine][f] = 0

(* Once every call has returned, the carriers are exactly the virtual      *)
(* descriptors the program holds: no failed open and no close leaks one,   *)
(* under any replacement of the installation meanwhile.                    *)
CarriersReclaimed ==
  (\A p \in Procs : pc[p] = "idle") =>
    \A f \in Fds : (table[f] = "carrier") <=> (held[f] \in Streams)

(* The provider has done its part: none of its calls panicked under the    *)
(* lock, and none of its seeks back failed since the last absolute lseek.  *)
Dependable(o) == ~poisoned[o] /\ ~strayed[o]

(* Whenever nobody is using a stream, its cursor is where read, write and  *)
(* lseek alone would have left it: pread, pwrite and fstat, which move it  *)
(* and move it back, are invisible to every other thread.  Streams whose   *)
(* provider panicked are excluded, and so are those on which a seek back   *)
(* failed, whose error the shims drop, until an lseek sets the position.   *)
CursorKept ==
  \A o \in Streams : holder[o] = NoProc /\ Dependable(o) => pos[o] = expect[o]

(* No thread waits for the lock of a stream it has locked itself, even if  *)
(* a provider calls a hooked function on the descriptor it is serving.     *)
NoSelfWait ==
  \A p \in Procs : pc[p] = "lock" => holder[obj[p]] # Outer(p) \/ ~Nested(p)

(* A provider mounted without allow_writes is never asked for a writable   *)
(* stream, nor to write or resize: write access is decided at the open,    *)
(* and a descriptor that outlives its engine does not carry it over.       *)
ReadOnlyEngines ==
  \A p \in Procs :
    InProvider(p) /\ op[p] \in Mutating \cup {"open_write"} => AllowWrites[eng[p]]

(* "a panicked prior holder left no torn state" (lock()): an unlocked      *)
(* stream has its cursor where its calls left it, panics included (and     *)
(* failed seeks back, which are no panics, excluded).                      *)
NoTornState ==
  \A o \in Streams : holder[o] = NoProc /\ ~strayed[o] => pos[o] = expect[o]
=============================================================================
