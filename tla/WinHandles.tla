----------------------------- MODULE WinHandles -----------------------------
(***************************************************************************)
(* The Win32 shims of hookfs: files, directory searches and paths.         *)
(*                                                                         *)
(* A virtual open is bound to a carrier, a real handle on NUL, and a       *)
(* virtual search to a real search of the Windows directory; the registry  *)
(* of the engine maps the carrier to the OpenFile or the FindState.  The   *)
(* kernel may hand out a number again as soon as it is closed, and the     *)
(* threads of the program share handles.                                   *)
(*                                                                         *)
(* A shim enters HookScope, clones the engine and looks the handle up      *)
(* before it locks what it found: the call.  The lookup depends on the     *)
(* cloned engine alone, so the three are one step.  What it does under the *)
(* lock of an OpenFile is one step per call of the provider.  Reentrancy   *)
(* and panics of providers are in Descriptors; the provider here is a      *)
(* writable volume of one directory, and Limit bounds what it can hold.    *)
(*                                                                         *)
(* A path is a virtual name, Rejected or Disk: see Namespace for how the   *)
(* router tells them apart.                                                *)
(***************************************************************************)
EXTENDS Integers, Sequences, FiniteSets, SequencesExt

CONSTANTS Threads,      \* threads of the hooked program
          Handles,      \* handle values of the process
          Names,        \* names of the virtual directory
          MaxNodes,     \* bound: files and directories the volume creates
          MaxOpens,     \* bound: virtual opens
          MaxFinds,     \* bound: virtual searches
          MaxEngines,   \* bound: installations
          Limit,        \* bound: positions and lengths; more is ERROR_DISK_FULL
          Half,         \* 2^32: what one half of a 64-bit move counts to
          AllowWrites,  \* [Engines -> BOOLEAN], Engine.allow_writes
          Programs,     \* what the program may do: a set of
                        \* [calls, modes, paths, engines]
          Rejected,     \* a path under the prefix that is not lexically safe
          Disk,         \* a path outside the prefix
          Star,         \* the pattern of every name of the virtual directory
          NoThread

Dispositions == {"CREATE_NEW", "CREATE_ALWAYS", "OPEN_ALWAYS", "TRUNCATE_EXISTING",
                 "OPEN_EXISTING"}
Accesses == {"read", "write", "append"}

(* A program: which calls each thread makes, how and what it opens, and how *)
(* often it installs hookfs.                                               *)
IsProgram(p) ==
  /\ p.modes \subseteq Accesses \X Dispositions \X BOOLEAN
  /\ p.paths \subseteq Names \cup {Rejected, Disk} /\ p.engines \in 0..MaxEngines

ASSUME WinAssumption ==
  /\ {MaxNodes, MaxOpens, MaxFinds, MaxEngines, Limit} \subseteq Nat
  /\ Half \in Nat /\ Half > 1 /\ Half % 2 = 0
  /\ AllowWrites \in [1..MaxEngines -> BOOLEAN]
  /\ \A p \in Programs : IsProgram(p)
  /\ NoThread \notin Threads /\ {Disk, Rejected, Star} \cap Names = {}
  /\ IsFiniteSet(Names)

VARIABLES
  engine, published, \* ACTIVE, and the installations so far
  files, finds,      \* [Engines -> [Handles -> Nat]], Registry.files and .finds
  table,             \* [Handles -> Kinds], the kernel's handle table
  held,              \* [Handles -> Holdings], what the program was given
  names,             \* [Names -> 0..MaxNodes], the volume's directory
  dirs,              \* nodes that are directories
  size,              \* [1..MaxNodes -> 0..Limit], the length of each node
  nodes,             \* nodes created so far
  open, opened,      \* the OpenFiles
  find, found,       \* the FindStates
  given,             \* history: the names each search has given the program
  holder,            \* [1..MaxOpens -> Threads \cup {NoThread}], OpenFile locks
  job,               \* [Threads -> Job], the call each thread is in
  program,           \* the one of Programs that runs
  reached            \* history: reserved paths handed to the kernel

vars == <<engine, published, files, finds, table, held, names, dirs, size, nodes,
          open, opened, find, found, given, holder, job, program, reached>>

routing  == <<engine, published, program>>
registry == <<files, finds>>
kernel   == <<table, held>>
volume   == <<names, dirs, size, nodes>>
objects  == <<open, opened, holder>>
searches == <<find, found, given>>

Engines == 1..MaxEngines
Nodes == 1..MaxNodes
Opens == 1..MaxOpens
Finds == 1..MaxFinds
Positions == 0..Limit
Kinds == {"free", "nul", "search", "real"}
Holdings == {"none", "file", "search"}
Paths == Names \cup {Rejected, Disk}
PathCalls == {"CreateFile", "FindFirstFile", "GetFileAttributesW", "GetFullPathNameW",
              "GetDiskFreeSpaceA", "GetDriveTypeW", "MoveFileExW"}

(* Where a thread is (at), in which call (op), with the engine, handle and *)
(* object it has, the request, and the pointer at the time of the lock.    *)
Idle == [at |-> "idle", op |-> "none", e |-> 0, h |-> 0, o |-> 0, path |-> Disk,
         opts |-> {}, method |-> 0, off |-> 0, n |-> 0, was |-> 0]

NoOpen == [node |-> 0, pos |-> 0, writable |-> FALSE, overlapped |-> FALSE]
NoFind == [entries |-> <<>>, next |-> 0]

Options == {"write", "append", "create", "create_new", "truncate"}
Job == [at : {"idle", "vfs", "truncate", "carrier", "insert", "lock", "transfer", "set_len",
              "close", "list", "exact", "next"},
        op : {"none", "open", "read", "write", "seek", "seek_halves", "query", "end",
              "CloseHandle", "FindClose", "find", "next"},
        e : 0..MaxEngines, h : Handles \cup {0}, o : Nat, path : Paths \cup {Star},
        opts : SUBSET Options, method : 0..2, off : Int, n : {0, 1}, was : Positions]

TypeOK ==
  /\ engine \in 0..MaxEngines /\ published \in 0..MaxEngines
  /\ files \in [Engines -> [Handles -> 0..MaxOpens]]
  /\ finds \in [Engines -> [Handles -> 0..MaxFinds]]
  /\ table \in [Handles -> Kinds] /\ held \in [Handles -> Holdings]
  /\ names \in [Names -> 0..MaxNodes] /\ dirs \subseteq Nodes
  /\ size \in [Nodes -> Positions] /\ nodes \in 0..MaxNodes
  /\ open \in [Opens -> [node : 0..MaxNodes, pos : Positions,
                         writable : BOOLEAN, overlapped : BOOLEAN]]
  /\ opened \in 0..MaxOpens /\ found \in 0..MaxFinds
  /\ find \in [Finds -> [entries : Seq(Names), next : Nat]]
  /\ given \in [Finds -> Seq(Names)]
  /\ holder \in [Opens -> Threads \cup {NoThread}]
  /\ job \in [Threads -> Job] /\ program \in Programs
  /\ reached \subseteq (Paths \X PathCalls)

Init ==
  /\ engine = 0 /\ published = 0
  /\ files = [e \in Engines |-> [h \in Handles |-> 0]]
  /\ finds = [e \in Engines |-> [h \in Handles |-> 0]]
  /\ table = [h \in Handles |-> "free"] /\ held = [h \in Handles |-> "none"]
  /\ names = [a \in Names |-> 0] /\ dirs = {}
  /\ size = [x \in Nodes |-> 0] /\ nodes = 0
  /\ open = [o \in Opens |-> NoOpen] /\ opened = 0
  /\ find = [f \in Finds |-> NoFind] /\ found = 0
  /\ given = [f \in Finds |-> <<>>]
  /\ holder = [o \in Opens |-> NoThread]
  /\ job = [t \in Threads |-> Idle]
  /\ program \in Programs /\ reached = {}

-----------------------------------------------------------------------------
(* Installations, and the frame of a call *)

try_activate ==
  /\ engine = 0 /\ published < program.engines
  /\ engine' = published + 1 /\ published' = published + 1
  /\ UNCHANGED <<program, registry, kernel, volume, objects, searches, job, reached>>

deactivate ==
  /\ engine # 0 /\ engine' = 0
  /\ UNCHANGED <<published, program, registry, kernel, volume, objects, searches, job, reached>>

MayCall(t, c) == job[t] = Idle /\ c \in program.calls[t]
At(t, at) == job[t].at = at
Return(t) == job' = [job EXCEPT ![t] = Idle]
Goto(t, at) == job' = [job EXCEPT ![t].at = at]

(* route and Engine::classify; without an engine every path is real. *)
route(p) ==
  CASE engine = 0 \/ p = Disk -> "real"
    [] engine # 0 /\ p = Rejected -> "rejected"
    [] OTHER -> "virtual"

(* A path reaches the kernel; it should be none under the prefix of a live *)
(* engine.                                                                 *)
Reaches(p, c) ==
  reached' = IF engine # 0 /\ p # Disk THEN reached \cup {<<p, c>>} ELSE reached

-----------------------------------------------------------------------------
(* CreateFileW, CreateFileA, CreateFile2 *)

open_options(access, disposition) ==
  {o \in Options :
     CASE o = "write" -> access # "read"
       [] o = "append" -> access = "append"
       [] o = "create" -> disposition \in {"CREATE_ALWAYS", "OPEN_ALWAYS"}
       [] o = "create_new" -> disposition = "CREATE_NEW"
       [] o = "truncate" -> disposition \in {"CREATE_ALWAYS", "TRUNCATE_EXISTING"}}

(* The kernel's own open: any free value, or none. *)
KernelOpen(kind, what) ==
  \/ UNCHANGED kernel
  \/ \E h \in Handles : /\ table[h] = "free"
                        /\ table' = [table EXCEPT ![h] = kind]
                        /\ held' = [held EXCEPT ![h] = what]

(* open_virtual begins: a write open needs allow_writes, or nothing        *)
(* happens and it is ERROR_ACCESS_DENIED.                                  *)
BeginOpen(t, p, opts, overlapped) ==
  /\ "write" \in opts => AllowWrites[engine]
  /\ job' = [job EXCEPT ![t] = [Idle EXCEPT !.at = "vfs", !.op = "open", !.e = engine,
               !.path = p, !.opts = opts, !.n = IF overlapped THEN 1 ELSE 0]]
  /\ UNCHANGED <<kernel, reached>>

(* Rejected: ERROR_FILE_NOT_FOUND, and nothing happens. *)
CreateFileW(t, p, access, disposition, overlapped) ==
  /\ MayCall(t, "CreateFile")
  /\ \/ route(p) = "real" /\ KernelOpen("real", "file") /\ Reaches(p, "CreateFile")
        /\ UNCHANGED job
     \/ route(p) = "virtual"
        /\ BeginOpen(t, p, open_options(access, disposition), overlapped)
  /\ UNCHANGED <<routing, registry, volume, objects, searches>>

(* VirtualFs::open or open_write: a missing name is created only for a     *)
(* write open that creates; create_new refuses one that exists; a          *)
(* directory is refused.                                                   *)
OpenStream(t) ==
  LET j == job[t]  x == names[j.path]
      creates == "write" \in j.opts /\ {"create", "create_new"} \cap j.opts # {}
      refused == \/ x = 0 /\ (~creates \/ nodes = MaxNodes)
                 \/ x \in dirs
                 \/ x # 0 /\ {"write", "create_new"} \subseteq j.opts
  IN  /\ At(t, "vfs")
      /\ \/ refused /\ Return(t) /\ UNCHANGED volume
         \/ /\ ~refused
            /\ IF x = 0
               THEN /\ names' = [names EXCEPT ![j.path] = nodes + 1]
                    /\ nodes' = nodes + 1
               ELSE UNCHANGED <<names, nodes>>
            /\ UNCHANGED <<dirs, size>>
            /\ job' = [job EXCEPT ![t].at = "truncate", ![t].o = names'[j.path]]
      /\ UNCHANGED <<routing, registry, kernel, objects, searches, reached>>

(* open_write cuts the file after it has let go of the tree; the handle    *)
(* starts at the end when it appends.                                      *)
TruncateNode(t) ==
  LET j == job[t]  x == j.o
  IN  /\ At(t, "truncate")
      /\ IF {"write", "truncate"} \subseteq j.opts
         THEN size' = [size EXCEPT ![x] = 0] ELSE UNCHANGED size
      /\ opened < MaxOpens /\ opened' = opened + 1
      /\ open' = [open EXCEPT ![opened + 1] =
                    [node |-> x, writable |-> "write" \in j.opts, overlapped |-> j.n = 1,
                     pos |-> IF "append" \in j.opts THEN size'[x] ELSE 0]]
      /\ job' = [job EXCEPT ![t].at = "carrier", ![t].o = opened + 1]
      /\ UNCHANGED <<routing, registry, kernel, names, dirs, nodes, holder, searches,
                     reached>>

(* carrier_open: a handle on NUL, or ERROR_INTERNAL_ERROR; the file has    *)
(* been created and cut by then.                                           *)
carrier_open(t) ==
  /\ At(t, "carrier") /\ job[t].op = "open"
  /\ \/ Return(t) /\ UNCHANGED kernel
     \/ \E h \in Handles : /\ table[h] = "free"
                           /\ table' = [table EXCEPT ![h] = "nul"] /\ UNCHANGED held
                           /\ job' = [job EXCEPT ![t].at = "insert", ![t].h = h]
  /\ UNCHANGED <<routing, registry, volume, objects, searches, reached>>

insert_file(t) ==
  LET j == job[t]
  IN  /\ At(t, "insert") /\ j.op = "open"
      /\ files' = [files EXCEPT ![j.e][j.h] = j.o]
      /\ held' = [held EXCEPT ![j.h] = "file"]
      /\ Return(t)
      /\ UNCHANGED <<routing, finds, table, volume, objects, searches, reached>>

-----------------------------------------------------------------------------
(* Calls on a handle *)

get_file(h) == IF engine = 0 THEN 0 ELSE files[engine][h]
get_find(h) == IF engine = 0 THEN 0 ELSE finds[engine][h]

(* A shim that works under the lock of the OpenFile.  Not a virtual        *)
(* handle: the kernel is asked, and nothing changes here.                  *)
FileCall(t, h, op, method, off, n) ==
  /\ held[h] = "file" /\ get_file(h) # 0
  /\ job' = [job EXCEPT ![t] = [Idle EXCEPT !.at = "lock", !.op = op, !.e = engine, !.h = h,
               !.o = get_file(h), !.method = method, !.off = off, !.n = n]]
  /\ UNCHANGED <<routing, registry, kernel, volume, objects, searches, reached>>

(* A transfer is positioned, from an OVERLAPPED, or at the pointer. *)
ReadFile(t, h) ==
  /\ MayCall(t, "ReadFile")
  /\ \E n \in {0, 1} : \/ FileCall(t, h, "read", 1, 0, n)
                       \/ \E off \in Positions : FileCall(t, h, "read", 0, off, n)

WriteFile(t, h) ==
  /\ MayCall(t, "WriteFile")
  /\ \E n \in {0, 1} : \/ FileCall(t, h, "write", 1, 0, n)
                       \/ \E off \in Positions : FileCall(t, h, "write", 0, off, n)

(* The two signed halves of a 64-bit distance, as a caller passes them. *)
HighHalf(d) == d \div Half
LowHalf(d) == LET low == d % Half IN IF low >= Half \div 2 THEN low - Half ELSE low

(* (i64::from(high) << 32) | the low half read as a u32. *)
Combine(high, low) == high * Half + (low % Half)

Distances == (-Limit)..Limit
seek_from(method, d) == method \in {1, 2} \/ (method = 0 /\ d >= 0)

SetFilePointerEx(t, h) ==
  /\ MayCall(t, "SetFilePointerEx")
  /\ \E method \in 0..2, d \in Distances :
       seek_from(method, d) /\ FileCall(t, h, "seek", method, d, 0)

(* The distance is put together from the halves the caller passed, or is   *)
(* the low half alone, sign-extended, if lpDistanceToMoveHigh is null.     *)
SetFilePointer(t, h) ==
  /\ MayCall(t, "SetFilePointer")
  /\ \E method \in 0..2, d \in Distances :
       \/ /\ seek_from(method, Combine(HighHalf(d), LowHalf(d)))
          /\ FileCall(t, h, "seek_halves", method, d, 0)
       \/ /\ LowHalf(d) = d /\ seek_from(method, d)
          /\ FileCall(t, h, "seek", method, d, 0)

(* GetFileSize and GetFileInformationByHandle, and their Ex forms, ask the *)
(* stream for its size; FlushFileBuffers flushes it.  The cursor is where  *)
(* it was when the lock is let go.                                         *)
GetFileSize(t, h) == MayCall(t, "Query") /\ FileCall(t, h, "query", 1, 0, 0)
GetFileInformationByHandle(t, h) == MayCall(t, "Query") /\ FileCall(t, h, "query", 1, 0, 0)
FlushFileBuffers(t, h) == MayCall(t, "Query") /\ FileCall(t, h, "query", 1, 0, 0)

SetEndOfFile(t, h) == MayCall(t, "SetEndOfFile") /\ FileCall(t, h, "end", 0, 0, 0)

(* The move the shim asks the stream for. *)
Distance(j) == IF j.op = "seek_halves" THEN Combine(HighHalf(j.off), LowHalf(j.off)) ELSE j.off
Base(j) ==
  CASE j.method = 0 -> 0
    [] j.method = 1 -> open[j.o].pos
    [] j.method = 2 -> size[open[j.o].node]

(* Mutation: the lock is let go after the first call of the stream. *)
LockOnce(t, o) == UNCHANGED holder

(* The lock is kept while the stream is called again. *)
Lock(t, o) == holder' = [holder EXCEPT ![o] = t]
Unlock(o) == holder' = [holder EXCEPT ![o] = NoThread]

(* The lock of the OpenFile is taken, a refusal is told, and the pointer   *)
(* moves: to the OVERLAPPED's offset, or by SetFilePointer's distance.     *)
LockFile(t) ==
  LET j == job[t]  f == open[j.o]  to == Base(j) + Distance(j)
      refused == \/ j.op \in {"write", "end"} /\ ~f.writable
                 \/ j.op \in {"read", "write"} /\ f.overlapped
                 \/ j.op # "end" /\ to \notin Positions
  IN  /\ At(t, "lock") /\ holder[j.o] = NoThread
      /\ \/ refused /\ Return(t) /\ UNCHANGED <<open, holder>>
         \/ j.op = "query" /\ Return(t) /\ UNCHANGED <<open, holder>>
         \/ /\ ~refused /\ j.op \in {"seek", "seek_halves"} /\ Return(t)
            /\ open' = [open EXCEPT ![j.o].pos = to] /\ UNCHANGED holder
         \/ /\ ~refused /\ j.op \in {"read", "write"}
            /\ Lock(t, j.o)
            /\ open' = [open EXCEPT ![j.o].pos = to]
            /\ job' = [job EXCEPT ![t].at = "transfer", ![t].was = f.pos]
         \/ /\ ~refused /\ j.op = "end"
            /\ Lock(t, j.o) /\ UNCHANGED open
            /\ job' = [job EXCEPT ![t].at = "set_len", ![t].was = f.pos]
      /\ UNCHANGED <<routing, registry, kernel, volume, opened, searches, reached>>

(* A zero-length transfer is a no-op; a null buffer or the provider may    *)
(* fail it.                                                                *)
ReadStream(t) ==
  LET j == job[t]  f == open[j.o]
  IN  /\ At(t, "transfer") /\ j.op = "read" /\ Unlock(j.o) /\ Return(t)
      /\ \/ UNCHANGED open
         \/ f.pos + j.n <= size[f.node] /\ open' = [open EXCEPT ![j.o].pos = @ + j.n]
      /\ UNCHANGED <<routing, registry, kernel, volume, opened, searches, reached>>

WriteStream(t) ==
  LET j == job[t]  f == open[j.o]  end == f.pos + j.n
  IN  /\ At(t, "transfer") /\ j.op = "write" /\ Unlock(j.o) /\ Return(t)
      /\ \/ UNCHANGED <<open, size>>
         \/ /\ j.n > 0 /\ end \in Positions
            /\ open' = [open EXCEPT ![j.o].pos = end]
            /\ size' = [size EXCEPT ![f.node] = IF end > @ THEN end ELSE @]
      /\ UNCHANGED <<routing, registry, kernel, names, dirs, nodes, opened, searches,
                     reached>>

(* SetEndOfFile, after stream_position: set_len, which may fail. *)
SetLen(t) ==
  LET j == job[t]  f == open[j.o]
  IN  /\ At(t, "set_len") /\ Unlock(j.o) /\ Return(t)
      /\ \/ UNCHANGED size
         \/ size' = [size EXCEPT ![f.node] = j.was]
      /\ UNCHANGED <<routing, registry, kernel, names, dirs, nodes, open, opened,
                     searches, reached>>

-----------------------------------------------------------------------------
(* Closing a handle *)

(* Mutation: the file is looked up and not removed. *)
remove_file_get(h) == UNCHANGED files

remove_file(h) == files' = [files EXCEPT ![engine][h] = 0]
remove_find(h) == finds' = [finds EXCEPT ![engine][h] = 0]

(* The entry goes first, then the carrier; a handle the registry does not  *)
(* have is closed by the kernel at once.                                   *)
CloseHandle(t, h) ==
  /\ MayCall(t, "CloseHandle") /\ held[h] = "file"
  /\ held' = [held EXCEPT ![h] = "none"]
  /\ IF get_file(h) # 0
     THEN /\ remove_file(h)
          /\ job' = [job EXCEPT ![t] = [Idle EXCEPT !.at = "close", !.op = "CloseHandle", !.h = h]]
          /\ UNCHANGED table
     ELSE table' = [table EXCEPT ![h] = "free"] /\ UNCHANGED <<files, job>>
  /\ UNCHANGED <<routing, finds, volume, objects, searches, reached>>

FindClose(t, h) ==
  /\ MayCall(t, "FindClose") /\ held[h] = "search"
  /\ held' = [held EXCEPT ![h] = "none"]
  /\ IF get_find(h) # 0
     THEN /\ remove_find(h)
          /\ job' = [job EXCEPT ![t] = [Idle EXCEPT !.at = "close", !.op = "FindClose", !.h = h]]
          /\ UNCHANGED table
     ELSE table' = [table EXCEPT ![h] = "free"] /\ UNCHANGED <<finds, job>>
  /\ UNCHANGED <<routing, files, volume, objects, searches, reached>>

CloseCarrier(t) ==
  /\ At(t, "close")
  /\ table' = [table EXCEPT ![job[t].h] = "free"]
  /\ Return(t)
  /\ UNCHANGED <<routing, registry, held, volume, objects, searches, reached>>

-----------------------------------------------------------------------------
(* Searches of a directory *)

(* find_matches: the entries of the directory that match the last name of  *)
(* the pattern, as read_dir lists them.                                    *)
Matches(p) == SetToSeq({a \in Names : names[a] # 0 /\ (p = Star \/ a = p)})

(* FindFirstFileExW, FindFirstFileW. *)
FindFirstFile(t, p) ==
  /\ MayCall(t, "FindFirstFile")
  /\ \/ route(p) = "real" /\ KernelOpen("real", "search") /\ Reaches(p, "FindFirstFile")
        /\ UNCHANGED job
     \/ /\ route(p) = "virtual" /\ UNCHANGED <<kernel, reached>>
        /\ job' = [job EXCEPT ![t] = [Idle EXCEPT !.at = "list", !.op = "find", !.e = engine,
                     !.path = p]]
  /\ UNCHANGED <<routing, registry, volume, objects, searches>>

(* The directory is listed; if a name without wildcards is not there, the  *)
(* volume is asked for it once more, and a search that matches nothing is  *)
(* ERROR_FILE_NOT_FOUND.                                                   *)
find_matches(t, at) ==
  LET matches == Matches(job[t].path)
  IN  /\ At(t, at)
      /\ \/ matches = <<>> /\ at = "list" /\ job[t].path # Star
            /\ Goto(t, "exact") /\ UNCHANGED searches
         \/ matches = <<>> /\ (at = "exact" \/ job[t].path = Star)
            /\ Return(t) /\ UNCHANGED searches
         \/ /\ matches # <<>> /\ found < MaxFinds
            /\ found' = found + 1
            /\ find' = [find EXCEPT ![found + 1].entries = matches]
            /\ job' = [job EXCEPT ![t].at = "carrier", ![t].o = found + 1]
            /\ UNCHANGED given
      /\ UNCHANGED <<routing, registry, kernel, volume, objects, reached>>

(* carrier_find: a search of the Windows directory, or                     *)
(* ERROR_INTERNAL_ERROR.                                                   *)
carrier_find(t) ==
  /\ At(t, "carrier") /\ job[t].op = "find"
  /\ \/ Return(t) /\ UNCHANGED kernel
     \/ \E h \in Handles : /\ table[h] = "free"
                           /\ table' = [table EXCEPT ![h] = "search"] /\ UNCHANGED held
                           /\ job' = [job EXCEPT ![t].at = "insert", ![t].h = h]
  /\ UNCHANGED <<routing, registry, volume, objects, searches, reached>>

(* The first entry is removed and given; the rest is the FindState. *)
insert_find(t) ==
  LET j == job[t]  entries == find[j.o].entries
  IN  /\ At(t, "insert") /\ j.op = "find"
      /\ given' = [given EXCEPT ![j.o] = Append(@, Head(entries))]
      /\ find' = [find EXCEPT ![j.o].entries = Tail(entries)]
      /\ finds' = [finds EXCEPT ![j.e][j.h] = j.o]
      /\ held' = [held EXCEPT ![j.h] = "search"]
      /\ Return(t)
      /\ UNCHANGED <<routing, files, table, volume, objects, found, reached>>

FindNextFileW(t, h) ==
  /\ MayCall(t, "FindNextFile") /\ held[h] = "search" /\ get_find(h) # 0
  /\ job' = [job EXCEPT ![t] = [Idle EXCEPT !.at = "next", !.op = "next", !.h = h,
               !.o = get_find(h)]]
  /\ UNCHANGED <<routing, registry, kernel, volume, objects, searches, reached>>

(* Under the lock of the FindState: the entry at next, or                  *)
(* ERROR_NO_MORE_FILES.                                                    *)
GiveEntry(t) ==
  LET f == job[t].o  idx == find[f].next
  IN  /\ At(t, "next") /\ Return(t)
      /\ IF idx < Len(find[f].entries)
         THEN /\ given' = [given EXCEPT ![f] = Append(@, find[f].entries[idx + 1])]
              /\ find' = [find EXCEPT ![f].next = idx + 1]
         ELSE UNCHANGED <<given, find>>
      /\ UNCHANGED <<routing, registry, kernel, volume, objects, found, reached>>

-----------------------------------------------------------------------------
(* Calls on paths *)

(* The calls that change nothing: whether the kernel is asked for p. *)
GetFileAttributesW(p) == route(p) = "real"
GetFullPathNameW(p) == route(p) = "real"
GetDiskFreeSpaceA(p) == route(p) # "virtual"
GetDriveTypeW(p) == route(p) # "virtual"

PathQuery(t, p) ==
  /\ MayCall(t, "PathQuery")
  /\ \/ GetFileAttributesW(p) /\ Reaches(p, "GetFileAttributesW")
     \/ GetFullPathNameW(p) /\ Reaches(p, "GetFullPathNameW")
     \/ GetDiskFreeSpaceA(p) /\ Reaches(p, "GetDiskFreeSpaceA")
     \/ GetDriveTypeW(p) /\ Reaches(p, "GetDriveTypeW")
  /\ UNCHANGED <<routing, registry, kernel, volume, objects, searches, job>>

(* The calls that change the volume: a rejected path, or a volume that may *)
(* not be written, is ERROR_ACCESS_DENIED.                                 *)
Mutates(t, c, p) ==
  /\ MayCall(t, c) /\ route(p) = "virtual" /\ AllowWrites[engine]
  /\ UNCHANGED <<routing, registry, kernel, size, objects, searches, job, reached>>

DeleteFileW(t, p) ==
  /\ Mutates(t, "DeleteFile", p) /\ names[p] # 0
  /\ names' = [names EXCEPT ![p] = 0] /\ UNCHANGED <<dirs, nodes>>

CreateDirectoryW(t, p) ==
  /\ Mutates(t, "CreateDirectory", p) /\ names[p] = 0 /\ nodes < MaxNodes
  /\ names' = [names EXCEPT ![p] = nodes + 1]
  /\ dirs' = dirs \cup {nodes + 1} /\ nodes' = nodes + 1

(* From a virtual path only onto a virtual path, of the same engine; the   *)
(* destination is replaced by a node of its kind.  From a real path the    *)
(* kernel is asked, whatever the destination is.                           *)
MoveFileExW(t, from, to) ==
  \/ /\ Mutates(t, "MoveFile", from) /\ route(to) = "virtual"
     /\ names[from] # 0 /\ from # to
     /\ names[to] # 0 => (names[to] \in dirs) = (names[from] \in dirs)
     /\ names' = [names EXCEPT ![to] = names[from], ![from] = 0]
     /\ UNCHANGED <<dirs, nodes>>
  \/ /\ MayCall(t, "MoveFile") /\ route(from) = "real" /\ Reaches(to, "MoveFileExW")
     /\ UNCHANGED <<routing, registry, kernel, volume, objects, searches, job>>

-----------------------------------------------------------------------------
Next ==
  \/ try_activate \/ deactivate
  \/ \E t \in Threads :
       \/ \E p \in program.paths, m \in program.modes : CreateFileW(t, p, m[1], m[2], m[3])
       \/ OpenStream(t) \/ TruncateNode(t) \/ carrier_open(t) \/ insert_file(t)
       \/ \E h \in Handles :
            \/ ReadFile(t, h) \/ WriteFile(t, h) \/ SetFilePointerEx(t, h)
            \/ SetFilePointer(t, h) \/ SetEndOfFile(t, h) \/ GetFileSize(t, h)
            \/ GetFileInformationByHandle(t, h) \/ FlushFileBuffers(t, h)
            \/ CloseHandle(t, h) \/ FindNextFileW(t, h) \/ FindClose(t, h)
       \/ LockFile(t) \/ ReadStream(t) \/ WriteStream(t) \/ SetLen(t)
       \/ CloseCarrier(t)
       \/ \E p \in program.paths \cup {Star} : FindFirstFile(t, p)
       \/ \E at \in {"list", "exact"} : find_matches(t, at)
       \/ carrier_find(t) \/ insert_find(t) \/ GiveEntry(t)
       \/ \E p \in program.paths : PathQuery(t, p) \/ DeleteFileW(t, p) \/ CreateDirectoryW(t, p)
       \/ \E from, to \in program.paths : MoveFileExW(t, from, to)

Spec == Init /\ [][Next]_vars

-----------------------------------------------------------------------------
(* Properties *)

(* Whatever number the registry of the live installation knows is a        *)
(* carrier the shims opened and have not closed: if insert_file preceded   *)
(* the carrier, or CloseHandle closed it before it removed the entry, the  *)
(* kernel could give the number to a file of the disk and the shims would  *)
(* answer for it (registry.rs insert_file, remove_file, remove_find).      *)
CarrierBacked ==
  engine # 0 => \A h \in Handles :
    /\ files[engine][h] # 0 => table[h] = "nul"
    /\ finds[engine][h] # 0 => table[h] = "search"

(* No path under the prefix of a live installation reaches the kernel      *)
(* (router.rs: it is served by the VFS or fails closed).                   *)
NeverTouchDisk == reached = {}

(* The pointer a caller could see: the one before the lock was taken. *)
Pointer(o) == IF holder[o] = NoThread THEN open[o].pos ELSE job[holder[o]].was

(* What a caller knows of the open files, of the searches and of its call. *)
OpenFiles == [o \in Opens |-> [node |-> open[o].node, pos |-> Pointer(o)]]

Remaining(f) == SubSeq(find[f].entries, find[f].next + 1, Len(find[f].entries))
Searches == [f \in Finds |-> [left |-> Remaining(f), given |-> given[f]]]

Request(j) ==
  IF j.at \in {"lock", "transfer", "set_len"} /\ j.op # "query"
  THEN [op |-> IF j.op = "seek_halves" THEN "seek" ELSE j.op, o |-> j.o,
        method |-> j.method, off |-> j.off, n |-> j.n]
  ELSE [op |-> "none", o |-> 0, method |-> 0, off |-> 0, n |-> 0]
Requests == [t \in Threads |-> Request(job[t])]

(* The shims serve files as Windows does: each call on an open virtual     *)
(* file or search takes effect at one instant, though it locks the         *)
(* OpenFile, moves its pointer and calls the provider in several steps.    *)
Files == INSTANCE Win32Files WITH
  open <- OpenFiles, search <- Searches, asked <- Requests

ServedAtomically == Files!Spec
=============================================================================
