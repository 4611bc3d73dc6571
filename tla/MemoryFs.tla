------------------------------ MODULE MemoryFs ------------------------------
(***************************************************************************)
(* MemoryFs: the tree of nodes behind its read-write lock, the writable    *)
(* MemFiles shared by Arc, their handles, and the Volume that accounts for *)
(* their bytes.  Locks nest entries -> data -> used.  A client is a thread *)
(* with at most one handle; each of its steps is the code between two      *)
(* points where another thread can come in: a step that only needs the     *)
(* entries lock or the used lock is atomic, while a file's data lock is    *)
(* held from the reservation to the change of the buffer.                  *)
(* A call that fails before it changes anything is no step.                *)
(***************************************************************************)
EXTENDS MemTree, FiniteSets, FiniteSetsExt

CONSTANTS Keys,      \* keys below the root that callers name
          MountKeys, \* the ones that are mounted
          Files,     \* MemFile identities; a dropped one may be allocated again
          Clients,
          None,      \* no file
          Capacity,  \* Volume.capacity
          U64Max, UsizeMax,
          WriteLens, \* lengths of the buffers written and read
          SetLens,   \* lengths passed to set_len
          Offsets,   \* offsets passed to seek
          OpenModes, \* the OpenOptions used, see OpenOptions
          MaxMounts, \* bound: live MountGuards of one key
          Disciplined \* callers create nothing below a file (see WellFormed)

OpenOptions == [create: BOOLEAN, create_new: BOOLEAN, truncate: BOOLEAN, append: BOOLEAN]

ASSUME VolumeAssumption ==
  /\ Capacity \in Nat /\ U64Max \in Nat /\ UsizeMax \in Nat
  /\ Capacity < U64Max
  /\ WriteLens \subseteq Nat \ {0} /\ SetLens \subseteq 0..U64Max /\ Offsets \subseteq Int
  /\ MaxMounts \in Nat
  /\ None \notin Files
  /\ Files \cap {"dir", "source"} = {}
  /\ Root \notin Keys /\ MountKeys \subseteq Keys
  /\ \A k \in Keys : Ancestors(k) \subseteq Keys \cup {Root}
  /\ OpenModes \subseteq OpenOptions

ASSUME FiniteAssumption == IsFiniteSet(Files) /\ IsFiniteSet(Clients)

(* A key is a sequence of path components. *)
Component == UNION {Range(k) : k \in Keys}

ASSUME KeysAssumption == Keys \subseteq Seq(Component)

VARIABLES
  tree,   \* MemoryFs.entries
  data,   \* [Files -> Seq(0..1)], MemFile.data: 1 a byte written, 0 a byte filled in
  used,   \* Volume.used
  guards, \* [MountKeys -> 0..MaxMounts], live MountGuards
  pc,     \* [Clients -> PC], where the client's call stands
  fd,     \* [Clients -> Files \cup {None}], the Arc<MemFile> of its handle or call
  mode,   \* [Clients -> {"read", "write", "append"}], how it was opened
  pos,    \* [Clients -> 0..U64Max], MemFileHandle.pos
  goal,   \* [Clients -> Nat], the length the reservation in hand is for
  count   \* [Clients -> Nat], how many bytes of the buffer fit

vars == <<tree, data, used, guards, pc, fd, mode, pos, goal, count>>
call == <<mode, pos, goal, count>>

(* idle: no handle; open: a handle and no call; the others: inside a call. *)
PC == {"idle", "open", "truncate", "truncating", "position", "resizing", "filling", "undoing",
       "path_wait", "path_resizing"}

IsTree(t) ==
  /\ DOMAIN t \subseteq Keys \cup {Root}
  /\ \A k \in DOMAIN t : t[k] \in {"dir", "source"} \cup Files

TypeOK ==
  /\ IsTree(tree)
  /\ data \in [Files -> Seq(0..1)]
  /\ used \in Nat
  /\ guards \in [MountKeys -> 0..MaxMounts]
  /\ pc \in [Clients -> PC]
  /\ fd \in [Clients -> Files \cup {None}]
  /\ mode \in [Clients -> {"read", "write", "append"}]
  /\ pos \in [Clients -> 0..U64Max]
  /\ goal \in [Clients -> 0..U64Max] /\ count \in [Clients -> Nat]

Init ==
  /\ tree = << >>   \* no entries yet
  /\ data = [f \in Files |-> <<>>]
  /\ used = 0
  /\ guards = [k \in MountKeys |-> 0]
  /\ pc = [c \in Clients |-> "idle"]
  /\ fd = [c \in Clients |-> None]
  /\ mode = [c \in Clients |-> "read"]
  /\ pos = [c \in Clients |-> 0]
  /\ goal = [c \in Clients |-> 0] /\ count = [c \in Clients |-> 0]

-----------------------------------------------------------------------------
(* Volume *)

SatSub(a, b) == IF b \in 0..a THEN a - b ELSE 0

Least(a, b) == IF a < b THEN a ELSE b
Greatest(a, b) == IF a < b THEN b ELSE a

(* Volume::resize: whether it succeeds, and what used becomes. *)
CanResize(old, new) == new >= old => Least(used + (new - old), U64Max) <= Capacity
Resized(old, new) == IF new >= old THEN used + (new - old) ELSE SatSub(used, old - new)

(* Mutation: growth is granted whatever is free. *)
reserve_unlimited(old, desired) == old + SatSub(desired, old)

(* Mutation: growth is granted in full or not at all. *)
reserve_all_or_nothing(old, desired) ==
  IF SatSub(desired, old) <= SatSub(Capacity, used) THEN old + SatSub(desired, old) ELSE old

(* Volume::reserve: the length granted. *)
reserve(old, desired) == old + Least(SatSub(desired, old), SatSub(Capacity, used))

(* Volume::release *)
release(len) == SatSub(used, len)

-----------------------------------------------------------------------------
(* Locks and references *)

(* The data lock is held from a reservation to the change of the buffer. *)
Locking == {"truncating", "resizing", "filling", "undoing", "path_resizing"}

DataFree(f) == \A c \in Clients : ~(pc[c] \in Locking /\ fd[c] = f)

(* set_len(path) holds the entries lock shared; the other users take it exclusively. *)
EntriesFree == \A c \in Clients : pc[c] \notin {"path_wait", "path_resizing"}

Referenced(t, h) == {f \in Files : (\E k \in DOMAIN t : t[k] = f) \/ (\E c \in Clients : h[c] = f)}

(* Mutation: unlinking an entry releases its bytes, open handles or not. *)
DropAtUnlink(t, h) ==
  LET dead == {f \in Files : (\E k \in DOMAIN tree : tree[k] = f) /\ \A k \in DOMAIN t : t[k] # f}
  IN /\ used' = release(MapThenSumSet(LAMBDA f : Len(data[f]), dead))
     /\ data' = data

(* Drop for MemFile, of every file whose last Arc goes when tree, fd become t, h. *)
DropFiles(t, h) ==
  LET dead == Referenced(tree, fd) \ Referenced(t, h)
  IN /\ used' = release(MapThenSumSet(LAMBDA f : Len(data[f]), dead))
     /\ data' = [f \in Files |-> IF f \in dead THEN <<>> ELSE data[f]]

Fresh == Files \ Referenced(tree, fd)
MemFileNew == CHOOSE f \in Fresh : TRUE

At(c, from, to) == pc[c] = from /\ pc' = [pc EXCEPT ![c] = to]

(* What a caller of Disciplined mode keeps to when it creates k. *)
FilesAreLeaves(t, k) ==
  Disciplined => \A a \in Ancestors(k) : a \in DOMAIN t => t[a] = "dir"

-----------------------------------------------------------------------------
(* VirtualFs::open, open_write *)

(* A directory is refused; a source opens as a cursor of its own, not a MemFile. *)
open(c, k) ==
  /\ At(c, "idle", "open")
  /\ k \in DOMAIN tree /\ tree[k] \in Files
  /\ fd' = [fd EXCEPT ![c] = tree[k]]
  /\ mode' = [mode EXCEPT ![c] = "read"]
  /\ pos' = [pos EXCEPT ![c] = 0]
  /\ UNCHANGED <<tree, data, used, guards, goal, count>>

(* Under the entries lock: find the file, or create it with its ancestors. *)
open_write(c, k, opts) ==
  /\ pc[c] = "idle" /\ EntriesFree
  /\ \/ /\ k \in DOMAIN tree /\ tree[k] \in Files
        /\ ~opts.create_new
        /\ fd' = [fd EXCEPT ![c] = tree[k]]
        /\ UNCHANGED tree
     \/ /\ k \notin DOMAIN tree
        /\ opts.create \/ opts.create_new
        /\ FilesAreLeaves(tree, k)
        /\ Fresh # {}
        /\ fd' = [fd EXCEPT ![c] = MemFileNew]
        /\ tree' = Insert(tree, k, MemFileNew)
  /\ pc' = [pc EXCEPT ![c] = IF opts.truncate THEN "truncate" ELSE "position"]
  /\ mode' = [mode EXCEPT ![c] = IF opts.append THEN "append" ELSE "write"]
  /\ UNCHANGED <<data, used, guards, pos, goal, count>>

(* file.set_len(0), the tree unlocked: the volume, then the buffer. *)
TruncateOnOpen(c) ==
  /\ At(c, "truncate", "truncating") /\ DataFree(fd[c])
  /\ used' = Resized(Len(data[fd[c]]), 0)
  /\ goal' = [goal EXCEPT ![c] = 0]
  /\ UNCHANGED <<tree, data, guards, fd, mode, pos, count>>

(* MemFileHandle::at_end or new. *)
Position(c) ==
  /\ At(c, "position", "open")
  /\ IF mode[c] = "append"
       THEN DataFree(fd[c]) /\ pos' = [pos EXCEPT ![c] = Len(data[fd[c]])]
       ELSE pos' = [pos EXCEPT ![c] = 0]
  /\ UNCHANGED <<tree, data, used, guards, fd, mode, goal, count>>

-----------------------------------------------------------------------------
(* MemFileHandle *)

read(c, n) ==
  /\ pc[c] = "open" /\ DataFree(fd[c])
  /\ pos' = [pos EXCEPT ![c] = @ + Least(n, SatSub(Len(data[fd[c]]), @))]
  /\ UNCHANGED <<tree, data, used, guards, pc, fd, mode, goal, count>>

(* Mutation: a target past u64 is not refused. *)
seek_unchecked(c, from, off) ==
  LET base == CASE from = "start" -> 0 [] from = "end" -> Len(data[fd[c]]) [] OTHER -> pos[c]
  IN /\ pc[c] = "open" /\ DataFree(fd[c])
     /\ pos' = [pos EXCEPT ![c] = base + off]
     /\ UNCHANGED <<tree, data, used, guards, pc, fd, mode, goal, count>>

(* SeekFrom::Start, End, Current; a target below zero or past u64 is refused. *)
seek(c, from, off) ==
  LET base == CASE from = "start" -> 0 [] from = "end" -> Len(data[fd[c]]) [] OTHER -> pos[c]
  IN /\ pc[c] = "open" /\ DataFree(fd[c])
     /\ base + off \in 0..U64Max
     /\ pos' = [pos EXCEPT ![c] = base + off]
     /\ UNCHANGED <<tree, data, used, guards, pc, fd, mode, goal, count>>

(***************************************************************************)
(* write_at up to the reservation: as much growth as the volume can spare. *)
(* With no byte of the buffer inside the grant, or a length this platform  *)
(* cannot address, the reservation is to be undone and the call fails.     *)
(***************************************************************************)
write(c, n) ==
  LET old == Len(data[fd[c]])
      granted == reserve(old, Greatest(pos[c] + n, old))
      fits == Least(SatSub(granted, pos[c]), n)
  IN /\ pc[c] = "open" /\ mode[c] # "read" /\ DataFree(fd[c])
     /\ pos[c] + n <= U64Max
     /\ used' = used + (granted - old)
     /\ goal' = [goal EXCEPT ![c] = granted]
     /\ count' = [count EXCEPT ![c] = fits]
     /\ pc' = [pc EXCEPT ![c] = IF fits = 0 \/ granted > UsizeMax \/ pos[c] > UsizeMax
                                  THEN "undoing" ELSE "filling"]
     /\ UNCHANGED <<tree, data, guards, fd, mode, pos>>

(* The call's local variables go. *)
Return(c) == goal' = [goal EXCEPT ![c] = 0] /\ count' = [count EXCEPT ![c] = 0]

(* Mutation: the bytes gained keep what the allocation held before. *)
ResizedToStale(s, len) == [i \in 1..len |-> IF i <= Len(s) THEN s[i] ELSE 1]

ResizedTo(s, len) == [i \in 1..len |-> IF i <= Len(s) THEN s[i] ELSE 0]

(* Extend the buffer with zeros, copy the bytes that fit, move the cursor. *)
Fill(c) ==
  LET old == data[fd[c]]
      grown == ResizedTo(old, Greatest(goal[c], Len(old)))
  IN /\ At(c, "filling", "open")
     /\ data' = [data EXCEPT ![fd[c]] =
          [i \in DOMAIN grown |-> IF i \in (pos[c] + 1)..(pos[c] + count[c]) THEN 1 ELSE grown[i]]]
     /\ pos' = [pos EXCEPT ![c] = @ + count[c]]
     /\ Return(c)
     /\ UNCHANGED <<tree, used, guards, fd, mode>>

(* Mutation: the failed write keeps its reservation. *)
UndoForgotten(c) ==
  /\ At(c, "undoing", "open")
  /\ Return(c)
  /\ UNCHANGED <<tree, data, used, guards, fd, mode, pos>>

(* The speculative reservation is handed back. *)
Undo(c) ==
  /\ At(c, "undoing", "open")
  /\ used' = release(SatSub(goal[c], Len(data[fd[c]])))
  /\ Return(c)
  /\ UNCHANGED <<tree, data, guards, fd, mode, pos>>

(* MemFile::set_len through a handle: the volume first, all or nothing. *)
set_len(c, len) ==
  /\ At(c, "open", "resizing") /\ mode[c] # "read" /\ DataFree(fd[c])
  /\ CanResize(Len(data[fd[c]]), len)
  /\ used' = Resized(Len(data[fd[c]]), len)
  /\ goal' = [goal EXCEPT ![c] = len]
  /\ UNCHANGED <<tree, data, guards, fd, mode, pos, count>>

(***************************************************************************)
(* The buffer follows, unless the length is not addressable: the call then *)
(* fails, and what the volume has accounted for stays as it is.            *)
(***************************************************************************)
ResizeData(c) ==
  /\ \/ At(c, "truncating", "position") /\ UNCHANGED fd
     \/ At(c, "resizing", "open") /\ UNCHANGED fd
     \/ At(c, "path_resizing", "idle") /\ fd' = [fd EXCEPT ![c] = None]
  /\ data' = IF goal[c] <= UsizeMax
               THEN [data EXCEPT ![fd[c]] = ResizedTo(@, goal[c])]
               ELSE data
  /\ Return(c)
  /\ UNCHANGED <<tree, used, guards, mode, pos>>

Close(c) ==
  /\ At(c, "open", "idle")
  /\ fd' = [fd EXCEPT ![c] = None]
  /\ mode' = [mode EXCEPT ![c] = "read"] /\ pos' = [pos EXCEPT ![c] = 0]
  /\ DropFiles(tree, fd')
  /\ UNCHANGED <<tree, guards, goal, count>>

-----------------------------------------------------------------------------
(* VirtualFs, by path *)

(* MemoryFs::set_len: takes the entries lock shared and keeps it to the end. *)
SetLenByPath(c, k) ==
  /\ At(c, "idle", "path_wait")
  /\ k \in DOMAIN tree /\ tree[k] \in Files
  /\ fd' = [fd EXCEPT ![c] = tree[k]]
  /\ UNCHANGED <<tree, data, used, guards, call>>

ResizeByPath(c, len) ==
  /\ pc[c] = "path_wait" /\ DataFree(fd[c])
  /\ IF CanResize(Len(data[fd[c]]), len)
       THEN /\ pc' = [pc EXCEPT ![c] = "path_resizing"]
            /\ used' = Resized(Len(data[fd[c]]), len)
            /\ goal' = [goal EXCEPT ![c] = len]
            /\ UNCHANGED fd
       ELSE /\ pc' = [pc EXCEPT ![c] = "idle"]
            /\ fd' = [fd EXCEPT ![c] = None]
            /\ UNCHANGED <<used, goal>>
  /\ UNCHANGED <<tree, data, guards, mode, pos, count>>

remove(k) ==
  /\ EntriesFree
  /\ CanRemove(tree, k)
  /\ tree' = Without(tree, {k})
  /\ DropFiles(tree', fd)
  /\ UNCHANGED <<guards, pc, fd, call>>

Rename(from, to) ==
  /\ EntriesFree
  /\ CanRename(tree, from, to) /\ FilesAreLeaves(tree, to)
  /\ tree' = rename(tree, from, to)
  /\ DOMAIN tree' \subseteq Keys \cup {Root}   \* within the keys explored
  /\ DropFiles(tree', fd)
  /\ UNCHANGED <<guards, pc, fd, call>>

create_dir(k) ==
  /\ EntriesFree
  /\ k \notin DOMAIN tree /\ FilesAreLeaves(tree, k)
  /\ tree' = Insert(tree, k, "dir")
  /\ UNCHANGED <<data, used, guards, pc, fd, call>>

-----------------------------------------------------------------------------
(* Hookfs::mount, mount_writable and MountGuard::drop *)

(* map.insert replaces whatever stands at the key. *)
InsertMount(k, node) ==
  /\ EntriesFree
  /\ guards[k] < MaxMounts
  /\ FilesAreLeaves(tree, k) /\ (Disciplined => ~IsDir(tree, k))
  /\ tree' = Insert(tree, k, node)
  /\ guards' = [guards EXCEPT ![k] = @ + 1]
  /\ DropFiles(tree', fd)
  /\ UNCHANGED <<pc, fd, call>>

mount(k) == InsertMount(k, "source")

mount_writable(k) == Fresh # {} /\ InsertMount(k, MemFileNew)

Unmount(k) ==
  /\ EntriesFree
  /\ guards[k] > 0
  /\ guards' = [guards EXCEPT ![k] = @ - 1]
  /\ tree' = remove_subtree(tree, k)
  /\ DropFiles(tree', fd)
  /\ UNCHANGED <<pc, fd, call>>

-----------------------------------------------------------------------------
Next ==
  \/ \E c \in Clients :
       \/ \E k \in Keys : open(c, k) \/ SetLenByPath(c, k)
       \/ \E k \in Keys, opts \in OpenModes : open_write(c, k, opts)
       \/ \E n \in WriteLens : read(c, n) \/ write(c, n)
       \/ \E from \in {"start", "end", "current"}, off \in Offsets : seek(c, from, off)
       \/ \E len \in SetLens : set_len(c, len) \/ ResizeByPath(c, len)
       \/ TruncateOnOpen(c) \/ Position(c) \/ Fill(c) \/ Undo(c) \/ ResizeData(c) \/ Close(c)
  \/ \E k \in Keys : remove(k) \/ create_dir(k)
  \/ \E from, to \in Keys : Rename(from, to)
  \/ \E k \in MountKeys : mount(k) \/ mount_writable(k) \/ Unmount(k)

Spec == Init /\ [][Next]_vars

-----------------------------------------------------------------------------
(* Properties *)

(* What a client's reservation has accounted for and its file's length has not. *)
Reserved(c) == IF pc[c] \in Locking THEN goal[c] - Len(data[fd[c]]) ELSE 0

(***************************************************************************)
(* Volume: "used can never under-count a still-referenced file or leak a   *)
(* dropped one".  At every moment it is the sum of the lengths of the      *)
(* files some entry or handle still refers to, plus the reservations in    *)
(* hand of calls that hold a data lock: through short writes, undone gaps, *)
(* truncations, unlink with open handles, replacing renames and unmounts.  *)
(***************************************************************************)
AccountingExact ==
  used = MapThenSumSet(LAMBDA f : Len(data[f]), Referenced(tree, fd))
           + MapThenSumSet(Reserved, Clients)

(***************************************************************************)
(* Concurrent reservations of several files together never exceed the      *)
(* volume's capacity.                                                      *)
(***************************************************************************)
WithinCapacity == used <= Capacity

(***************************************************************************)
(* write_at, set_len: bytes a file gains are the writer's own inside the   *)
(* range it reported as written and zeros elsewhere (no byte of an earlier *)
(* life of the buffer comes back), and bytes it had change only inside     *)
(* that range, although a handle's cursor may point anywhere.              *)
(***************************************************************************)
WritesStayInRange ==
  [][\A f \in Referenced(tree, fd) \cap Referenced(tree', fd') :
       \A i \in 1..Len(data'[f]) :
         \/ i <= Len(data[f]) /\ data'[f][i] = data[f][i]
         \/ i > Len(data[f]) /\ data'[f][i] = 0
         \/ \E c \in Clients : fd[c] = f /\ i \in (pos[c] + 1)..pos'[c]]_vars

(***************************************************************************)
(* write_at: "a short count when only part fits within the remaining       *)
(* capacity, and Err(ENOSPC) only when not a single byte fits".  A write   *)
(* that stores less than its buffer has taken the volume's last free byte, *)
(* other clients' reservations included.                                   *)
(***************************************************************************)
ShortOnlyWhenFull ==
  [][\A c \in Clients, n \in WriteLens :
       write(c, n) /\ count'[c] < n => used' = Capacity]_vars

(***************************************************************************)
(* While callers create nothing below a file, every entry can be reached   *)
(* by listing directories from the root: its parent is a directory entry.  *)
(* Renames of whole subtrees, replaced directories, unlinks and the        *)
(* pruning of ancestors at unmount keep it so.                             *)
(***************************************************************************)
WellFormed ==
  Disciplined => \A k \in DOMAIN tree \ {Root} : IsDir(tree, parent_key(k))

(***************************************************************************)
(* remove_subtree: "keeps a clip's teardown to its own subtree without     *)
(* disturbing sibling clips": apart from the subtree, only directories     *)
(* above it that hold no other entry go; all of those go if the mounted    *)
(* name is still there (once a client has unlinked it and its directory,   *)
(* the walk up stops at the gap).                                          *)
(***************************************************************************)
UnmountIsLocal ==
  [][\A k \in MountKeys : guards'[k] < guards[k] =>
       \A x \in DOMAIN tree :
         LET idle == x # Root /\ Below(k, x)
                       /\ \A y \in DOMAIN tree : Below(y, x) => InSubtree(y, k) \/ Below(k, y)
         IN /\ x \notin DOMAIN tree' => InSubtree(x, k) \/ idle
            /\ k \in DOMAIN tree /\ (InSubtree(x, k) \/ idle) => x \notin DOMAIN tree']_vars

(***************************************************************************)
(* rename: "a destination is never left holding stray children" and "no    *)
(* insert overwrites a stray node".  Nothing but the replaced node leaves  *)
(* the tree, the moved subtree arrives whole, and what is then below the   *)
(* destination is what was below the source.  Claimed of callers who       *)
(* create nothing below a file (Disciplined): the tree takes such an entry *)
(* too, and a rename onto the file would then adopt it.                    *)
(***************************************************************************)
RenameMovesExactly ==
  [][\A from, to \in Keys : Rename(from, to) =>
       /\ \A k \in DOMAIN tree \ {to} :
            LET new == IF InSubtree(k, from) THEN rekey(k, from, to) ELSE k
            IN new \in DOMAIN tree' /\ tree'[new] = tree[k]
       /\ \A k \in DOMAIN tree' :
            InSubtree(k, to) => rekey(k, to, from) \in DOMAIN tree]_vars
=============================================================================
