# hookfs verified: TLA+ models, TLC runs and TLAPS proofs

hookfs serves in-memory files to native code that only knows paths. It patches
the import slots of loaded modules (crate `plthook`), routes the calls that reach
its shims (crate `hookfs`) and answers the virtual ones from an in-memory tree.
This directory models that machinery, checks it on small instances with TLC and
proves part of it, for every instance, with TLAPS. `PROJECT.json` maps every
definition to the lines it models and lists runs, mutants, hazards, findings and
theorems.

## 1. Inventory

| Component | State | Operations | What makes it correct |
|---|---|---|---|
| slot transaction (`plthook/src/slot.rs`) | import slots, page protections, `install_lock`, `HookGuard` | `install`, `apply` with rollback, `PageProtector::{make_writable, restore}`, `HookGuard::restore` | writes only on writable pages; protections come back; a failed install leaves nothing patched; a restore never undoes somebody else's write |
| import matching (`slot.rs`) | none | `match_replacement`, resolution loop, page list | each slot once, required symbols present, each page once |
| image parsers (`elf.rs`, `macho.rs`, `pe.rs`, `module*.rs`) | `Module`, with the thin slice of its file read once | acquisition, `imports`: walk of relocations, bind opcodes, chained fixups, import descriptors | exactly the slots the linker recorded, in bounds and aligned, signed ones marked, whatever becomes of the file |
| installation (`hookfs/src/install.rs`) | `Installer{guards, hooked_bases}`, `InstallGuard` | install, rescan, drop | all or nothing; each module patched once; all restored at the end |
| dispatch (`dispatch.rs`) | `ACTIVE`, `RESCAN`, `ORIGINALS`, `IN_HOOK` | `try_activate`, `deactivate`, `set_/clear_/trigger_rescan`, `HookScope`, `guard_abi` | one active installation; a shim always finds an original |
| POSIX shims (`shims/unix.rs`, `trampolines.rs`, `macos.rs`) | carrier descriptors, cookie streams, `DIR*` objects, virtual cwd | open/read/write/seek/close/stat/rename/… | a virtual path never reaches the real filesystem, nor the reverse; descriptor and stream lifetimes |
| Win32 shims (`shims/windows.rs`) | handle table, find handles | CreateFile/ReadFile/Find…/MoveFile… | the same |
| registry (`registry.rs`) | descriptor -> `OpenFile` | insert, get, remove | entry and carrier live and die together |
| router (`router.rs`), namespace (`namespace.rs`) | namespace root, `allow_writes` | `classify`, key normalisation, wildcards | every spelling of a path gets the same verdict |
| MemoryFs (`providers/memory.rs`) | key -> node map, `MemFile` buffers, `Volume.used`, handles | open, read, write, seek, set_len, remove, rename, create_dir | exact accounting, capacity, tree shape |
| OverlayFs (`providers/overlay.rs`) | list of providers | first one that answers | a change is seen where it was made |
| mounts (`mount.rs`), sources (`vfs.rs`) | mounted keys, `MountGuard`, `SharedSource` | mount, mount_writable, drop | a guard removes its own subtree and nothing else |

How they interact: `install()` publishes an engine in `ACTIVE`, fills `ORIGINALS`,
runs one plthook transaction per module and registers a rescan callback.
A hooked `dlopen` runs the callback, which hooks new modules. Shims classify the
path with the active engine and call the provider or the original. Mount guards
and install guards are dropped by the application at any time.

What is hard: guards, rescans and drops on several threads around three global
locks; kernel calls that fail in the middle of a transaction and of its rollback;
slots changed by code that does not take the lock; modules that disappear;
descriptors, handles and heap addresses that are handed out again; calls of two
paths, or of two provider calls, with another thread in between; installations
that are replaced under open streams; capacity shared by files that are unlinked
while open; lengths and offsets at the edge of `usize`, `u64` and a segment;
whole-subtree renames and pruning; the many spellings of one path.

## 2. Plan

1. **Done:** `ImportMatch`, `SlotTransaction` (plthook); `Installation`
   (install, dispatch globals, loader shims); `MemTree`, `MemoryFs` (provider and
   mounts); type and main safety theorems of these. `Descriptors` (registry,
   carriers, the POSIX calls on descriptors, `HookScope`, `guard_abi`).
2. **Done:** `Namespace`, `OverlayFs`, `PathShims` (router, names, working
   directory, directory and cookie streams); `ElfImports`, `MachOImports`,
   `PeImports`, `ModuleImports` (the parsers and the module they belong to);
   `WinHandles`, and `Win32Files`, which it is shown to implement.
3. **Done:** theorems for every invariant and action property of the runs that the
   prover can reach (section 6): the slot, installation, tree, accounting, descriptor
   and pointer invariants, what the parsers hand to `install()`, and the refinement
   `WinHandles` => `Win32Files`.
4. If the model grows again: `wildcard_match` against a reference definition,
   `SharedSource`, an atomic patch that `SlotTransaction` implements.

## 3. Modules and the code

**`ImportMatch`** computes, from parsed imports and requests, what `install()` decides
before its first write: the matched slots in order without duplicates, or the
error, and the pages of `make_writable`, each once. Library names are values equal
when they match ignoring case; `sys::resolve_original` is the field `resolves`.

**`SlotTransaction`** is the write phase. `txn` is the critical section of
`install_lock`: its owner, which of the three users of `PageProtector` runs
(`apply`, its rollback, `HookGuard::restore`), the loop it is in and the index.
Each `mprotect`, swap and compare-exchange is an action, and each `mprotect` may
fail. Outside the lock: `Foreign` (the lazy binder or another hooking library
stores a pointer at any moment), `Unload` and `Load` (the image goes, and the same
or another one is mapped at its base). `Plan` is a constant, computed by
`ImportMatch` in the MC module. History variables (`stuck`, `conflict`, `orphaned`)
record outcomes the code reports or swallows. Unloading in the middle of a
transaction is excluded, as the crate documents. `image = "other"` stands for a
module that does not contain the slot addresses (`slot_belongs_to_module` false).

**`Installation`** is one level up: a whole plthook transaction on a module is one
step and one slot stands for a module's slots, since every installation writes the
same shim addresses. `pc` follows `install_with_namespace` and the drop of the
`InstallGuard`; `tpc` follows a thread through `shim_dlopen`, `trigger_rescan` and
`Installer::rescan`. References to the `Installer` are counted from `rescan_cb`,
`tcb` and the guard (`HeldElsewhere`), because the thread that drops the last one
drops the guards still in it. A rescan through `&InstallGuard` keeps the guard from
being dropped (`borrowed`); one through the callback does not. `ORIGINALS` is one
Boolean: `refresh_originals` writes what `dlsym` already answered. There are no lock
variables: `ACTIVE`, `RESCAN`, `guards` and `hooked_bases` are each taken for one
read or update, never one inside another, so each critical section is one step.

**`MemTree`** has the tree operations as pure operators on a function from keys
(sequences of components) to nodes. `remove_subtree` is a closed form of the
pruning loop. The root is its own parent, as `parent_key` has it, so it is never
pruned.

**`MemoryFs`** adds buffers, `Volume.used`, clients with one handle each and mount
guards. Locks nest entries, data, used: an operation under the entries lock is one
action; a write, truncate or extension is two (the volume is changed, then the
buffer) with the data lock held between them, so other clients' operations come in
between. Truncation on open and positioning are steps of their own because
`open_write` drops the tree lock first. A byte is 1 if written and 0 if filled in.
Modification times, display names and listings are left out; `insert_file`'s debug
assertion is modelled as in a release build. `Disciplined` is the callers' habit of
creating nothing below a file, which the code does not enforce.

**`Descriptors`** is the registry and the POSIX calls on descriptors. `table` is the
kernel's descriptor table, `files` the registry of each engine, `held` what the
program believes it has: the first two are changed by separate steps of a shim, the
last when a call returns a number or starts to close one. A shim's steps are those
between which another thread can act: enter the scope and clone the engine (`Begin`),
clone or remove the registry entry (`get_file`, `remove_file`), lock the open file,
call the provider, call the original. `read` stands for `readv` too, `write` for
`writev`, `open` for `open64` and `openat`; a path is virtual or real. The provider
is any `FileStream`: transfers of any length, past the end of the file too (a write
grows it), failing transfers and seeks, panics (`MaxPanics`), and a hooked
call of its own on the same thread, the processes of depth 2. `reach` bounds the
positions. Its destructor is assumed not to panic. The program uses numbers it holds
and closes each once. Two history variables: `expect`, the cursor as `read`, `write`
and `lseek` alone would leave it, and `strayed`, that a seek back failed: `pread` and
`pwrite` drop its error and `size` returns it, and in each case the cursor stays where
it is until an absolute `lseek` sets it. Appending streams, whose cursor jumps, are in
`MemoryFs`.

**`RawImports`, `ElfImports`, `MachOImports`, `PeImports`** are pure: each has the
parser of one format over an image whose tables are records and functions from
offsets, with `Malformed` for an error and `None` for an absent part. Arithmetic
that the code wraps or checks is wrapped or checked (`Word`); a read is all or
nothing at an offset. What is abstracted are the bytes: uleb and sleb decoding,
name characters (a Mach-O name is a sequence of pieces, so that stripping `_` and
`$INODE64` is done and not assumed), and the size caps, which are constants.

**`ModuleImports`** is the state around them: a module, its file, which may be
removed at any time (`ReplaceFile`, the file system, external), and the thin slice
that the first enumeration of a chained Mach-O image reads from that file and
keeps. `MCImages` has a small linker per format, which lays out what an image
imports in every encoding the parser reads and so knows the right answer
(`listing`), and a list of defects.

**`Namespace`** is on characters, because it is about spelling: a path is the
sequence of its characters, in the POSIX and the Windows form (`Windows`).
`classify` is `Engine::classify`. What a path should be is stated apart from it, on the
names between the separators (`Meant`, `Resolved`, `Wanted` in `PathShims`). Where the
comments of namespace.rs and its code differ, `Wanted` takes no side (section 5).
**`OverlayFs`** is the choice of the layer, and the
effect of a change on a `MemoryFs` layer of one directory level (`MemTree` has the
real tree).

**`PathShims`** is the shims that take a path or give out a pointer. A call of one
path is one step: it routes, and then calls the provider once with the resolved
path, which nothing another thread does in between changes; a call of
two paths routes twice (`RouteFrom`, then `link` or `rename`) with other threads, a
`chdir` or a new installation in between. `heap` gives what is at an address,
`dirs` the registry's `DIR*` set, `held` the streams the program has open. libc, asked
to close an object of an installation that has gone, may do anything to it.

**`WinHandles`** is the Win32 counterpart of `Descriptors`, with the volume of
one directory added: `files`, `finds` are the registry, `table` the kernel's handles,
`open` and `find` the objects. A call looks its handle up in one step, locks the
`OpenFile` in the next and calls the provider in the one after. `program` picks what
the two threads may do, so that each question has a small state space of its own.

**`Win32Files`** is the abstract specification: a call on an open file or a search is
one step between its request and its answer. `WinHandles` implements it
(`ServedAtomically`) under the mapping that shows the file pointer as it was before
the lock was taken, the request of every thread in a call, and what is left of a
search's snapshot.

## 4. Runs

| Run | Instance | Shows |
|---|---|---|
| `slot_transaction` | 3 slots on 2 pages (one RELRO, one writable), 4 installs (two overlapping, one refused, one empty), 2 `mprotect` failures anywhere, 1 foreign write, 1 reload | writes only on writable pages, protections restored unless the kernel refuses, failed installs unpatched, nested guards restore the load-time values, later hooks survive, the lock is released |
| `slot_rollback` (violation) | 1 failure | the comment on `apply()` promises more than the rollback does, see findings |
| `installation` | 2 installs, 2 threads, a program and a plugin, 1 load, 1 failing patch | a live installation owns the globals, shims are served, one guard per module, nothing left patched at the end, found modules get hooked, drops come to an end |
| `installation_reinstall` (violation) | as above | a rescan that outlives its guard can unhook the next installation |
| `memory_volume` | 2 clients, 2 files, capacity 2, `u64` = 3 | exact accounting, capacity, zero fill, short writes only at a full volume |
| `memory_tree` | 6 keys to depth 3, 2 mounts, 1 client | tree shape, unmount and rename, accounting with open handles |
| `descriptors` | 2 threads, 2 numbers, 2 streams, 2 installations of which one allows writes; and 2 threads with every call on 1 stream with positions up to 2, failing seeks back, 1 panic, reentrant providers | a registered number is a carrier, descriptors lead to their own streams, no carrier leaks, read-only providers are not asked to write; positional calls leave the cursor alone unless the provider panics or refuses the seek back, no thread waits for itself |
| `cursors_panic` (violation) | the second half of it | a panic inside `pread` moves the cursor |
| `images` | 2 237 images: Mach-O of 3 slots in 10 encodings (thin, fat, without a file), ELF of 3 relocations with versions, PE with import and delay directories; a defect of each kind; the file removed at any time | listed slots are aligned and inside the image, signed slots are refused, a sound image lists what was linked, a complement only adds, every call of `imports` answers alike |
| `win_handles` | 2 threads, 2 handle values, 2 names, 2 opens, 1 search, 2 installations | a registered handle is its carrier; the shims implement `Win32Files` |
| `win_leak` (violation) | 2 threads, paths virtual, rejected and real | a move from the disk and two queries hand such a path to the system |
| `path_shims` | every path of up to 4 of the characters `/ h a .`, 560 Windows spellings; 2 layers; 2 threads, 2 addresses, 2 installations | routes follow names and not spellings but for two contested ones, changes are seen, pointers are what they are taken for |

Why the bounds are enough: two failures allow one in a transaction and one in its
rollback; two overlapping guards and one foreign write give every nesting and order
of drops (a drop out of order over a shared slot reports a conflict, after which
`AllRestored` claims nothing); two installations and two threads give a rescan that outlives a guard
next to a new installation, and two rescans racing for one base. A capacity of two
and writes of one and two bytes give a full grant, a partial one, a gap that
swallows the grant and a full volume; two files give an unlinked open one next to a
new one of the same name. Six keys give a moved subtree, a replaced empty directory,
siblings below a pruned ancestor. Two numbers and two streams give a number that is
closed, handed out again as a real or virtual file and used by a call that began
before, next to one that is not touched, and `EMFILE`; the cursor needs one stream.
The same holds for two handle values and two heap addresses. Three slots on two
pages give a chain that goes on within its page and one that ends with it, bind
opcodes that skip, go back and wrap, and a slot only the complement knows. Four
characters with a two-character root give the root, its sibling `/ha`, a child, dot
names, doubled separators and relative paths; longer ones are added where a case
needs them.

`CHECK_DEADLOCK FALSE` is used where all calls may have been made (guards are used
up). Symmetry: the clients in `memory_volume`, the numbers in `descriptors`, the
threads in `cursors`, which have no liveness property.

**Fairness** (`FairSpec`): the thread that holds `install_lock` goes on
(`SlotTransaction`); a begun install, drop or rescan goes on (`Installation`). The
code has no waiting but on locks that are held for a bounded number of steps, so a
scheduler that runs every runnable thread gives it. Starting calls, dropping guards
and loader calls are not assumed fair.

Every property has a mutant: an operator beside the definition it replaces, marked
"Mutation", that a plausible bug in that line would give and under which TLC finds
the property violated.

## 5. Findings

* **`slot_rollback`.** A failing `restore_protection` after the swaps starts a
  rollback that captures the page while it is still writable and gives it back so.
  Nothing stays patched, but the page's protection is changed, against the comment
  on `apply()`.
* **`installation_reinstall`.** Restore compares with the shim's address, which is
  the same for every installation. A guard pushed by a rescan that outlived its
  `InstallGuard` can unhook a module the next installation has hooked. The `dlopen`
  that started it is a native call that outlives its guard, which the next sentence of
  the repository's README (111-112) asks applications to prevent; with `auto_rescan`
  any thread that loads a library makes one.
* **`cursors_panic`.** `pread` and `pwrite` seek, transfer and seek back. A provider
  panic in the transfer is contained by `guard_abi`, but the unwind skips the seek back,
  and the next holder of the recovered lock reads from the wrong place.
  (`NoTornState` leaves failed seeks back out: the trace is a panic.)
* **`win_leak`.** `MoveFileExW` with a real source goes to the system whatever its
  destination is, a virtual path included; `GetDiskFreeSpaceA` and `GetDriveTypeW` pass
  rejected paths on. The router's comment says that neither ever touches the disk.

Observations made while modelling, for which no run is kept:

* `MemFile::set_len` accounts before it converts the length to `usize` and does not
  undo it: on a 32-bit target a refused length keeps its bytes.
* Append is only an initial position: a later write overwrites what another handle
  added meanwhile.
* Nothing stops entries below a file; renaming onto such a file keeps them as strays.
  The runs keep to `Disciplined` callers, who create none.
* A namespace for the root of a drive or `/` holds the root itself only, as
  `key_has_prefix` wants a separator after the prefix.
* A seek back that fails (unix.rs:923 and 1199, vfs.rs:29) leaves the cursor where the
  positional call or the size probe put it. `pread` and `pwrite` report success all the
  same, against their own comment ("pread must not change the file position"); a
  reader over the network, which vfs.rs:34-37 invites, can fail there. `CursorKept`
  leaves such a stream out until the next absolute `lseek`.
* `classify` does not resolve `.` and `..` before it tests the prefix, though the comment
  at namespace.rs:102-104 says that `Router` has normalized the path: `/a/../h/x` and
  `/./h` are real for root `/h`. `RoutedByName` accepts real and virtual for a path that
  is below the root only once these names are resolved.
* `classify` exempts the colon of every name of two characters, where the comment at
  namespace.rs:131-132 exempts the drive designator only: `c:\h\x:` is served and not
  refused. `RoutedByName` accepts both for a name after the first that looks like a
  drive, and only excludes that such a path reaches the disk.
* The `*at` shims resolve a relative path against the virtual working directory,
  whatever directory the descriptor names. `chdir` to a real path clears the
  virtual directory before the real call is known to succeed.
* An overlay with a `MemoryFs` in front refuses to change names of the layers behind
  it; removing a name uncovers the one behind it; a read-only provider in front of a
  writable one hides its changes. `SeesItsChanges` is about layers that take changes.
* A failing carrier leaves the file created or truncated.
* A virtual `DIR*` used after its installation was replaced is handed to libc.
* `fchmod` on a virtual descriptor opened for writing goes to its carrier,
  `/dev/null`, though the comment on `shim_fchmod` says it is denied.
* A Mach-O file that was replaced, not removed, before the first enumeration is
  decoded in place of the loaded image's own; the run's file is removed only, and
  `ListsTheLinks` and `SignedRefused` hold of that.

## 6. Proofs

The theorems hold for every value of the constants that satisfies the named
assumptions, which TLC evaluates on each run:

* `BoundsAssumption`, `ImageAssumption`, `PlanAssumption`, `ReplAssumption`: plans
  name each page once and all pages of their slots, and the replacements of two
  guards differ from each other and from what the loader or another hook puts into the
  slots (a compare-exchange cannot tell equal ones apart: the run
  `installation_reinstall` shows what then happens);
* `ScopeAssumption`: `None` is neither an installation nor a thread;
* `VolumeAssumption`, `KeysAssumption`, `FiniteAssumption`: sizes are numbers, keys are
  sequences, files and clients are finitely many;
* `BoundsAssumption` and `ProgramAssumption` of `Descriptors`, `WinAssumption` (finitely
  many names), `PathAssumption` (layers are functions from the keys to kinds): the
  constants have their types;
* `CapsAssumption`, `ModulesAssumption`, `UnreadAssumption` of `ModuleImports`: the caps
  are numbers, and an image is made of the records its parser reads, with any value in
  any field but two: a Mach-O segment's `filesize` is at most its `vmsize` (dyld maps no
  other, and `locate` bounds an offset by the first and not by the second), and a PE
  image is based at a page (pe.rs:142 relies on it); a slice that was read is
  not the `OnceLock` that is still to be set.

Three hypotheses are stated in the theorems that need them, because the code does not
enforce them: `Capacity <= UsizeMax` (always so on a 64-bit platform; on a 32-bit one a
length that fits the volume may not fit `usize`, and what was reserved for it is never
handed back, memory.rs:255), `Disciplined` (callers create nothing below a file; an
orphan below a removed file makes `WellFormed`, `RenameMovesExactly` and
`UnmountIsLocal` false) and `FrontTakesChanges` (the first layer of an overlay takes
changes if any does; a name in a read-only layer before it would hide the change).
`MCPathShims` assumes the last, so TLC confirms that the programs it runs satisfy it.
A fourth, `ErrIsNoOk` in `PrimaryIsKept`, is about the encoding and not the code: the
model value `Malformed` is neither a sequence nor a record of load commands.

| Module | Theorems |
|---|---|
| `SlotTransactionProofs` | `TypeCorrect`, `WritesAreSafe`, `ProtectionIsRestored`, `FailureLeavesNothing`, `OriginalsComeBack`, `LaterHooksAreKept` |
| `InstallationProofs` | `TypeCorrect`, `LiveInstallationOwns`, `ShimsAlwaysServed`, `PatchedOnlyOnce`, `NothingStaysPatched` |
| `MemoryFsProofs` | `TypeCorrect`, `CapacityRespected`, `BytesAreTheWriters`, `ShortWritesFillTheVolume`, `EntriesReachable`, `RenamesAreExact`, `UnmountsAreLocal` |
| `AccountingProofs` | `AccountingIsExact` |
| `DescriptorsProofs` | `TypeCorrect`, `EntriesBacked`, `HeldServed`, `NoCarrierLeaks`, `WritesAreGranted`, `CursorPreserved`, `NoSelfDeadlock` |
| `WinHandlesProofs` | `TypeCorrect`, `EntriesBacked`, `CallsAreAtomic` |
| `PathShimsProofs` | `TypeCorrect`, `NothingLeaks`, `PointersHold`, `ChangesAreSeen` |
| `ImportsProofs` | `SlotsArePatchable`, `ListingIsStable`, `PrimaryIsKept` |

The arguments:

* **`SlotTransactionProofs`.** *Pages:* `PageInv` adds to the type that the loop index
  is within its loop (`IndexInv`); pages already passed by the protect loop, or not yet
  given back, are writable (`OpenInv`); for those pages `old` holds the load-time
  protection unless the page is stuck (`CaptureInv`); all other pages have it now
  (`RestInv`). Without `CaptureInv` the restore could give back anything, and a page
  captured twice would be captured as writable: hence `PlanAssumption`.
  *Slots:* a replacement is in no slot, and in no guard's saved values, before its
  install begins or after it failed (`UnusedInv`); while it runs it is only in the slots
  `apply()` has swapped and its rollback has not reached (`InstallInv`, `Swapped`). For
  `AllRestored` (`ChainInv`): the slot's value and the values its live guards have saved
  are the original and the replacements of those guards, each once. So when no guard is
  live the slot holds the original, whatever the order of the drops was, as long as
  no drop reported a conflict.
* **`InstallationProofs`.** `Inv` adds what a rescanning thread's program counter says
  of its installation (`ThreadInv`); an installation between activation and
  deactivation is `active` (`OwnInv`, so there is at most one); the registered callback
  is that of a live one (`CallbackInv`); originals are resolved once something can be
  patched (`OriginalsInv`). `HandInv` adds, for the modules, that every base is claimed
  before it is patched and by at most one guard or thread (`ClaimInv`), and that a
  patched slot of a loaded module has its way back in somebody's hand: a guard that
  saved the callee is with an installation or with a thread (`BackInv`; `HolderInv`,
  `EmptyInv` say when nobody has one). TLC checked `HandInv` on the run first.
* **`MemoryFsProofs`.** `Inv` adds that a client inside a call holds a file
  (`HandleInv`) and that no file, and no cursor after the write in hand, goes past
  `u64` (`LengthInv`). The tree results need the stronger `ClosedInv`: every ancestor
  of an entry, not only its parent, is a directory. Keys are sequences of any length;
  what is needed of prefixes, of the new key of a moved entry and of the walk up of
  `remove_subtree` are lemmas, proved from a least counterexample (`LeastNumber`).
* **`AccountingProofs`.** `Sum`, a fold over a finite set, gets its own small theory
  (that the fold's function exists, by a least set for which it does not; removing,
  changing, splitting and matching terms). Each file then has an account (`AccountOf`):
  the length its holder is growing it to while someone is inside a write or a
  truncation, else the length it has. `Accounted` says that `used` is the sum of the
  accounts, and every step changes one account by what it reserves or hands back, or
  closes the accounts of files nobody refers to any more. `LockInv` is what makes the
  account well defined: one client at a time is inside a call on a file (`Exclusive`),
  a file without handle or entry is empty (`UnusedEmpty`), the file a call on a path
  found stays referenced (`PathHeld`), a file never outgrows the goal (`Growing`), and
  an idle client has no handle (`NoHandle`). The sum of the accounts is the sum of the
  lengths and the reservations in hand, which is `AccountingExact`.
* **`DescriptorsProofs`.** Layers that build on each other: hook scopes and frames
  (`HookInv`, `FrameInv`), the registry (`RegistryInv`), who owns a number between the
  steps of an open or a close (`OwnerInv`: at most one thread, and nobody holds it),
  what the kernel has open (`CarrierInv`), what an entry means (`EntryInv`,
  `ServedInv`), who may write (`WriteInv`), and the locks and cursors (`LockInv`: the
  holder is at a step inside the lock; `CursorInv`: between the move and the move back
  the saved cursor is the expected one). `CursorPreserved` is about streams whose
  provider has neither panicked nor refused a seek back since the last absolute `lseek`; the code
  gives no more.
* **`WinHandlesProofs`.** `StageInv`, `StoreInv`, `OwnerInv`, `EntryInv`, `LockInv` and
  `SearchInv` do the same for handles and searches. The refinement mapping hides the
  registry, the carriers and the locks, and shows the pointer of a locked file as it was
  when the lock was taken, so that the call takes effect when it unlocks. Every step is proved to be
  a step of `Win32Files` or a stutter; `LockInv` is what makes the pointer seen by the
  abstract call that of its own instant.
* **`PathShimsProofs`.** `NothingLeaks` is about the POSIX shims (`win_leak` shows what
  three Windows shims do). `TypeInv` adds that the overlay keeps its layers and changes
  only where writes are allowed (`LayersInv`), what the first half of a call of two
  paths has made sure of (`FirstInv`) and that only real paths reached the kernel
  (`KernelInv`). `PointerInv` says what each address is, to whom: engines are published
  in order and a new one has no directories (`EngineInv`), no two threads use one
  address (`ApartInv`), an address in use is of the kind its user takes it for
  (`JobInv`, `HeldInv`), and one in the live registry is a virtual directory the program
  holds (`RegistryInv`). An old engine's registry may name freed addresses; that
  nothing reads it again is `EngineInv`.

* **`ImportsProofs`.** The parsers are loops that push, written as folds. The first
  part is what is needed of them: a fold has a trace, the accumulators after each
  turn, and an accumulator that each turn keeps in a set ends there; what a flattened
  sequence holds was pushed by a turn (`Lists`, `Yields`: everything listed is in a set
  of cells, or the walk failed). Each format is then followed down to its own
  `slot_address`, which is the only place a slot comes from, for any value of every
  field: `MachOListing` (the three sources, the merge, and the pass that leaves out
  duplicates), `ElfListing`, `PeListing`. `SliceInv` says that the slice kept by a
  Mach-O module is one its file had. `AnswerInv` adds that the last answer is the one
  the kept slice determines, and that an answer that needed the slice has kept it:
  so the next answer is the same, whatever is on the disk by then. For `PrimaryKept`
  the image is compared with the one whose complement is left out: their load commands
  stay in step (`Primary`: the same segments, symbols and dylibs, at a cursor that is
  not further along), so they have the same indirect table (`IndirectAlike`); merging
  changes no link of what it merges into and appends the rest (`MergeExtends`), and
  leaving out duplicates keeps that relation (`FirstsExtend`). In a PE image the
  standard directory is read alike (`StandardAlike`) and the delayed imports follow it.

Only model-checked: the liveness properties (`LockReleased`, `LateModulesGetHooked`,
`DropCompletes`), out of the prover's reach; that `classify` agrees with the names of a
path (`RoutedByName`, but for what `NothingLeaks` states), which is an induction over
its characters; and `SignedRefused` and `ListsTheLinks`, which compare the answer with
what the small linker of `MCImages` put into an image: they are about its encodings,
and of an arbitrary image there is nothing to compare with.

## 7. Not modelled, and limits

* `wildcard_match`, the decoding of C and UTF-16 strings, NUL checks, a namespace with
  a caller's own predicate, nested `\\?\UNC\` prefixes: text handling without state.
* `GetFileType`, `ReadFileEx`, `WriteFileEx` (denied), `GetCurrentDirectoryW`, `getcwd`:
  answers that change nothing. The `LoadLibrary` shims are `dlopen` again, as in
  `Installation`. The transfer callbacks of cookie streams are the stream calls of
  `Descriptors` without a registry.
* Trampolines, symbol aliases, `sys` wrappers, error types and messages.
* `SharedSource` and `SourceCursor`; `validate_logical`.
* Panics and lock poisoning are in `Descriptors` only. Descriptors closed or
  duplicated by code that is not hooked (`dup`, `fclose` of an `fdopen`) are left out.
* `HookGuard::restore` is best effort: a failing `make_writable` leaves the slots
  patched and the guard inactive, and nothing in the code promises more. A module
  whose patch failed in a rescan, or that was unloaded and loaded again at the same
  base, is not hooked again (`hooked_bases`); `LateModulesGetHooked` excludes it.
* Two mounts of one name share a key, which the comment on `insert_file` calls a
  caller's error; the runs have one guard per key.
