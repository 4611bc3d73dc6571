----------------------------- MODULE PathShims ------------------------------
(***************************************************************************)
(* The POSIX shims of hookfs that take a path, or give out a pointer to a  *)
(* heap object: working directory, directory streams, FILE streams, and    *)
(* the changes of names.                                                   *)
(*                                                                         *)
(* Each path is routed by the engine live at that moment, against the      *)
(* virtual working directory of that moment; a call of two paths routes    *)
(* twice.  A virtual DIR* is a heap object whose address the registry      *)
(* knows: a freed address may come back from libc as a real DIR*.  A       *)
(* virtual FILE* is a libc stream over a heap object, freed by libc's      *)
(* close callback and known to no registry.                                *)
(*                                                                         *)
(* The volume is an overlay.  The program follows POSIX: it closes a       *)
(* stream once, and uses it from one thread at a time.                     *)
(***************************************************************************)
EXTENDS Integers, Sequences, FiniteSets

CONSTANTS Threads,      \* threads of the hooked program
          Addrs,        \* heap addresses
          Keys,         \* normalized keys the volume may have
          Root,         \* the path of the namespace's root
          MaxEngines,   \* bound: installations
          Letters, Lower, \* of Namespace
          Programs      \* what the program may do: a function from names to
                        \* [windows, root, calls, paths, layers, allow, writable, engines]

VARIABLES
  engine, published, \* ACTIVE, and the installations so far
  cwd,               \* [Engines -> path], Engine.cwd, NoCwd if none
  layers,            \* the overlay, as OverlayFs has it
  dirs,              \* [Engines -> SUBSET Addrs], Registry.dirs
  heap,              \* [Addrs -> Objects]
  held,              \* [Addrs -> Streams], the streams the program has open
  job,               \* [Threads -> Job], the call each thread is in
  made,              \* history: the kind the program last made each key
  reached,           \* history: the routes of the paths handed to the kernel
  program            \* the name of the one of Programs that runs

vars == <<engine, published, cwd, layers, dirs, heap, held, job, made, reached, program>>

Posix == INSTANCE Namespace WITH Windows <- FALSE
Win == INSTANCE Namespace WITH Windows <- TRUE
Overlay == INSTANCE OverlayFs

routing == <<engine, published, program>>
volume  == <<layers, made>>
memory  == <<dirs, heap, held>>

Running == Programs[program]
Engines == 1..MaxEngines
Objects == {"free", "vdir", "cookie", "libc"}
Streams == {"none", "dir", "file"}
Routes == {"real", "rejected", "virtual"}
RootKey == Posix!normalize_key_str(Root)

Idle == [at |-> "idle", e |-> 0, a |-> 0, path |-> <<>>, to |-> <<>>, from |-> "none"]

ASSUME PathAssumption ==
  /\ MaxEngines \in Nat /\ RootKey \in Keys
  /\ \A n \in DOMAIN Programs :
       /\ Programs[n].engines \in 0..MaxEngines /\ Programs[n].allow \in BOOLEAN
       /\ Programs[n].layers \in Seq([Keys -> Overlay!Kinds])
       /\ Programs[n].writable \subseteq DOMAIN Programs[n].layers

TypeOK ==
  /\ engine \in 0..MaxEngines /\ published \in 0..MaxEngines
  /\ \A l \in DOMAIN layers : layers[l] \in [Keys -> Overlay!Kinds]
  /\ made \in [Keys -> Overlay!Kinds]
  /\ dirs \in [Engines -> SUBSET Addrs]
  /\ heap \in [Addrs -> Objects] /\ held \in [Addrs -> Streams]
  /\ reached \subseteq Routes

Init ==
  /\ program \in DOMAIN Programs
  /\ engine = 0 /\ published = 0
  /\ cwd = [e \in Engines |-> Posix!NoCwd]
  /\ layers = Running.layers
  /\ dirs = [e \in Engines |-> {}]
  /\ heap = [a \in Addrs |-> "free"] /\ held = [a \in Addrs |-> "none"]
  /\ job = [t \in Threads |-> Idle]
  /\ made = [k \in Keys |-> "none"]
  /\ reached = {}

-----------------------------------------------------------------------------
(* Installations, and the frame of a call *)

try_activate ==
  /\ engine = 0 /\ published < Running.engines
  /\ engine' = published + 1 /\ published' = published + 1
  /\ UNCHANGED <<program, cwd, volume, memory, job, reached>>

deactivate ==
  /\ engine # 0 /\ engine' = 0
  /\ UNCHANGED <<published, program, cwd, volume, memory, job, reached>>

MayCall(t, c) == job[t] = Idle /\ c \in Running.calls[t]
At(t, at) == job[t].at = at
Return(t) == job' = [job EXCEPT ![t] = Idle]

classify(s) ==
  IF Running.windows THEN Win!classify(Running.root, cwd[engine], s)
  ELSE Posix!classify(Running.root, cwd[engine], s)

(* route: without an engine the caller passes the call through. *)
route(s) == IF engine = 0 THEN "real" ELSE classify(s)

key(s) ==
  IF Running.windows THEN Win!normalize_key_str(s)
  ELSE Posix!normalize_key_str(Posix!Absolute(cwd[engine], s))

(* The call goes to the original function, with paths routed so. *)
Passed(routes) == reached' = reached \cup routes
Kept == UNCHANGED reached

-----------------------------------------------------------------------------
(* Calls that ask, or are always denied *)

(* What a call answers: the kernel's answer for a real path. *)
Answered(s, rejected, virtual) ==
  CASE route(s) = "real" -> "kernel"
    [] route(s) = "rejected" -> rejected
    [] route(s) = "virtual" -> virtual

virtual_meta(s) == Overlay!metadata(layers, key(s)) # "none"
IfThere(s) == IF virtual_meta(s) THEN "ok" ELSE "ENOENT"

(* stat, lstat, fstatat, statx and their versioned forms. *)
stat_path(s) == Answered(s, "ENOENT", IfThere(s))
realpath(s) == Answered(s, "ENOENT", IfThere(s))
statvfs(s) == Answered(s, "ENOENT", "ok")
readlink(s) == Answered(s, "ENOENT", "EINVAL")

access_common(s, write) ==
  Answered(s, "ENOENT", IF ~virtual_meta(s) THEN "ENOENT"
                        ELSE IF write /\ ~Running.allow THEN "EROFS" ELSE "ok")

(* fchmodat and utimensat: denied even where writes are allowed. *)
deny_mutate_path(s) == Answered(s, "EROFS", "EROFS")

Queries == {"stat", "realpath", "statvfs", "readlink", "access", "chmod"}

Answers(c, s) ==
  CASE c = "stat" -> {stat_path(s)}
    [] c = "realpath" -> {realpath(s)}
    [] c = "statvfs" -> {statvfs(s)}
    [] c = "readlink" -> {readlink(s)}
    [] c = "access" -> {access_common(s, write) : write \in BOOLEAN}
    [] c = "chmod" -> {deny_mutate_path(s)}

Query(t, c, s) ==
  /\ MayCall(t, c)
  /\ \E answer \in Answers(c, s) : IF answer = "kernel" THEN Passed({route(s)}) ELSE Kept
  /\ UNCHANGED <<routing, cwd, volume, memory, job>>

-----------------------------------------------------------------------------
(* The working directory *)

(* A real path clears the virtual directory before the kernel is asked. *)
chdir(t, s) ==
  /\ MayCall(t, "chdir")
  /\ \/ /\ route(s) = "real" /\ Passed({"real"})
        /\ cwd' = IF engine = 0 THEN cwd ELSE [cwd EXCEPT ![engine] = Posix!NoCwd]
     \/ /\ route(s) = "virtual" /\ Overlay!metadata(layers, key(s)) = "dir" /\ Kept
        /\ cwd' = [cwd EXCEPT ![engine] = Posix!Absolute(cwd[engine], s)]
  /\ UNCHANGED <<routing, volume, memory, job>>

-----------------------------------------------------------------------------
(* Changes of names *)

(* The layer that takes changes, 0 if none does. *)
Changing == Overlay!changing(Running.writable)

(* mutate_path: the layer that takes changes becomes what the operation    *)
(* makes of it, if writes are allowed; a volume that has none declines,    *)
(* and the operation may be refused.                                       *)
mutate_path(t, c, s, may, after, kind) ==
  /\ MayCall(t, c)
  /\ \/ route(s) = "real" /\ Passed({"real"}) /\ UNCHANGED volume
     \/ /\ route(s) = "virtual" /\ Running.allow /\ Changing # 0 /\ Kept
        /\ key(s) \in Keys /\ may
        /\ layers' = [layers EXCEPT ![Changing] = after]
        /\ made' = [made EXCEPT ![key(s)] = kind]
  /\ UNCHANGED <<routing, cwd, memory, job>>

(* MemoryFs::create_dir refuses a key it has. *)
mkdir(t, s) ==
  LET layer == layers[Changing]
  IN  mutate_path(t, "mkdir", s, layer[key(s)] = "none",
                  Overlay!create(layer, RootKey, key(s), "dir"), "dir")

(* remove and unlink. *)
remove(t, s) ==
  LET layer == layers[Changing]
  IN  mutate_path(t, "remove", s, Overlay!MayRemove(layer, RootKey, key(s)),
                  [layer EXCEPT ![key(s)] = "none"], "none")

(* Only the length of the file changes. *)
truncate(t, s) ==
  LET layer == layers[Changing]
  IN  mutate_path(t, "truncate", s, layer[key(s)] = "file", layer, "file")

(* Calls of two paths: the source is routed, and then the destination, by  *)
(* whichever engine is live by then.  A link is denied if either is not    *)
(* real; a rename goes on from a virtual source too.                       *)
RouteFrom(t, c, from, to) ==
  /\ Kept
  /\ \/ route(from) = "real"
     \/ c = "rename" /\ route(from) = "virtual" /\ Running.allow
  /\ job' = [job EXCEPT ![t] = [Idle EXCEPT !.at = c, !.to = to,
               !.path = IF route(from) = "virtual" THEN key(from) ELSE <<>>,
               !.from = route(from)]]
  /\ UNCHANGED <<routing, cwd, volume, memory>>

(* Both paths are on the same side of the prefix. *)
SameSide(from, to) == from = to /\ to # "rejected"

(* deny_mutate_two, its second path. *)
link(t) ==
  LET j == job[t]
  IN  /\ At(t, "link") /\ Return(t)
      /\ IF SameSide(j.from, route(j.to)) THEN Passed({j.from, route(j.to)}) ELSE Kept
      /\ UNCHANGED <<routing, cwd, volume, memory>>

rename(t) ==
  LET j == job[t]  l == Changing
      to == route(j.to)  k == key(j.to)
      moves == /\ j.from = "virtual" /\ l # 0 /\ {j.path, k} \subseteq Keys
               /\ Overlay!MayRename(layers[l], RootKey, j.path, k)
  IN  /\ At(t, "rename") /\ Return(t)
      /\ \/ ~SameSide(j.from, to) /\ Kept /\ UNCHANGED volume           \* EROFS
         \/ SameSide(j.from, to) /\ to = "real" /\ Passed({j.from, to}) /\ UNCHANGED volume
         \/ SameSide(j.from, to) /\ to = "virtual" /\ ~moves /\ Kept /\ UNCHANGED volume
         \/ /\ SameSide(j.from, to) /\ to = "virtual" /\ moves /\ Kept
            /\ layers' = [layers EXCEPT ![l] = Overlay!rename(@, j.path, k)]
            /\ made' = [made EXCEPT ![k] = layers[l][j.path], ![j.path] = "none"]
      /\ UNCHANGED <<routing, cwd, memory>>

-----------------------------------------------------------------------------
(* Directory streams *)

InUse(a) == \E t \in Threads : job[t].a = a
Free(a) == heap[a] = "free" /\ ~InUse(a)

(* A real directory is libc's: any free address. *)
opendir(t, s) ==
  /\ MayCall(t, "opendir")
  /\ \/ /\ route(s) = "real" /\ Passed({"real"})
        /\ \E a \in Addrs : /\ Free(a)
                            /\ heap' = [heap EXCEPT ![a] = "libc"]
                            /\ held' = [held EXCEPT ![a] = "dir"]
        /\ UNCHANGED <<dirs, job>>
     \/ /\ route(s) = "virtual" /\ Overlay!read_dir(layers, key(s)) /\ Kept
        /\ \E a \in Addrs : /\ Free(a)
                            /\ heap' = [heap EXCEPT ![a] = "vdir"]
                            /\ job' = [job EXCEPT ![t] = [Idle EXCEPT !.at = "insert_dir",
                                         !.e = engine, !.a = a]]
        /\ UNCHANGED <<dirs, held>>
  /\ UNCHANGED <<routing, cwd, volume>>

insert_dir(t) ==
  LET j == job[t]
  IN  /\ At(t, "insert_dir") /\ Return(t)
      /\ dirs' = [dirs EXCEPT ![j.e] = @ \cup {j.a}]
      /\ held' = [held EXCEPT ![j.a] = "dir"]
      /\ UNCHANGED <<routing, cwd, volume, heap, reached>>

contains_dir(a) == engine # 0 /\ a \in dirs[engine]

(* readdir, readdir64: if it is one of ours, it is read through the        *)
(* pointer in a later step.                                                *)
readdir(t, a) ==
  /\ MayCall(t, "readdir") /\ held[a] = "dir" /\ ~InUse(a) /\ contains_dir(a)
  /\ job' = [job EXCEPT ![t] = [Idle EXCEPT !.at = "entry", !.a = a]]
  /\ UNCHANGED <<routing, cwd, volume, memory, reached>>

NextEntry(t) ==
  /\ At(t, "entry") /\ Return(t)
  /\ UNCHANGED <<routing, cwd, volume, memory, reached>>

(* closedir: the address leaves the registry, then the object is dropped.  *)
(* libc frees its own; given an object of an engine that has gone, it may  *)
(* do anything to it.                                                      *)
closedir(t, a) ==
  /\ MayCall(t, "closedir") /\ held[a] = "dir" /\ ~InUse(a)
  /\ held' = [held EXCEPT ![a] = "none"]
  /\ \/ /\ contains_dir(a)
        /\ dirs' = [dirs EXCEPT ![engine] = @ \ {a}]
        /\ job' = [job EXCEPT ![t] = [Idle EXCEPT !.at = "drop", !.a = a]]
        /\ UNCHANGED heap
     \/ /\ ~contains_dir(a)
        /\ heap' \in {[heap EXCEPT ![a] = "free"]} \cup (IF heap[a] = "libc" THEN {} ELSE {heap})
        /\ UNCHANGED <<dirs, job>>
  /\ UNCHANGED <<routing, cwd, volume, reached>>

DropBox(t) ==
  /\ At(t, "drop") /\ Return(t)
  /\ heap' = [heap EXCEPT ![job[t].a] = "free"]
  /\ UNCHANGED <<routing, cwd, volume, dirs, held, reached>>

-----------------------------------------------------------------------------
(* FILE streams *)

(* fopen_options: r reads, w and a create, x does not replace, + writes. *)
Modes == {"r", "r+", "w", "wx"}
fopen_options(mode) ==
  CASE mode = "r" -> {} [] mode = "r+" -> {"write"}
    [] mode = "w" -> {"write", "create"} [] mode = "wx" -> {"write", "create", "create_new"}

(* The file is opened, or created, and boxed. *)
prepare_cookie(t, s, mode) ==
  LET opts == fopen_options(mode)  k == key(s)
      l == Changing
      opens == Overlay!metadata(layers, k) = "file"
      writes == /\ Running.allow /\ l # 0 /\ k \in Keys
                /\ IF layers[l][k] = "none" THEN "create" \in opts
                   ELSE layers[l][k] = "file" /\ "create_new" \notin opts
  IN  /\ route(s) = "virtual" /\ Kept
      /\ \/ "write" \notin opts /\ opens /\ UNCHANGED volume
         \/ /\ "write" \in opts /\ writes
            /\ layers' = [layers EXCEPT ![l] = Overlay!create(@, RootKey, k, "file")]
            /\ made' = [made EXCEPT ![k] = "file"]
      /\ \E a \in Addrs : /\ Free(a)
                          /\ heap' = [heap EXCEPT ![a] = "cookie"]
                          /\ job' = [job EXCEPT ![t] = [Idle EXCEPT !.at = "fopencookie", !.a = a]]

(* A FILE of libc's own is of no interest here. *)
fopen(t, s, mode) ==
  /\ MayCall(t, "fopen")
  /\ \/ route(s) = "real" /\ Passed({"real"}) /\ UNCHANGED <<volume, heap, job>>
     \/ prepare_cookie(t, s, mode)
  /\ UNCHANGED <<routing, cwd, dirs, held>>

(* Mutation: the cookie libc did not take is left behind. *)
ReclaimNot(a) == UNCHANGED heap

Reclaim(a) == heap' = [heap EXCEPT ![a] = "free"]

(* fopencookie may fail: the cookie is taken back. *)
fopen_virtual(t) ==
  LET a == job[t].a
  IN  /\ At(t, "fopencookie") /\ Return(t)
      /\ \/ held' = [held EXCEPT ![a] = "file"] /\ UNCHANGED heap
         \/ Reclaim(a) /\ UNCHANGED held
      /\ UNCHANGED <<routing, cwd, volume, dirs, reached>>

(* fclose is libc's own: it calls cookie_close, whatever is installed. *)
cookie_close_state(t, a) ==
  /\ MayCall(t, "fclose") /\ held[a] = "file" /\ ~InUse(a)
  /\ held' = [held EXCEPT ![a] = "none"] /\ Reclaim(a)
  /\ UNCHANGED <<routing, cwd, volume, dirs, job, reached>>

-----------------------------------------------------------------------------
Next ==
  \/ try_activate \/ deactivate
  \/ \E t \in Threads :
       \/ link(t) \/ rename(t) \/ insert_dir(t) \/ NextEntry(t) \/ DropBox(t)
       \/ fopen_virtual(t)
       \/ \E s \in Running.paths :
            \/ \E c \in Queries : Query(t, c, s)
            \/ chdir(t, s) \/ mkdir(t, s) \/ remove(t, s) \/ truncate(t, s) \/ opendir(t, s)
            \/ \E mode \in Modes : fopen(t, s, mode)
       \/ \E c \in {"rename", "link"} :
            MayCall(t, c) /\ \E from, to \in Running.paths : RouteFrom(t, c, from, to)
       \/ \E a \in Addrs : readdir(t, a) \/ closedir(t, a) \/ cookie_close_state(t, a)

Spec == Init /\ [][Next]_vars

-----------------------------------------------------------------------------
(* Properties *)

(* The reference for a route, on names instead of characters: a path lies  *)
(* under the root if the names of the root are its first names, compared   *)
(* without regard to case on Windows; it is refused if one of its names    *)
(* navigates, or names a stream or a device.                               *)
Spelled(s) ==
  IF Running.windows THEN [i \in DOMAIN Win!StripLong(s) |-> Win!KeyChar(Win!StripLong(s)[i])]
  ELSE s

Names(s) ==
  SelectSeq(IF Running.windows THEN Win!Split(Spelled(s)) ELSE Posix!Split(Spelled(s)),
            LAMBDA name : name # <<>>)

Rooted(s) == Spelled(s) # <<>> /\ Spelled(s)[1] \in {"/", "\\"}

(* First names, and whether a separator comes before them, are the same. *)
Under(rooted, root, s, names) ==
  /\ rooted = Rooted(s) /\ Len(root) <= Len(names)
  /\ \A i \in DOMAIN root : root[i] = names[i]

(* What Windows makes of a name: trailing dots and blanks are dropped. *)
Meant(name) ==
  SubSeq(name, 1, CHOOSE n \in 0..Len(name) :
                    /\ \A i \in n + 1..Len(name) : name[i] \in {".", " "}
                    /\ n = 0 \/ name[n] \notin {".", " "})

(* A letter and a colon: a drive designator as the first name of a path. *)
DriveLike(name) ==
  Running.windows /\ Len(Meant(name)) = 2 /\ Meant(name)[1] \in Letters /\ Meant(name)[2] = ":"

Navigates(name) ==
  IF Running.windows
  THEN \/ Meant(name) = <<>> /\ \E i \in DOMAIN name : name[i] = "."
       \/ ~DriveLike(name) /\ \E i \in DOMAIN name : name[i] = ":"
  ELSE name \in {<<".">>, <<".", ".">>}

(* The names that are left when . and .. have been followed. *)
Resolved(names) ==
  LET Follow(out, name) ==
        CASE name = <<".">> -> out
          [] name = <<".", ".">> -> SubSeq(out, 1, Len(out) - 1)
          [] OTHER -> Append(out, name)
      out[n \in 0..Len(names)] == IF n = 0 THEN <<>> ELSE Follow(out[n - 1], names[n])
  IN  out[Len(names)]

(* The routes a path may get. *)
Wanted(s) ==
  LET root == Names(Running.root)  rooted == Rooted(Running.root)
      names == Names(s)
  IN  IF Under(rooted, root, s, names)
      THEN IF \E i \in DOMAIN names : Navigates(names[i]) THEN {"rejected"}
           ELSE IF \E i \in DOMAIN names : i > 1 /\ DriveLike(names[i])
           THEN {"rejected", "virtual"} ELSE {"virtual"}
      ELSE IF Under(rooted, root, s, Resolved(names)) THEN Routes ELSE {"real"}

(* The router's promise: a path under the root is served or refused, with  *)
(* any spelling, from any working directory, and every other one is left   *)
(* to the kernel; no shim modelled here, the calls of two paths included,  *)
(* hands a path of the namespace to the kernel.  Two spellings are left    *)
(* open, where the comments of namespace.rs ask for more than its code     *)
(* does: nothing is said of a path that gets under the root only by . and  *)
(* .., which is_virtual expects resolved and the code leaves to the        *)
(* kernel; and a name after the first that looks like a drive, a stream    *)
(* to is_lexically_safe's comment and an ordinary name to its code, may be *)
(* served or refused, but stays out of the kernel's hands.                 *)
RoutedByName ==
  /\ reached \subseteq {"real"}
  /\ engine # 0 =>
       \A s \in Running.paths :
         classify(s) \in Wanted(IF cwd[engine] = <<>> THEN s ELSE Posix!Absolute(cwd[engine], s))

(* What has to be asked of whoever stacks the layers: where some layer     *)
(* takes changes, the first one does.  A name in a layer before it would   *)
(* hide the change.                                                        *)
FrontTakesChanges ==
  \A n \in DOMAIN Programs : Programs[n].writable # {} => 1 \in Programs[n].writable

(* What the program made of a name stays what it sees there until it       *)
(* changes it again: the layer that takes the changes of an overlay is the *)
(* one that is asked first.  Nothing is said of a name it removed: a layer *)
(* below may hold it too, and then it is seen there.  And nothing changes  *)
(* where writes are not allowed.                                           *)
SeesItsChanges ==
  /\ \A k \in Keys : made[k] # "none" => Overlay!metadata(layers, k) = made[k]
  /\ ~Running.allow => layers = Running.layers

(* Pointers are what they are taken for: an address in the live registry   *)
(* is a virtual directory, also while it is read, and so is what closedir  *)
(* drops; the cookie of a FILE lives exactly as long as the FILE, over     *)
(* every replacement of the installation.  Said of the live registry only: *)
(* a DIR* of an earlier installation is a stranger to it, and readdir and  *)
(* closedir hand it to libc.                                               *)
PointersAreExact ==
  /\ engine # 0 => \A a \in dirs[engine] : heap[a] = "vdir"
  /\ \A t \in Threads : job[t].at \in {"entry", "drop"} => heap[job[t].a] = "vdir"
  /\ \A a \in Addrs : (heap[a] = "cookie") <=> (held[a] = "file" \/
                        \E t \in Threads : At(t, "fopencookie") /\ job[t].a = a)
=============================================================================
