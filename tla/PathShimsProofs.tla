-------------------------- MODULE PathShimsProofs ---------------------------
(***************************************************************************)
(* For any program, with any paths, layers, threads and addresses: types,  *)
(* that no path of the namespace is handed to the kernel, that pointers to *)
(* streams are what they are taken for, and that changes of names are seen *)
(* where they were made.                                                   *)
(***************************************************************************)
EXTENDS PathShims, WellFoundedInduction, TLAPS

(* The state of the calls is a function of the threads. *)
JobType == DOMAIN job = Threads

Uses(t, a) == job[t].at \in {"insert_dir", "entry", "drop", "fopencookie"} /\ job[t].a = a

(* Engines are published in order; none not yet published has a directory. *)
EngineInv ==
  /\ engine <= published
  /\ \A e \in Engines : e > published => dirs[e] = {}
  /\ \A t \in Threads : job[t].at = "insert_dir" => job[t].e \in 1..published

(* What a thread is about to use of the heap. *)
JobInv ==
  \A t \in Threads :
    /\ job[t].at \in {"insert_dir", "entry", "drop", "fopencookie"} => job[t].a \in Addrs
    /\ job[t].at = "insert_dir" => heap[job[t].a] = "vdir" /\ held[job[t].a] = "none"
    /\ job[t].at = "entry" => heap[job[t].a] = "vdir" /\ held[job[t].a] = "dir"
    /\ job[t].at = "drop" => heap[job[t].a] = "vdir" /\ held[job[t].a] = "none"
    /\ job[t].at = "fopencookie" => heap[job[t].a] = "cookie" /\ held[job[t].a] = "none"

(* ... and no two threads use the same address. *)
ApartInv ==
  \A t, u \in Threads, a \in Addrs : Uses(t, a) /\ Uses(u, a) => t = u

HeldInv ==
  \A a \in Addrs :
    /\ held[a] = "dir" => heap[a] \in {"vdir", "libc"}
    /\ held[a] = "file" => heap[a] = "cookie"
    /\ heap[a] = "cookie" =>
         held[a] = "file" \/ \E t \in Threads : At(t, "fopencookie") /\ job[t].a = a

RegistryInv ==
  engine # 0 => \A a \in dirs[engine] : heap[a] = "vdir" /\ held[a] = "dir"

PointerInv == EngineInv /\ JobInv /\ ApartInv /\ HeldInv /\ RegistryInv

(* The overlay keeps its layers, and only changes where writes are allowed. *)
LayersInv ==
  /\ program \in DOMAIN Programs /\ DOMAIN layers = DOMAIN Running.layers
  /\ ~Running.allow => layers = Running.layers

(* What the first half of a call of two paths has made sure of. *)
FirstInv ==
  \A t \in Threads :
    /\ job[t].at = "rename" /\ job[t].from = "virtual" => Running.allow
    /\ job[t].at = "link" => job[t].from = "real"

(* No path of the namespace was handed to the kernel. *)
KernelInv == reached \subseteq {"real"}

TypeInv == TypeOK /\ JobType /\ LayersInv /\ FirstInv /\ KernelInv

-----------------------------------------------------------------------------
(* Routes *)

LEMMA RouteType == ASSUME NEW s PROVE route(s) \in Routes
BY DEF route, classify, Posix!classify, Win!classify, Routes

LEMMA NeedsEngine == ASSUME NEW s, route(s) # "real" PROVE engine # 0
BY DEF route

LEMMA KernelIsReal ==
  ASSUME NEW s, NEW c \in Queries, "kernel" \in Answers(c, s)
  PROVE  route(s) = "real"
<1> SUFFICES ASSUME route(s) # "real" PROVE FALSE
  OBVIOUS
<1>0. route(s) \in {"rejected", "virtual"}
  BY RouteType DEF Routes
<1>1. stat_path(s) # "kernel" /\ realpath(s) # "kernel"
  BY <1>0 DEF stat_path, realpath, Answered, IfThere
<1>2. statvfs(s) # "kernel" /\ readlink(s) # "kernel" /\ deny_mutate_path(s) # "kernel"
  BY <1>0 DEF statvfs, readlink, deny_mutate_path, Answered
<1>3. \A write \in BOOLEAN : access_common(s, write) # "kernel"
  BY <1>0 DEF access_common, Answered
<1> QED
  BY <1>1, <1>2, <1>3 DEF Queries, Answers

-----------------------------------------------------------------------------
(* What the volume becomes *)

Layered == [Keys -> Overlay!Kinds]

LEMMA CreateType ==
  ASSUME NEW layer \in Layered, NEW k \in Keys, NEW kind \in Overlay!Kinds
  PROVE  Overlay!create(layer, RootKey, k, kind) \in Layered
BY PathAssumption DEF Layered, Overlay!create, Overlay!WithAncestors, Overlay!Kinds

LEMMA RemoveType ==
  ASSUME NEW layer \in Layered, NEW k \in Keys
  PROVE  [layer EXCEPT ![k] = "none"] \in Layered
BY DEF Layered, Overlay!Kinds

LEMMA RenameType ==
  ASSUME NEW layer \in Layered, NEW from \in Keys, NEW to \in Keys
  PROVE  Overlay!rename(layer, from, to) \in Layered
BY DEF Layered, Overlay!Kinds, Overlay!rename

-----------------------------------------------------------------------------
(* The types, and the volume where writes are not allowed *)

(* How any of the calls changes the volume: one key of the layer that takes changes. *)
Changed ==
  \/ UNCHANGED volume
  \/ /\ Running.allow
     /\ \E after : /\ Changing \in DOMAIN layers => after \in Layered
                   /\ layers' = [layers EXCEPT ![Changing] = after]
     /\ made' \in Layered

LEMMA ChangedStep ==
  ASSUME TypeInv, Changed, UNCHANGED program
  PROVE  /\ \A l \in DOMAIN layers' : layers'[l] \in Layered
         /\ made' \in Layered
         /\ LayersInv'
<1>0. /\ \A l \in DOMAIN layers : layers[l] \in Layered
      /\ made \in Layered
  BY DEF TypeInv, TypeOK, Layered
<1>1. Running' = Running
  BY DEF Running
<1>2. CASE UNCHANGED volume
  BY <1>0, <1>1, <1>2 DEF TypeInv, LayersInv, volume
<1>3. ASSUME Running.allow,
             NEW after, Changing \in DOMAIN layers => after \in Layered,
             layers' = [layers EXCEPT ![Changing] = after],
             made' \in Layered
      PROVE  /\ \A l \in DOMAIN layers' : layers'[l] \in Layered
             /\ made' \in Layered
             /\ LayersInv'
  <2>1. DOMAIN layers' = DOMAIN layers /\ \A l \in DOMAIN layers' : layers'[l] \in Layered
    BY <1>0, <1>3
  <2> QED
    BY <1>1, <1>3, <2>1 DEF TypeInv, LayersInv
<1> QED
  BY <1>2, <1>3 DEF Changed

(* A nonempty set of numbers has a least one. *)
LEMMA LeastNumber ==
  ASSUME NEW T, T \subseteq Nat, T # {}
  PROVE  \E x \in T : \A y \in T : x <= y
<1> DEFINE R == OpToRel(<, Nat)
<1>1. \E x \in T : \A y \in T : ~ (<<y, x>> \in R)
  <2>1. IsWellFoundedOn(R, Nat)
    BY NatLessThanWellFounded
  <2> HIDE DEF R
  <2> QED
    BY <2>1, WFMin
<1>2. \A x, y \in Nat : <<y, x>> \in R <=> y < x
  BY DEF OpToRel
<1> HIDE DEF R
<1>3. PICK x \in T : \A y \in T : ~ (<<y, x>> \in R)
  BY <1>1
<1>4. ASSUME NEW y \in T PROVE x <= y
  <2>1. x \in Nat /\ y \in Nat
    OBVIOUS
  <2>2. ~ (y < x)
    BY <1>2, <1>3, <2>1
  <2> QED
    BY <2>1, <2>2
<1> QED
  BY <1>4


(* The layer that takes changes is a layer, and the first that may. *)
LEMMA ChangingLayer ==
  ASSUME TypeInv, Changing # 0
  PROVE  /\ Changing \in Running.writable /\ Changing \in DOMAIN layers
         /\ \A l \in Running.writable : Changing <= l
<1> DEFINE S == Running.writable
<1>1. S \subseteq DOMAIN layers
  BY PathAssumption DEF TypeInv, LayersInv, Running
<1>2. DOMAIN layers = 1..Len(Running.layers) /\ Len(Running.layers) \in Nat
  BY PathAssumption DEF TypeInv, LayersInv, Running
<1>3. S # {} /\ Changing = Overlay!Min(S)
  BY DEF Changing, Overlay!changing, Overlay!FirstOf
<1>4. \E x \in S : \A y \in S : x <= y
  BY <1>1, <1>2, <1>3, LeastNumber
<1>5. Overlay!Min(S) \in S /\ \A y \in S : Overlay!Min(S) <= y
  BY <1>4 DEF Overlay!Min
<1> QED
  BY <1>1, <1>3, <1>5

LEMMA TypeInit == Init => TypeInv
<1> SUFFICES ASSUME Init PROVE TypeInv
  OBVIOUS
<1>1. TypeOK
  BY PathAssumption DEF Init, TypeOK, Running, Engines, Overlay!Kinds, Objects, Streams, Routes
<1>2. JobType /\ LayersInv /\ FirstInv /\ KernelInv
  BY DEF Init, JobType, LayersInv, FirstInv, KernelInv, Idle
<1> QED
  BY <1>1, <1>2 DEF TypeInv

(* A step that leaves the heap and the registries alone. *)
LEMMA TypeOfNames ==
  ASSUME TypeInv, Changed, UNCHANGED <<routing, memory>>, DOMAIN job' = Threads,
         FirstInv',
         reached' \subseteq {"real"}
  PROVE  TypeInv'
<1>1. UNCHANGED program
  BY DEF routing
<1>2. /\ \A l \in DOMAIN layers' : layers'[l] \in Layered
      /\ made' \in Layered
      /\ LayersInv'
  BY <1>1, ChangedStep
<1>3. TypeOK'
  BY <1>2 DEF TypeInv, TypeOK, Layered, routing, memory, Routes
<1> QED
  BY <1>2, <1>3 DEF TypeInv, JobType, KernelInv

(* A step of the streams: only addresses and jobs change. *)
LEMMA TypeOfStreams ==
  ASSUME TypeInv, Changed, UNCHANGED routing, DOMAIN job' = Threads,
         FirstInv',
         dirs' \in [Engines -> SUBSET Addrs],
         heap' \in [Addrs -> Objects], held' \in [Addrs -> Streams],
         reached' \subseteq {"real"}
  PROVE  TypeInv'
<1>1. UNCHANGED program
  BY DEF routing
<1>2. /\ \A l \in DOMAIN layers' : layers'[l] \in Layered
      /\ made' \in Layered
      /\ LayersInv'
  BY <1>1, ChangedStep
<1>3. TypeOK'
  BY <1>2 DEF TypeInv, TypeOK, Layered, routing, Routes
<1> QED
  BY <1>2, <1>3 DEF TypeInv, JobType, KernelInv

(* A thread that returns, or starts on a stream, is in no call of two paths. *)
LEMMA FirstStep ==
  ASSUME TypeInv, UNCHANGED program, NEW t \in Threads, NEW j,
         job' = [job EXCEPT ![t] = j], j.at \notin {"rename", "link"}
  PROVE  DOMAIN job' = Threads /\ FirstInv'
<1>1. Running' = Running
  BY DEF Running
<1> QED
  BY <1>1 DEF TypeInv, JobType, FirstInv

LEMMA FirstKept ==
  ASSUME TypeInv, UNCHANGED <<program, job>>
  PROVE  DOMAIN job' = Threads /\ FirstInv'
<1>1. Running' = Running
  BY DEF Running
<1> QED
  BY <1>1 DEF TypeInv, JobType, FirstInv

(* RouteFrom writes down the route of the source, which writes must allow. *)
LEMMA TypeOfRouteFrom ==
  ASSUME TypeInv, NEW t \in Threads, NEW c \in {"rename", "link"}, NEW from, NEW to,
         RouteFrom(t, c, from, to)
  PROVE  TypeInv'
<1>1. UNCHANGED <<routing, memory>> /\ Changed
  BY DEF RouteFrom, Changed
<1>2. DOMAIN job' = Threads /\ reached' \subseteq {"real"}
  BY DEF RouteFrom, Kept, TypeInv, JobType, KernelInv
<1>3. FirstInv'
  <2>0. Running' = Running
    BY <1>1 DEF Running, routing
  <2>1. job'[t].from = route(from) /\ job'[t].at = c
    BY DEF RouteFrom, TypeInv, JobType, Idle
  <2>2. \A u \in Threads \ {t} : job'[u] = job[u]
    BY DEF RouteFrom, TypeInv, JobType
  <2>3. \/ route(from) = "real"
        \/ c = "rename" /\ Running.allow
    BY DEF RouteFrom
  <2> QED
    BY <2>0, <2>1, <2>2, <2>3 DEF FirstInv, TypeInv
<1> QED
  BY <1>1, <1>2, <1>3, TypeOfNames

(* The end of a call of two paths. *)
LEMMA TypeOfLink ==
  ASSUME TypeInv, NEW t \in Threads, link(t)
  PROVE  TypeInv'
<1>1. UNCHANGED <<routing, memory>> /\ Changed /\ job' = [job EXCEPT ![t] = Idle]
  BY DEF link, Changed, Return
<1>2. DOMAIN job' = Threads /\ FirstInv'
  BY <1>1, FirstStep DEF Idle, routing
<1>3. reached' \subseteq {"real"}
  <2>1. job[t].from = "real"
    BY DEF link, At, TypeInv, FirstInv
  <2> QED
    BY <2>1 DEF link, SameSide, Passed, Kept, TypeInv, KernelInv
<1> QED
  BY <1>1, <1>2, <1>3, TypeOfNames

LEMMA TypeOfRename ==
  ASSUME TypeInv, NEW t \in Threads, rename(t)
  PROVE  TypeInv'
<1> DEFINE j == job[t]
           k == key(job[t].to)
           to == route(job[t].to)
           moves == /\ j.from = "virtual" /\ Changing # 0 /\ {j.path, k} \subseteq Keys
                    /\ Overlay!MayRename(layers[Changing], RootKey, j.path, k)
<1>1. UNCHANGED <<routing, memory>> /\ job' = [job EXCEPT ![t] = Idle]
  BY DEF rename, Return
<1>2. DOMAIN job' = Threads /\ FirstInv'
  BY <1>1, FirstStep DEF Idle, routing
<1>3. CASE /\ UNCHANGED volume
           /\ Kept \/ (to = "real" /\ SameSide(j.from, to) /\ Passed({j.from, to}))
  <2>1. reached' \subseteq {"real"}
    BY <1>3 DEF Kept, Passed, SameSide, TypeInv, KernelInv
  <2> QED
    BY <1>1, <1>2, <1>3, <2>1, TypeOfNames DEF Changed
<1>4. CASE /\ Kept /\ moves
           /\ layers' = [layers EXCEPT ![Changing] = Overlay!rename(@, j.path, k)]
           /\ made' = [made EXCEPT ![k] = layers[Changing][j.path], ![j.path] = "none"]
  <2>1. Running.allow
    BY <1>4 DEF rename, At, TypeInv, FirstInv
  <2>2. Changing \in DOMAIN layers => Overlay!rename(layers[Changing], j.path, k) \in Layered
    BY <1>4, RenameType DEF TypeInv, TypeOK, Layered
  <2>3. made' \in Layered
    <3>1. layers[Changing][j.path] \in Overlay!Kinds
      <4>1. Changing \in DOMAIN layers /\ j.path \in Keys
        BY <1>4, ChangingLayer
      <4> QED
        BY <4>1 DEF TypeInv, TypeOK
    <3> QED
      BY <1>4, <3>1 DEF TypeInv, TypeOK, Layered, Overlay!Kinds
  <2>4. Changed
    BY <1>4, <2>1, <2>2, <2>3 DEF Changed
  <2>5. reached' \subseteq {"real"}
    BY <1>4 DEF Kept, TypeInv, KernelInv
  <2> QED
    BY <1>1, <1>2, <2>4, <2>5, TypeOfNames
<1> QED
  BY <1>3, <1>4 DEF rename

(* Calls that ask, and the working directory. *)
LEMMA TypeOfQuery ==
  ASSUME TypeInv, NEW t \in Threads, NEW c \in Queries, NEW s, Query(t, c, s)
  PROVE  TypeInv'
<1>1. UNCHANGED <<routing, memory>> /\ Changed /\ UNCHANGED job
  BY DEF Query, Changed
<1>2. DOMAIN job' = Threads /\ FirstInv'
  BY <1>1, FirstKept DEF routing
<1>3. reached' \subseteq {"real"}
  <2>1. PICK answer \in Answers(c, s) : IF answer = "kernel" THEN Passed({route(s)}) ELSE Kept
    BY DEF Query
  <2>2. answer = "kernel" => route(s) = "real"
    BY KernelIsReal
  <2> QED
    BY <2>1, <2>2 DEF Passed, Kept, TypeInv, KernelInv
<1> QED
  BY <1>1, <1>2, <1>3, TypeOfNames

LEMMA TypeOfChdir ==
  ASSUME TypeInv, NEW t \in Threads, NEW s, chdir(t, s)
  PROVE  TypeInv'
<1>1. UNCHANGED <<routing, memory>> /\ Changed /\ UNCHANGED job
  BY DEF chdir, Changed
<1>2. DOMAIN job' = Threads /\ FirstInv'
  BY <1>1, FirstKept DEF routing
<1>3. reached' \subseteq {"real"}
  BY DEF chdir, Passed, Kept, TypeInv, KernelInv
<1> QED
  BY <1>1, <1>2, <1>3, TypeOfNames

(* The changed layer has the new kind at the key, and still all it had elsewhere. *)
Fits(after, k, kind) ==
  /\ after \in Layered /\ kind \in Overlay!Kinds /\ after[k] = kind
  /\ \A x \in Keys \ {k} : layers[Changing][x] # "none" => after[x] = layers[Changing][x]

LEMMA CreateFits ==
  ASSUME TypeInv, Changing # 0, NEW k \in Keys, NEW kind \in Overlay!Kinds
  PROVE  Fits(Overlay!create(layers[Changing], RootKey, k, kind), k, kind)
<1> DEFINE layer == layers[Changing]
<1>1. layer \in Layered
  BY ChangingLayer DEF TypeInv, TypeOK, Layered
<1> HIDE DEF layer
<1>2. Overlay!create(layer, RootKey, k, kind) \in Layered
  BY <1>1, CreateType
<1>3. /\ Overlay!create(layer, RootKey, k, kind)[k] = kind
      /\ \A x \in Keys \ {k} : layer[x] # "none" =>
           Overlay!create(layer, RootKey, k, kind)[x] = layer[x]
  BY <1>1, PathAssumption DEF Layered, Overlay!create, Overlay!WithAncestors
<1> QED
  BY <1>2, <1>3 DEF Fits, layer

Writes(k, after, kind) ==
  /\ Running.allow /\ Changing # 0 /\ k \in Keys
  /\ Fits(after, k, kind)
  /\ layers' = [layers EXCEPT ![Changing] = after]
  /\ made' = [made EXCEPT ![k] = kind]

LEMMA WritesChange ==
  ASSUME TypeInv, NEW k, NEW after, NEW kind, Writes(k, after, kind)
  PROVE  Changed
<1>1. made' \in Layered /\ after \in Layered
  BY DEF Writes, TypeInv, TypeOK, Layered, Fits
<1> QED
  BY <1>1 DEF Writes, Changed

(* What a call that goes through mutate_path does, whatever the operation. *)
Mutates(s, after, kind) ==
  /\ UNCHANGED <<routing, memory, job>>
  /\ \/ Passed({"real"}) /\ UNCHANGED volume
     \/ Kept /\ Writes(key(s), after, kind)

LEMMA TypeOfMutation ==
  ASSUME TypeInv, NEW s, NEW after, NEW kind, Mutates(s, after, kind)
  PROVE  TypeInv'
<1>1. DOMAIN job' = Threads /\ FirstInv'
  BY FirstKept DEF Mutates, routing
<1>2. Changed
  BY WritesChange DEF Mutates, Changed
<1>3. reached' \subseteq {"real"}
  BY DEF Mutates, Passed, Kept, TypeInv, KernelInv
<1> QED
  BY <1>1, <1>2, <1>3, TypeOfNames DEF Mutates

LEMMA MkdirEffect ==
  ASSUME TypeInv, NEW t \in Threads, NEW s, mkdir(t, s)
  PROVE  \E after, kind : Mutates(s, after, kind)
<1> DEFINE after == Overlay!create(layers[Changing], RootKey, key(s), "dir")
<1>1. Changing # 0 /\ key(s) \in Keys => Fits(after, key(s), "dir")
  BY CreateFits DEF Overlay!Kinds
<1>2. Mutates(s, after, "dir")
  BY <1>1 DEF mkdir, mutate_path, Mutates, Writes
<1> QED
  BY <1>2

LEMMA RemoveEffect ==
  ASSUME TypeInv, NEW t \in Threads, NEW s, remove(t, s)
  PROVE  \E after, kind : Mutates(s, after, kind)
<1> DEFINE after == [layers[Changing] EXCEPT ![key(s)] = "none"]
<1>1. ASSUME Changing # 0, key(s) \in Keys PROVE Fits(after, key(s), "none")
  <2>1. layers[Changing] \in Layered
    BY <1>1, ChangingLayer DEF TypeInv, TypeOK, Layered
  <2> QED
    BY <1>1, <2>1 DEF Fits, Layered, Overlay!Kinds
<1>2. Mutates(s, after, "none")
  BY <1>1 DEF remove, mutate_path, Mutates, Writes
<1> QED
  BY <1>2

LEMMA TruncateEffect ==
  ASSUME TypeInv, NEW t \in Threads, NEW s, truncate(t, s)
  PROVE  \E after, kind : Mutates(s, after, kind)
<1>1. ASSUME Changing # 0, key(s) \in Keys, layers[Changing][key(s)] = "file"
      PROVE  Fits(layers[Changing], key(s), "file")
  <2>1. layers[Changing] \in Layered
    BY <1>1, ChangingLayer DEF TypeInv, TypeOK, Layered
  <2> QED
    BY <1>1, <2>1 DEF Fits, Layered, Overlay!Kinds
<1>2. Mutates(s, layers[Changing], "file")
  BY <1>1 DEF truncate, mutate_path, Mutates, Writes
<1> QED
  BY <1>2

-----------------------------------------------------------------------------
(* What the calls on streams do *)

(* t is given address a, free until now. *)
Takes(t, a, object, at, e) ==
  /\ Free(a) /\ heap' = [heap EXCEPT ![a] = object]
  /\ \E j : job' = [job EXCEPT ![t] = j] /\ j.at = at /\ j.e = e /\ j.a = a
  /\ UNCHANGED held

LEMMA FopenEffect ==
  ASSUME TypeInv, NEW t \in Threads, NEW s, NEW mode \in Modes, fopen(t, s, mode)
  PROVE  /\ UNCHANGED <<routing, dirs, held>> /\ job[t] = Idle
         /\ \/ Passed({"real"}) /\ UNCHANGED <<volume, heap, job>>
            \/ /\ Kept /\ \E a \in Addrs : Takes(t, a, "cookie", "fopencookie", 0)
               /\ \/ UNCHANGED volume
                  \/ \E after, kind : Writes(key(s), after, kind)
<1>1. UNCHANGED <<routing, dirs, held>> /\ job[t] = Idle
  BY DEF fopen, MayCall
<1>2. ASSUME prepare_cookie(t, s, mode)
      PROVE  /\ Kept /\ \E a \in Addrs : Takes(t, a, "cookie", "fopencookie", 0)
             /\ \/ UNCHANGED volume
                \/ \E after, kind : Writes(key(s), after, kind)
  <2>1. PICK a \in Addrs :
          /\ Free(a) /\ heap' = [heap EXCEPT ![a] = "cookie"]
          /\ job' = [job EXCEPT ![t] = [Idle EXCEPT !.at = "fopencookie", !.a = a]]
    BY <1>2 DEF prepare_cookie
  <2>2. \E j : job' = [job EXCEPT ![t] = j] /\ j.at = "fopencookie" /\ j.e = 0 /\ j.a = a
    <3> DEFINE j == [Idle EXCEPT !.at = "fopencookie", !.a = a]
    <3>1. j.at = "fopencookie" /\ j.e = 0 /\ j.a = a
      BY DEF Idle
    <3>2. job' = [job EXCEPT ![t] = j]
      BY <2>1
    <3> HIDE DEF j
    <3> QED
      BY <3>1, <3>2
  <2>3. Takes(t, a, "cookie", "fopencookie", 0)
    BY <1>1, <2>1, <2>2 DEF Takes
  <2>4. CASE UNCHANGED volume
    BY <1>2, <2>3, <2>4 DEF prepare_cookie
  <2>5. CASE /\ Running.allow /\ Changing # 0 /\ key(s) \in Keys
             /\ layers' = [layers EXCEPT ![Changing] =
                             Overlay!create(layers[Changing], RootKey, key(s), "file")]
             /\ made' = [made EXCEPT ![key(s)] = "file"]
    <3> DEFINE after == Overlay!create(layers[Changing], RootKey, key(s), "file")
    <3>1. Fits(after, key(s), "file")
      BY <2>5, CreateFits DEF Overlay!Kinds
    <3>2. layers' = [layers EXCEPT ![Changing] = after]
      BY <2>5
    <3> HIDE DEF after
    <3>3. Writes(key(s), after, "file")
      BY <2>5, <3>1, <3>2 DEF Writes
    <3> QED
      BY <1>2, <2>3, <3>3 DEF prepare_cookie
  <2>6. UNCHANGED volume
          \/ /\ Running.allow /\ Changing # 0 /\ key(s) \in Keys
             /\ layers' = [layers EXCEPT ![Changing] =
                             Overlay!create(layers[Changing], RootKey, key(s), "file")]
             /\ made' = [made EXCEPT ![key(s)] = "file"]
    BY <1>2 DEF prepare_cookie
  <2> QED
    BY <2>4, <2>5, <2>6
<1> QED
  BY <1>1, <1>2 DEF fopen

LEMMA OpendirEffect ==
  ASSUME TypeInv, NEW t \in Threads, NEW s, opendir(t, s)
  PROVE  /\ UNCHANGED <<routing, volume, dirs>> /\ job[t] = Idle
         /\ \/ /\ Passed({"real"}) /\ UNCHANGED job
               /\ \E a \in Addrs : /\ Free(a) /\ heap' = [heap EXCEPT ![a] = "libc"]
                                   /\ held' = [held EXCEPT ![a] = "dir"]
            \/ /\ Kept /\ engine # 0
               /\ \E a \in Addrs : Takes(t, a, "vdir", "insert_dir", engine)
<1>1. route(s) = "virtual" => engine # 0
  BY NeedsEngine
<1>2. UNCHANGED <<routing, volume, dirs>> /\ job[t] = Idle
  BY DEF opendir, MayCall
<1>3. ASSUME NEW a \in Addrs, Free(a), heap' = [heap EXCEPT ![a] = "vdir"], UNCHANGED held,
             job' = [job EXCEPT ![t] = [Idle EXCEPT !.at = "insert_dir", !.e = engine, !.a = a]]
      PROVE  Takes(t, a, "vdir", "insert_dir", engine)
  <2> DEFINE j == [Idle EXCEPT !.at = "insert_dir", !.e = engine, !.a = a]
  <2>1. j.at = "insert_dir" /\ j.e = engine /\ j.a = a
    BY DEF Idle
  <2>2. job' = [job EXCEPT ![t] = j]
    BY <1>3
  <2> HIDE DEF j
  <2> QED
    BY <1>3, <2>1, <2>2 DEF Takes
<1> QED
  BY <1>1, <1>2, <1>3 DEF opendir

(* What t is about to do with an address, in the states between two calls. *)
LEMMA TypeOfFopen ==
  ASSUME TypeInv, NEW t \in Threads, NEW s, NEW mode \in Modes, fopen(t, s, mode)
  PROVE  TypeInv'
<1>1. Changed
  BY FopenEffect, WritesChange DEF Changed
<1>2. UNCHANGED <<routing, dirs, held>>
  BY FopenEffect
<1>3. DOMAIN job' = Threads /\ FirstInv'
  BY <1>2, FopenEffect, FirstKept, FirstStep DEF Takes, routing
<1>4. heap' \in [Addrs -> Objects] /\ reached' \subseteq {"real"}
  BY FopenEffect DEF Takes, Passed, Kept, Objects, TypeInv, TypeOK, KernelInv
<1> QED
  BY <1>1, <1>2, <1>3, <1>4, TypeOfStreams DEF TypeInv, TypeOK

LEMMA TypeOfOpendir ==
  ASSUME TypeInv, NEW t \in Threads, NEW s, opendir(t, s)
  PROVE  TypeInv'
<1>1. UNCHANGED <<routing, dirs>> /\ Changed
  BY OpendirEffect DEF Changed
<1>2. DOMAIN job' = Threads /\ FirstInv'
  BY <1>1, OpendirEffect, FirstKept, FirstStep DEF Takes, routing
<1>3. /\ heap' \in [Addrs -> Objects] /\ held' \in [Addrs -> Streams]
      /\ reached' \subseteq {"real"}
  BY OpendirEffect DEF Takes, Passed, Kept, Objects, Streams, TypeInv, TypeOK, KernelInv
<1> QED
  BY <1>1, <1>2, <1>3, TypeOfStreams DEF TypeInv, TypeOK

(* The calls on a stream that is open, or half open. *)
StreamStep(t) ==
  \/ insert_dir(t) \/ NextEntry(t) \/ DropBox(t) \/ fopen_virtual(t)
  \/ \E a \in Addrs : readdir(t, a) \/ closedir(t, a) \/ cookie_close_state(t, a)

LEMMA TypeOfStream ==
  ASSUME TypeInv, JobInv, NEW t \in Threads, StreamStep(t)
  PROVE  TypeInv'
<1>0. UNCHANGED <<routing, volume, reached>>
  BY DEF StreamStep, insert_dir, NextEntry, DropBox, fopen_virtual, readdir, closedir,
         cookie_close_state
<1>1. Changed /\ reached' \subseteq {"real"}
  BY <1>0 DEF Changed, TypeInv, KernelInv
<1>2. UNCHANGED job \/ \E j : job' = [job EXCEPT ![t] = j] /\ j.at \notin {"rename", "link"}
  <2>1. \A a : [Idle EXCEPT !.at = "entry", !.a = a].at = "entry"
    BY DEF Idle
  <2>2. \A a : [Idle EXCEPT !.at = "drop", !.a = a].at = "drop"
    BY DEF Idle
  <2>3. Idle.at = "idle"
    BY DEF Idle
  <2>4. CASE Return(t)
    BY <2>3, <2>4 DEF Return
  <2>5. ASSUME NEW a, job' = [job EXCEPT ![t] = [Idle EXCEPT !.at = "entry", !.a = a]]
        PROVE  \E j : job' = [job EXCEPT ![t] = j] /\ j.at \notin {"rename", "link"}
    BY <2>1, <2>5
  <2>6. ASSUME NEW a, job' = [job EXCEPT ![t] = [Idle EXCEPT !.at = "drop", !.a = a]]
        PROVE  \E j : job' = [job EXCEPT ![t] = j] /\ j.at \notin {"rename", "link"}
    BY <2>2, <2>6
  <2> QED
    BY <2>4, <2>5, <2>6 DEF StreamStep, insert_dir, NextEntry, DropBox, fopen_virtual, readdir,
         closedir, cookie_close_state
<1>3. DOMAIN job' = Threads /\ FirstInv'
  BY <1>0, <1>2, FirstKept, FirstStep DEF routing
<1>4. dirs' \in [Engines -> SUBSET Addrs]
  <2>0. dirs \in [Engines -> SUBSET Addrs]
    BY DEF TypeInv, TypeOK
  <2>1. CASE insert_dir(t)
    <3>1. job[t].a \in Addrs /\ dirs' = [dirs EXCEPT ![job[t].e] = @ \cup {job[t].a}]
      BY <2>1 DEF insert_dir, At, JobInv
    <3> QED
      BY <2>0, <3>1
  <2>2. ASSUME NEW a \in Addrs, closedir(t, a) PROVE dirs' \in [Engines -> SUBSET Addrs]
    BY <2>0, <2>2 DEF closedir
  <2>3. CASE UNCHANGED dirs
    BY <2>0, <2>3
  <2> QED
    BY <2>1, <2>2, <2>3 DEF StreamStep, NextEntry, DropBox, fopen_virtual, readdir,
         cookie_close_state, memory
<1>5. heap' \in [Addrs -> Objects]
  BY DEF StreamStep, insert_dir, NextEntry, DropBox, fopen_virtual, readdir, closedir,
         cookie_close_state, Reclaim, memory, Objects, TypeInv, TypeOK
<1>6. held' \in [Addrs -> Streams]
  BY DEF StreamStep, insert_dir, NextEntry, DropBox, fopen_virtual, readdir, closedir,
         cookie_close_state, memory, Streams, TypeInv, TypeOK
<1> QED
  BY <1>0, <1>1, <1>3, <1>4, <1>5, <1>6, TypeOfStreams

LEMMA TypeStep ==
  ASSUME TypeInv, JobInv, [Next]_vars
  PROVE  TypeInv'
<1>1. CASE UNCHANGED vars
  BY <1>1 DEF vars, TypeInv, TypeOK, JobType, LayersInv, FirstInv, KernelInv, Running
<1>2. ASSUME try_activate \/ deactivate
      PROVE  TypeInv'
  <2>1. UNCHANGED <<program, cwd, layers, made, dirs, heap, held, job, reached>>
    BY <1>2 DEF try_activate, deactivate, volume, memory
  <2>2. engine' \in 0..MaxEngines /\ published' \in 0..MaxEngines
    <3>1. MaxEngines \in Nat /\ Running.engines \in 0..MaxEngines
      BY PathAssumption DEF TypeInv, LayersInv, Running
    <3> QED
      BY <1>2, <3>1 DEF try_activate, deactivate, TypeInv, TypeOK
  <2> QED
    BY <2>1, <2>2 DEF TypeInv, TypeOK, JobType, LayersInv, FirstInv, KernelInv, Running
<1>3. ASSUME NEW t \in Threads, link(t) \/ rename(t) PROVE TypeInv'
  BY <1>3, TypeOfLink, TypeOfRename
<1>4. ASSUME NEW t \in Threads, NEW s, NEW c \in Queries, Query(t, c, s) PROVE TypeInv'
  BY <1>4, TypeOfQuery
<1>5. ASSUME NEW t \in Threads, NEW s, chdir(t, s) \/ opendir(t, s) PROVE TypeInv'
  BY <1>5, TypeOfChdir, TypeOfOpendir
<1>6. ASSUME NEW t \in Threads, NEW s, mkdir(t, s) \/ remove(t, s) \/ truncate(t, s) PROVE TypeInv'
  <2>1. \E after, kind : Mutates(s, after, kind)
    BY <1>6, MkdirEffect, RemoveEffect, TruncateEffect
  <2> QED
    BY <2>1, TypeOfMutation
<1>7. ASSUME NEW t \in Threads, NEW s, NEW mode \in Modes, fopen(t, s, mode) PROVE TypeInv'
  BY <1>7, TypeOfFopen
<1>8. ASSUME NEW t \in Threads, NEW c \in {"rename", "link"}, NEW from, NEW to,
             RouteFrom(t, c, from, to)
      PROVE  TypeInv'
  BY <1>8, TypeOfRouteFrom
<1>9. ASSUME NEW t \in Threads, StreamStep(t) PROVE TypeInv'
  BY <1>9, TypeOfStream
<1> QED
  BY <1>1, <1>2, <1>3, <1>4, <1>5, <1>6, <1>7, <1>8, <1>9 DEF Next, StreamStep

-----------------------------------------------------------------------------
(* Addresses *)

Using == {"insert_dir", "entry", "drop", "fopencookie"}

LEMMA PointerInit == Init => PointerInv
BY PathAssumption DEF Init, PointerInv, EngineInv, JobInv, ApartInv, HeldInv, RegistryInv,
   Uses, At, Idle, Engines

(* A step that changes no address, and after which nobody uses one he did not use before. *)
LEMMA PointerFrame ==
  ASSUME PointerInv, UNCHANGED <<routing, memory>>,
         \A u \in Threads : job'[u].at \in Using => job'[u] = job[u],
         \A u \in Threads : job[u].at = "fopencookie" => job'[u] = job[u]
  PROVE  PointerInv'
<1>1. UNCHANGED <<engine, published, dirs, heap, held>>
  BY DEF routing, memory
<1>2. EngineInv'
  BY <1>1 DEF PointerInv, EngineInv, Using
<1>3. JobInv'
  BY <1>1 DEF PointerInv, JobInv, Using
<1>4. ApartInv'
  BY <1>1 DEF PointerInv, ApartInv, Uses, Using
<1>5. HeldInv'
  BY <1>1 DEF PointerInv, HeldInv, At
<1>6. RegistryInv'
  BY <1>1 DEF PointerInv, RegistryInv
<1> QED
  BY <1>2, <1>3, <1>4, <1>5, <1>6 DEF PointerInv

(* A step of t at one address, which no other thread uses. *)
LEMMA PointerLocal ==
  ASSUME TypeInv, PointerInv, UNCHANGED routing, NEW t \in Threads, NEW a \in Addrs,
         DOMAIN job' = Threads, \A u \in Threads \ {t} : job'[u] = job[u] /\ ~Uses(u, a),
         job[t].at \in Using => job[t].a = a,
         job'[t].at \in Using => job'[t].a = a,
         job'[t].at = "insert_dir" => job'[t].e \in 1..published,
         \A b \in Addrs \ {a} : heap'[b] = heap[b] /\ held'[b] = held[b],
         \A e \in Engines : e > published => dirs'[e] = {},
         engine # 0 => dirs'[engine] \subseteq dirs[engine] \cup {a},
         engine # 0 /\ a \in dirs'[engine] => heap'[a] = "vdir" /\ held'[a] = "dir",
         held'[a] = "dir" => heap'[a] \in {"vdir", "libc"},
         held'[a] = "file" => heap'[a] = "cookie",
         heap'[a] = "cookie" => held'[a] = "file" \/ job'[t].at = "fopencookie",
         job'[t].at = "entry" => heap'[a] = "vdir" /\ held'[a] = "dir",
         job'[t].at \in {"insert_dir", "drop"} => heap'[a] = "vdir" /\ held'[a] = "none",
         job'[t].at = "fopencookie" => heap'[a] = "cookie" /\ held'[a] = "none"
  PROVE  PointerInv'
<1>1. UNCHANGED <<engine, published>>
  BY DEF routing
<1>2. EngineInv'
  BY <1>1 DEF PointerInv, EngineInv
<1>3. JobInv'
  BY DEF PointerInv, JobInv, Using, Uses
<1>4. ApartInv'
  BY DEF PointerInv, ApartInv, Uses, Using
<1>5. HeldInv'
  BY DEF PointerInv, HeldInv, At, Using, Uses
<1>6. RegistryInv'
  BY <1>1 DEF PointerInv, RegistryInv, TypeInv, TypeOK, Engines
<1> QED
  BY <1>2, <1>3, <1>4, <1>5, <1>6 DEF PointerInv

(* An address libc, or the allocator, has just given out was nobody's. *)
LEMMA FreeAddress ==
  ASSUME TypeInv, PointerInv, NEW a \in Addrs, Free(a)
  PROVE  /\ \A u \in Threads : ~Uses(u, a)
         /\ held[a] = "none" /\ (engine # 0 => a \notin dirs[engine])
<1>1. held[a] = "none"
  BY DEF Free, PointerInv, HeldInv, TypeInv, TypeOK, Streams
<1> QED
  BY <1>1 DEF Free, InUse, Uses, PointerInv, RegistryInv

LEMMA TakesStep ==
  ASSUME TypeInv, PointerInv, UNCHANGED <<routing, dirs>>, NEW t \in Threads, job[t] = Idle,
         NEW a \in Addrs, NEW object, NEW at, NEW e, Takes(t, a, object, at, e),
         \/ object = "vdir" /\ at = "insert_dir" /\ e \in 1..published
         \/ object = "cookie" /\ at = "fopencookie"
  PROVE  PointerInv'
<1>1. PICK j : job' = [job EXCEPT ![t] = j] /\ j.at = at /\ j.e = e /\ j.a = a
  BY DEF Takes
<1>2. /\ DOMAIN job' = Threads /\ job'[t] = j
      /\ \A u \in Threads \ {t} : job'[u] = job[u] /\ ~Uses(u, a)
  BY <1>1, FreeAddress DEF Takes, TypeInv, JobType
<1>3. /\ heap'[a] = object /\ held'[a] = "none"
      /\ \A b \in Addrs \ {a} : heap'[b] = heap[b] /\ held'[b] = held[b]
  BY FreeAddress DEF Takes, TypeInv, TypeOK
<1>4. job[t].at \notin Using
  BY DEF Idle, Using
<1>5. /\ \A x \in Engines : x > published => dirs'[x] = {}
      /\ engine # 0 => dirs'[engine] = dirs[engine] /\ a \notin dirs'[engine]
  BY FreeAddress DEF Takes, PointerInv, EngineInv
<1>6. UNCHANGED routing
  OBVIOUS
<1> QED
  BY <1>1, <1>2, <1>3, <1>4, <1>5, <1>6, PointerLocal DEF Using

LEMMA PointerOfFopen ==
  ASSUME TypeInv, PointerInv, NEW t \in Threads, NEW s, NEW mode \in Modes, fopen(t, s, mode)
  PROVE  PointerInv'
<1>1. CASE UNCHANGED <<heap, job>>
  BY <1>1, FopenEffect, PointerFrame DEF memory
<1>2. ASSUME NEW a \in Addrs, Takes(t, a, "cookie", "fopencookie", 0)
      PROVE  PointerInv'
  BY <1>2, FopenEffect, TakesStep
<1> QED
  BY <1>1, <1>2, FopenEffect

LEMMA PointerOfOpendir ==
  ASSUME TypeInv, PointerInv, NEW t \in Threads, NEW s, opendir(t, s)
  PROVE  PointerInv'
<1>1. ASSUME NEW a \in Addrs, Free(a), heap' = [heap EXCEPT ![a] = "libc"],
             held' = [held EXCEPT ![a] = "dir"], UNCHANGED job
      PROVE  PointerInv'
  <2>1. UNCHANGED <<routing, dirs>> /\ job[t] = Idle
    BY OpendirEffect
  <2>2. /\ heap'[a] = "libc" /\ held'[a] = "dir"
        /\ \A b \in Addrs \ {a} : heap'[b] = heap[b] /\ held'[b] = held[b]
    BY <1>1 DEF TypeInv, TypeOK
  <2>3. /\ \A x \in Engines : x > published => dirs'[x] = {}
        /\ engine # 0 => dirs'[engine] = dirs[engine] /\ a \notin dirs'[engine]
    BY <1>1, <2>1, FreeAddress DEF PointerInv, EngineInv
  <2>4. job[t].at \notin Using /\ job'[t].at \notin Using
    BY <1>1, <2>1 DEF Idle, Using
  <2>5. DOMAIN job' = Threads /\ \A u \in Threads \ {t} : job'[u] = job[u] /\ ~Uses(u, a)
    BY <1>1, FreeAddress DEF TypeInv, JobType
  <2> QED
    BY <2>1, <2>2, <2>3, <2>4, <2>5, PointerLocal DEF Using
<1>2. ASSUME NEW a \in Addrs, engine # 0, Takes(t, a, "vdir", "insert_dir", engine)
      PROVE  PointerInv'
  <2>1. engine \in 1..published
    BY <1>2 DEF TypeInv, TypeOK, PointerInv, EngineInv
  <2>2. PICK e : e = engine
    OBVIOUS
  <2>3. Takes(t, a, "vdir", "insert_dir", e)
    BY <1>2, <2>2 DEF Takes
  <2> QED
    BY <2>1, <2>2, <2>3, OpendirEffect, TakesStep
<1> QED
  BY <1>1, <1>2, OpendirEffect

(* What a thread uses is its own; what the program passes in is in use by none. *)
LEMMA Alone ==
  ASSUME PointerInv, NEW t \in Threads, job[t].at \in Using
  PROVE  job[t].a \in Addrs /\ \A u \in Threads \ {t} : ~Uses(u, job[t].a)
BY DEF PointerInv, JobInv, ApartInv, Uses, Using

LEMMA Unused ==
  ASSUME NEW a \in Addrs, ~InUse(a)
  PROVE  \A u \in Threads : ~Uses(u, a)
BY DEF InUse, Uses

LEMMA PointerOfInsert ==
  ASSUME TypeInv, PointerInv, NEW t \in Threads, insert_dir(t)
  PROVE  PointerInv'
<1> DEFINE x == job[t].a
<1>0. job[t].at = "insert_dir" /\ UNCHANGED <<routing, heap>>
  BY DEF insert_dir, At
<1>1. x \in Addrs /\ heap[x] = "vdir" /\ \A u \in Threads \ {t} : ~Uses(u, x)
  BY <1>0, Alone DEF Using, PointerInv, JobInv
<1>2. PICK a \in Addrs : a = x
  BY <1>1
<1>3. job[t].e \in 1..published /\ published \in 0..MaxEngines /\ MaxEngines \in Nat
  BY <1>0, PathAssumption DEF PointerInv, EngineInv, TypeInv, TypeOK
<1>4. /\ heap'[a] = "vdir" /\ held'[a] = "dir"
      /\ \A b \in Addrs \ {a} : heap'[b] = heap[b] /\ held'[b] = held[b]
  BY <1>0, <1>1, <1>2 DEF insert_dir, TypeInv, TypeOK
<1>5. dirs' = [dirs EXCEPT ![job[t].e] = @ \cup {a}]
  BY <1>2 DEF insert_dir
<1>6. /\ \A e \in Engines : e > published => dirs'[e] = {}
      /\ engine # 0 => dirs'[engine] \subseteq dirs[engine] \cup {a}
  BY <1>3, <1>5 DEF PointerInv, EngineInv, TypeInv, TypeOK, Engines
<1>7. /\ DOMAIN job' = Threads /\ job'[t] = Idle
      /\ \A u \in Threads \ {t} : job'[u] = job[u] /\ ~Uses(u, a)
  BY <1>1, <1>2 DEF insert_dir, Return, TypeInv, JobType
<1>8. job'[t].at \notin Using
  BY <1>7 DEF Idle, Using
<1> HIDE DEF x
<1>9. job[t].a = a /\ UNCHANGED routing
  BY <1>0, <1>2 DEF x
<1> QED
  BY <1>4, <1>6, <1>7, <1>8, <1>9, PointerLocal DEF Using

LEMMA PointerOfEntry ==
  ASSUME TypeInv, PointerInv, NEW t \in Threads, NextEntry(t)
  PROVE  PointerInv'
<1>1. /\ UNCHANGED <<routing, memory>> /\ job[t].at = "entry"
      /\ job'[t] = Idle /\ \A u \in Threads \ {t} : job'[u] = job[u]
  BY DEF NextEntry, At, Return, TypeInv, JobType
<1>2. Idle.at \notin Using
  BY DEF Idle, Using
<1> QED
  BY <1>1, <1>2, PointerFrame

LEMMA PointerOfReaddir ==
  ASSUME TypeInv, PointerInv, NEW t \in Threads, NEW a \in Addrs, readdir(t, a)
  PROVE  PointerInv'
<1>1. /\ UNCHANGED <<routing, memory>> /\ job[t] = Idle /\ held[a] = "dir" /\ ~InUse(a)
      /\ engine # 0 /\ a \in dirs[engine]
      /\ job' = [job EXCEPT ![t] = [Idle EXCEPT !.at = "entry", !.a = a]]
  BY DEF readdir, MayCall, contains_dir
<1>2. heap[a] = "vdir"
  BY <1>1 DEF PointerInv, RegistryInv
<1>3. job'[t].at = "entry" /\ job'[t].a = a
  BY <1>1 DEF Idle, TypeInv, JobType
<1>4. DOMAIN job' = Threads /\ \A u \in Threads \ {t} : job'[u] = job[u] /\ ~Uses(u, a)
  BY <1>1, Unused DEF TypeInv, JobType
<1>5. UNCHANGED <<heap, held, dirs, routing>>
  BY <1>1 DEF memory
<1>6. job[t].at \notin Using
  BY <1>1 DEF Idle, Using
<1>7. \A e \in Engines : e > published => dirs'[e] = {}
  BY <1>5 DEF PointerInv, EngineInv
<1> QED
  BY <1>1, <1>2, <1>3, <1>4, <1>5, <1>6, <1>7, PointerLocal DEF Using

LEMMA PointerOfClosedir ==
  ASSUME TypeInv, PointerInv, NEW t \in Threads, NEW a \in Addrs, closedir(t, a)
  PROVE  PointerInv'
<1>1. /\ UNCHANGED routing /\ job[t] = Idle /\ held[a] = "dir" /\ ~InUse(a)
      /\ held' = [held EXCEPT ![a] = "none"]
  BY DEF closedir, MayCall
<1>2. held'[a] = "none" /\ \A b \in Addrs \ {a} : held'[b] = held[b]
  BY <1>1 DEF TypeInv, TypeOK
<1>3. job[t].at \notin Using
  BY <1>1 DEF Idle, Using
<1>4. heap[a] \in {"vdir", "libc"}
  BY <1>1 DEF PointerInv, HeldInv
<1>5. \A u \in Threads : ~Uses(u, a)
  BY <1>1, Unused
<1>6. CASE /\ contains_dir(a)
           /\ dirs' = [dirs EXCEPT ![engine] = @ \ {a}]
           /\ job' = [job EXCEPT ![t] = [Idle EXCEPT !.at = "drop", !.a = a]]
           /\ UNCHANGED heap
  <2>1. engine # 0 /\ engine \in Engines /\ heap[a] = "vdir"
    BY <1>6, PathAssumption DEF contains_dir, PointerInv, RegistryInv, TypeInv, TypeOK, Engines
  <2>2. job'[t].at = "drop" /\ job'[t].a = a
    BY <1>6 DEF Idle, TypeInv, JobType
  <2>3. DOMAIN job' = Threads /\ \A u \in Threads \ {t} : job'[u] = job[u] /\ ~Uses(u, a)
    BY <1>5, <1>6 DEF TypeInv, JobType
  <2>4. /\ \A e \in Engines : e > published => dirs'[e] = {}
        /\ dirs'[engine] \subseteq dirs[engine] \cup {a} /\ a \notin dirs'[engine]
    BY <1>6, <2>1 DEF PointerInv, EngineInv, TypeInv, TypeOK
  <2> QED
    BY <1>1, <1>2, <1>3, <1>6, <2>1, <2>2, <2>3, <2>4, PointerLocal DEF Using
<1>7. CASE /\ ~contains_dir(a) /\ heap' \in {heap, [heap EXCEPT ![a] = "free"]}
           /\ UNCHANGED <<dirs, job>>
  <2>1. heap'[a] # "cookie" /\ \A b \in Addrs \ {a} : heap'[b] = heap[b]
    BY <1>4, <1>7 DEF TypeInv, TypeOK
  <2>2. \A e \in Engines : e > published => dirs'[e] = {}
    BY <1>7 DEF PointerInv, EngineInv
  <2>3. engine # 0 => a \notin dirs[engine]
    BY <1>7 DEF contains_dir
  <2>4. DOMAIN job' = Threads /\ \A u \in Threads \ {t} : job'[u] = job[u] /\ ~Uses(u, a)
    BY <1>5, <1>7 DEF TypeInv, JobType
  <2>5. job'[t].at \notin Using
    BY <1>3, <1>7
  <2> QED
    BY <1>1, <1>2, <1>3, <1>7, <2>1, <2>2, <2>3, <2>4, <2>5, PointerLocal DEF Using
<1> QED
  BY <1>6, <1>7 DEF closedir

LEMMA PointerOfDrop ==
  ASSUME TypeInv, PointerInv, NEW t \in Threads, DropBox(t)
  PROVE  PointerInv'
<1>0. job[t].at = "drop" /\ UNCHANGED <<routing, dirs, held>>
  BY DEF DropBox, At
<1>1. /\ job[t].a \in Addrs /\ held[job[t].a] = "none"
      /\ \A u \in Threads \ {t} : ~Uses(u, job[t].a)
  BY <1>0, Alone DEF Using, PointerInv, JobInv
<1>2. PICK a \in Addrs : a = job[t].a
  BY <1>1
<1>3. heap'[a] = "free" /\ \A b \in Addrs \ {a} : heap'[b] = heap[b]
  BY <1>2 DEF DropBox, TypeInv, TypeOK
<1>4. /\ held'[a] = "none" /\ \A b \in Addrs \ {a} : held'[b] = held[b]
  BY <1>0, <1>1, <1>2
<1>5. /\ \A e \in Engines : e > published => dirs'[e] = {}
      /\ engine # 0 => dirs'[engine] = dirs[engine] /\ a \notin dirs[engine]
  BY <1>0, <1>1, <1>2 DEF PointerInv, EngineInv, RegistryInv
<1>6. /\ DOMAIN job' = Threads /\ job'[t] = Idle
      /\ \A u \in Threads \ {t} : job'[u] = job[u] /\ ~Uses(u, a)
  BY <1>1, <1>2 DEF DropBox, Return, TypeInv, JobType
<1>7. job'[t].at \notin Using
  BY <1>6 DEF Idle, Using
<1> QED
  BY <1>0, <1>2, <1>3, <1>4, <1>5, <1>6, <1>7, PointerLocal DEF Using

LEMMA PointerOfCookie ==
  ASSUME TypeInv, PointerInv, NEW t \in Threads, fopen_virtual(t)
  PROVE  PointerInv'
<1>0. job[t].at = "fopencookie" /\ UNCHANGED <<routing, dirs>>
  BY DEF fopen_virtual, At
<1>1. /\ job[t].a \in Addrs /\ held[job[t].a] = "none" /\ heap[job[t].a] = "cookie"
      /\ \A u \in Threads \ {t} : ~Uses(u, job[t].a)
  BY <1>0, Alone DEF Using, PointerInv, JobInv
<1>2. PICK a \in Addrs : a = job[t].a
  BY <1>1
<1>3. /\ \/ heap'[a] = "cookie" /\ held'[a] = "file"
         \/ heap'[a] = "free" /\ held'[a] = "none"
      /\ \A b \in Addrs \ {a} : heap'[b] = heap[b] /\ held'[b] = held[b]
  BY <1>1, <1>2 DEF fopen_virtual, Reclaim, TypeInv, TypeOK
<1>4. /\ \A e \in Engines : e > published => dirs'[e] = {}
      /\ engine # 0 => dirs'[engine] = dirs[engine] /\ a \notin dirs[engine]
  BY <1>0, <1>1, <1>2 DEF PointerInv, EngineInv, RegistryInv
<1>5. /\ DOMAIN job' = Threads /\ job'[t] = Idle
      /\ \A u \in Threads \ {t} : job'[u] = job[u] /\ ~Uses(u, a)
  BY <1>1, <1>2 DEF fopen_virtual, Return, TypeInv, JobType
<1>6. job'[t].at \notin Using
  BY <1>5 DEF Idle, Using
<1> QED
  BY <1>0, <1>2, <1>3, <1>4, <1>5, <1>6, PointerLocal DEF Using

LEMMA PointerOfClose ==
  ASSUME TypeInv, PointerInv, NEW t \in Threads, NEW a \in Addrs, cookie_close_state(t, a)
  PROVE  PointerInv'
<1>1. /\ UNCHANGED <<routing, dirs, job>> /\ job[t] = Idle /\ held[a] = "file" /\ ~InUse(a)
  BY DEF cookie_close_state, MayCall
<1>2. /\ heap'[a] = "free" /\ held'[a] = "none"
      /\ \A b \in Addrs \ {a} : heap'[b] = heap[b] /\ held'[b] = held[b]
  BY DEF cookie_close_state, Reclaim, TypeInv, TypeOK
<1>3. /\ \A e \in Engines : e > published => dirs'[e] = {}
      /\ engine # 0 => dirs'[engine] = dirs[engine] /\ a \notin dirs[engine]
  BY <1>1 DEF PointerInv, EngineInv, RegistryInv
<1>4. DOMAIN job' = Threads /\ \A u \in Threads \ {t} : job'[u] = job[u] /\ ~Uses(u, a)
  BY <1>1, Unused DEF TypeInv, JobType
<1>5. job[t].at \notin Using /\ job'[t].at \notin Using
  BY <1>1 DEF Idle, Using
<1> QED
  BY <1>1, <1>2, <1>3, <1>4, <1>5, PointerLocal DEF Using

LEMMA PointerStep ==
  ASSUME TypeInv, PointerInv, [Next]_vars
  PROVE  PointerInv'
<1>1. CASE UNCHANGED <<routing, memory, job>>
  BY <1>1, PointerFrame
<1>2. CASE try_activate
  <2>1. /\ engine' = published + 1 /\ published' = published + 1
        /\ UNCHANGED <<dirs, heap, held, job>>
    BY <1>2 DEF try_activate, memory
  <2>2. published \in Nat /\ published' \in Engines /\ published' > published
    <3>1. Running.engines \in 0..MaxEngines /\ MaxEngines \in Nat /\ published \in 0..MaxEngines
      BY PathAssumption DEF TypeInv, TypeOK, LayersInv, Running
    <3> QED
      BY <1>2, <2>1, <3>1 DEF try_activate, Engines
  <2>3. EngineInv'
    BY <2>1, <2>2 DEF PointerInv, EngineInv, Engines
  <2>4. RegistryInv'
    BY <2>1, <2>2 DEF PointerInv, EngineInv, RegistryInv
  <2> QED
    BY <2>1, <2>3, <2>4 DEF PointerInv, JobInv, ApartInv, HeldInv, Uses, At
<1>3. CASE deactivate
  <2>1. engine' = 0 /\ UNCHANGED <<published, dirs, heap, held, job>>
    BY <1>3 DEF deactivate, memory
  <2>2. published \in Nat
    BY DEF TypeInv, TypeOK
  <2> QED
    BY <2>1, <2>2 DEF PointerInv, EngineInv, JobInv, ApartInv, HeldInv, RegistryInv, Uses, At
<1>4. ASSUME NEW t \in Threads, link(t) \/ rename(t) PROVE PointerInv'
  <2>1. /\ UNCHANGED <<routing, memory>> /\ job[t].at \in {"link", "rename"}
        /\ job'[t] = Idle /\ \A u \in Threads \ {t} : job'[u] = job[u]
    BY <1>4 DEF link, rename, At, Return, TypeInv, JobType
  <2>2. Idle.at \notin Using
    BY DEF Idle, Using
  <2> QED
    BY <2>1, <2>2, PointerFrame
<1>5. ASSUME NEW t \in Threads, NEW c \in {"rename", "link"}, NEW from, NEW to,
             MayCall(t, c), RouteFrom(t, c, from, to)
      PROVE  PointerInv'
  <2>1. /\ UNCHANGED <<routing, memory>> /\ job[t] = Idle
        /\ \A u \in Threads \ {t} : job'[u] = job[u]
    BY <1>5 DEF RouteFrom, MayCall, TypeInv, JobType
  <2>2. job'[t].at = c
    BY <1>5 DEF RouteFrom, Idle, TypeInv, JobType
  <2>3. Idle.at = "idle"
    BY DEF Idle
  <2> QED
    BY <2>1, <2>2, <2>3, PointerFrame DEF Using
<1>6. ASSUME NEW t \in Threads, StreamStep(t) PROVE PointerInv'
  BY <1>6, PointerOfInsert, PointerOfEntry, PointerOfReaddir, PointerOfClosedir, PointerOfDrop,
     PointerOfCookie, PointerOfClose DEF StreamStep
<1>7. ASSUME NEW t \in Threads, NEW s, opendir(t, s) PROVE PointerInv'
  BY <1>7, PointerOfOpendir
<1>8. ASSUME NEW t \in Threads, NEW s, NEW mode \in Modes, fopen(t, s, mode) PROVE PointerInv'
  BY <1>8, PointerOfFopen
<1>9. ASSUME NEW t \in Threads, NEW s, NEW c,
             Query(t, c, s) \/ chdir(t, s) \/ mkdir(t, s) \/ remove(t, s) \/ truncate(t, s)
      PROVE  UNCHANGED <<routing, memory, job>>
  BY <1>9 DEF Query, chdir, mkdir, remove, truncate, mutate_path
<1>10. CASE UNCHANGED vars
  BY <1>1, <1>10 DEF vars, routing, memory
<1> QED
  BY <1>1, <1>2, <1>3, <1>4, <1>5, <1>6, <1>7, <1>8, <1>9, <1>10 DEF Next, StreamStep

-----------------------------------------------------------------------------
(* The front of the overlay *)

(* With FrontTakesChanges, what was made is in the first layer. *)
SeenInv == \A k \in Keys : made[k] # "none" => Changing = 1 /\ layers[1][k] = made[k]

LEMMA FrontChanges ==
  ASSUME FrontTakesChanges, TypeInv, Changing # 0
  PROVE  Changing = 1 /\ 1 \in DOMAIN layers
<1>1. Changing \in Running.writable /\ \A l \in Running.writable : Changing <= l
  BY ChangingLayer
<1>2. DOMAIN layers = 1..Len(Running.layers) /\ Len(Running.layers) \in Nat
  BY PathAssumption DEF TypeInv, LayersInv, Running
<1>3. 1 \in Running.writable
  BY <1>1 DEF FrontTakesChanges, TypeInv, LayersInv, Running
<1>4. Changing \in DOMAIN layers
  BY ChangingLayer
<1> QED
  BY <1>1, <1>2, <1>3, <1>4

LEMMA SeenKept ==
  ASSUME SeenInv, UNCHANGED <<program, volume>>
  PROVE  SeenInv'
<1>1. Changing' = Changing
  BY DEF Changing, Running
<1> QED
  BY <1>1 DEF SeenInv, volume

LEMMA SeenWrites ==
  ASSUME FrontTakesChanges, TypeInv, SeenInv, UNCHANGED program,
         NEW k, NEW after, NEW kind, Writes(k, after, kind)
  PROVE  SeenInv'
<1>1. Changing' = Changing
  BY DEF Changing, Running
<1>2. Changing = 1 /\ 1 \in DOMAIN layers
  BY FrontChanges DEF Writes
<1>3. layers'[1] = after /\ made' = [made EXCEPT ![k] = kind] /\ k \in Keys /\ made \in Layered
  BY <1>2 DEF Writes, TypeInv, TypeOK, Layered
<1>4. /\ after[k] = kind
      /\ \A x \in Keys \ {k} : layers[1][x] # "none" => after[x] = layers[1][x]
  BY <1>2 DEF Writes, Fits
<1> QED
  BY <1>1, <1>2, <1>3, <1>4 DEF SeenInv, Layered

LEMMA SeenOfRename ==
  ASSUME FrontTakesChanges, TypeInv, SeenInv, NEW t \in Threads, rename(t)
  PROVE  SeenInv'
<1> DEFINE from == job[t].path
           to == key(job[t].to)
<1>0. UNCHANGED program /\ Changing' = Changing
  BY DEF rename, routing, Changing, Running
<1>1. CASE UNCHANGED volume
  BY <1>0, <1>1, SeenKept
<1>2. CASE /\ Changing # 0 /\ {from, to} \subseteq Keys
           /\ Overlay!MayRename(layers[Changing], RootKey, from, to)
           /\ layers' = [layers EXCEPT ![Changing] = Overlay!rename(@, from, to)]
           /\ made' = [made EXCEPT ![to] = layers[Changing][from], ![from] = "none"]
  <2>1. Changing = 1 /\ 1 \in DOMAIN layers
    BY <1>2, FrontChanges
  <2>2. layers[1] \in Layered /\ made \in Layered
    BY <2>1 DEF TypeInv, TypeOK, Layered
  <2>3. from \in Keys /\ to \in Keys /\ from # to
    BY <1>2 DEF Overlay!MayRename
  <2>4. layers'[1] = [layers[1] EXCEPT ![to] = layers[1][from], ![from] = "none"]
    BY <1>2, <2>1 DEF Overlay!rename
  <2>5. made' = [made EXCEPT ![to] = layers[1][from], ![from] = "none"]
    BY <1>2, <2>1
  <2> HIDE DEF from, to
  <2> QED
    BY <1>0, <2>1, <2>2, <2>3, <2>4, <2>5 DEF SeenInv, Layered
<1> QED
  BY <1>1, <1>2 DEF rename

LEMMA SeenStep ==
  ASSUME FrontTakesChanges, TypeInv, SeenInv, [Next]_vars
  PROVE  SeenInv'
<1>1. CASE UNCHANGED <<program, volume>>
  BY <1>1, SeenKept
<1>2. ASSUME NEW t \in Threads, rename(t) PROVE SeenInv'
  BY <1>2, SeenOfRename
<1>3. ASSUME NEW t \in Threads, NEW s, mkdir(t, s) \/ remove(t, s) \/ truncate(t, s)
      PROVE  SeenInv'
  <2>1. PICK after, kind : Mutates(s, after, kind)
    BY <1>3, MkdirEffect, RemoveEffect, TruncateEffect
  <2> QED
    BY <2>1, SeenKept, SeenWrites DEF Mutates, routing
<1>4. ASSUME NEW t \in Threads, NEW s, NEW mode \in Modes, fopen(t, s, mode) PROVE SeenInv'
  BY <1>4, FopenEffect, SeenKept, SeenWrites DEF routing
<1>5. ASSUME try_activate \/ deactivate PROVE UNCHANGED <<program, volume>>
  BY <1>5 DEF try_activate, deactivate
<1>6. ASSUME NEW t \in Threads, link(t) \/ StreamStep(t) PROVE UNCHANGED <<program, volume>>
  BY <1>6 DEF link, StreamStep, insert_dir, NextEntry, DropBox, fopen_virtual, readdir,
     closedir, cookie_close_state, routing
<1>7. ASSUME NEW t \in Threads, NEW s, NEW c, Query(t, c, s) \/ chdir(t, s) \/ opendir(t, s)
      PROVE  UNCHANGED <<program, volume>>
  BY <1>7 DEF Query, chdir, opendir, routing
<1>8. ASSUME NEW t \in Threads, NEW c, NEW from, NEW to, RouteFrom(t, c, from, to)
      PROVE  UNCHANGED <<program, volume>>
  BY <1>8 DEF RouteFrom, routing
<1>9. CASE UNCHANGED vars
  BY <1>1, <1>9 DEF vars, volume
<1> QED
  BY <1>1, <1>2, <1>3, <1>4, <1>5, <1>6, <1>7, <1>8, <1>9 DEF Next, StreamStep

LEMMA SeenIsSeen ==
  ASSUME FrontTakesChanges, TypeInv, SeenInv
  PROVE  SeesItsChanges
<1>1. ASSUME NEW k \in Keys, made[k] # "none"
      PROVE  Overlay!metadata(layers, k) = made[k]
  <2> DEFINE S == {l \in DOMAIN layers : Overlay!KindOf(layers[l], k) # "none"}
  <2>1. Changing = 1 /\ layers[1][k] = made[k]
    BY <1>1 DEF SeenInv
  <2>2. 1 \in DOMAIN layers
    BY <2>1, FrontChanges
  <2>3. Overlay!KindOf(layers[1], k) = made[k]
    BY <2>1 DEF Overlay!KindOf
  <2>4. 1 \in S /\ \A l \in S : l \in Nat /\ 1 <= l
    <3>1. DOMAIN layers = 1..Len(Running.layers) /\ Len(Running.layers) \in Nat
      BY PathAssumption DEF TypeInv, LayersInv, Running
    <3> QED
      BY <1>1, <2>2, <2>3, <3>1
  <2>5. Overlay!Min(S) = 1
    <3> HIDE DEF S
    <3>1. Overlay!Min(S) \in S /\ \A l \in S : Overlay!Min(S) <= l
      BY <2>4 DEF Overlay!Min
    <3> QED
      BY <2>4, <3>1
  <2>6. Overlay!FirstOf(S) = 1
    BY <2>4, <2>5 DEF Overlay!FirstOf
  <2> QED
    BY <2>3, <2>6 DEF Overlay!metadata
<1>2. ~Running.allow => layers = Running.layers
  BY DEF TypeInv, LayersInv
<1> QED
  BY <1>1, <1>2 DEF SeesItsChanges

-----------------------------------------------------------------------------
(* The theorems *)

(* The inductive invariant: the types and routes of every call, and what   *)
(* each address of the heap is, to whom.                                   *)
THEOREM Invariant == Spec => [](TypeInv /\ PointerInv)
<1>1. Init => TypeInv /\ PointerInv
  BY TypeInit, PointerInit
<1>2. TypeInv /\ PointerInv /\ [Next]_vars => (TypeInv /\ PointerInv)'
  BY TypeStep, PointerStep DEF PointerInv
<1> QED
  BY <1>1, <1>2, PTL DEF Spec

(* Every variable keeps its type, whatever paths, layers and threads there are. *)
THEOREM TypeCorrect == Spec => []TypeOK
<1>1. TypeInv => TypeOK
  BY DEF TypeInv
<1> QED
  BY <1>1, Invariant, PTL

(* No POSIX shim of PathShims hands a path of the namespace to the kernel: *)
(* not stat_path and its kind, nor the calls of two paths, whatever engine *)
(* and working directory each of their paths meets.  (Three Windows shims  *)
(* do: WinHandles, NeverTouchDisk.)                                        *)
THEOREM NothingLeaks == Spec => [](reached \subseteq {"real"})
<1>1. TypeInv => reached \subseteq {"real"}
  BY DEF TypeInv, KernelInv
<1> QED
  BY <1>1, Invariant, PTL

(* An address in the live registry, one being read and one being dropped   *)
(* is a virtual directory, and a cookie lives exactly as long as its FILE, *)
(* however the allocator reuses addresses and installations are replaced.  *)
THEOREM PointersHold == Spec => []PointersAreExact
<1>1. TypeInv /\ PointerInv => PointersAreExact
  <2> SUFFICES ASSUME TypeInv, PointerInv PROVE PointersAreExact
    OBVIOUS
  <2>1. engine # 0 => \A a \in dirs[engine] : heap[a] = "vdir"
    BY DEF PointerInv, RegistryInv
  <2>2. \A t \in Threads : job[t].at \in {"entry", "drop"} => heap[job[t].a] = "vdir"
    BY DEF PointerInv, JobInv
  <2>3. ASSUME NEW a \in Addrs
        PROVE  (heap[a] = "cookie") <=> (held[a] = "file" \/
                 \E t \in Threads : At(t, "fopencookie") /\ job[t].a = a)
    BY DEF PointerInv, HeldInv, JobInv, At
  <2> QED
    BY <2>1, <2>2, <2>3 DEF PointersAreExact
<1> QED
  BY <1>1, Invariant, PTL

(* If the first layer of an overlay takes changes whenever one does, what  *)
(* the program made of a name is what it sees there, whatever the other    *)
(* layers have; and nothing changes where writes are not allowed.          *)
THEOREM ChangesAreSeen == ASSUME FrontTakesChanges PROVE Spec => []SeesItsChanges
<1>1. Init => SeenInv
  BY DEF Init, SeenInv
<1>2. TypeInv /\ SeenInv /\ [Next]_vars => SeenInv'
  BY SeenStep
<1>3. TypeInv /\ SeenInv => SeesItsChanges
  BY SeenIsSeen
<1> QED
  BY <1>1, <1>2, <1>3, Invariant, PTL DEF Spec
=============================================================================
