-------------------------- MODULE WinHandlesProofs --------------------------
(***************************************************************************)
(* The Win32 shims, for any number of threads, handles, names, open files, *)
(* searches and installations: an entry of the live registry is backed by  *)
(* its carrier, and the calls on files and searches implement Win32Files.  *)
(***************************************************************************)
EXTENDS WinHandles, TLAPS, FiniteSetTheorems, SequenceTheorems

(* What a call j has got hold of at each step, when p engines, o open      *)
(* files and f searches have appeared.                                     *)
StageOf(j, p, o, f) ==
  /\ j.at \in {"vfs", "truncate"} => j.op = "open" /\ j.path \in Names
  /\ j.at = "truncate" => j.o \in Nodes
  /\ j.at \in {"vfs", "truncate", "carrier", "insert", "list", "exact"}
       => j.e \in 1..p /\ j.op \in {"open", "find"}
  /\ j.at \in {"carrier", "insert"} => j.o \in IF j.op = "open" THEN 1..o ELSE 1..f
  /\ j.at \in {"insert", "close"} => j.h \in Handles
  /\ j.at \in {"lock", "transfer", "set_len"} =>
       /\ j.o \in 1..o
       /\ j.op \in {"read", "write", "seek", "seek_halves", "query", "end"}
       /\ j.op \in {"read", "write"} => j.method \in {0, 1}
  /\ j.at \in {"list", "exact"} => j.op = "find" /\ j.path \in Names \cup {Star}
  /\ j.at = "next" => j.o \in 1..f

StageInv == \A t \in Threads : StageOf(job[t], published, opened, found)

(* Engines, open files and searches are numbered as they appear, and what  *)
(* has not appeared is blank.                                              *)
StoreInv ==
  /\ engine <= published
  /\ \A e \in Engines, h \in Handles :
       /\ files[e][h] <= opened /\ finds[e][h] <= found
       /\ e > published => files[e][h] = 0 /\ finds[e][h] = 0
  /\ \A o \in Opens : IF o <= opened THEN open[o].node \in Nodes ELSE open[o] = NoOpen
  /\ \A f \in Finds : f > found => find[f] = NoFind /\ given[f] = <<>>

(* Between the carrier and insert_file or insert_find, and between the     *)
(* removal of an entry and the original close, the handle is the caller's. *)
Owner(t) == job[t].at \in {"insert", "close"}

OwnerInv ==
  /\ \A t \in Threads : Owner(t) => held[job[t].h] = "none" /\ table[job[t].h] # "free"
  /\ \A t \in Threads : job[t].at = "insert" =>
       table[job[t].h] = IF job[t].op = "open" THEN "nul" ELSE "search"
  /\ \A t, u \in Threads : Owner(t) /\ Owner(u) /\ job[t].h = job[u].h => t = u
  /\ \A h \in Handles : held[h] # "none" => table[h] # "free"

(* An entry of the live registry is a handle the program holds. *)
EntryInv ==
  engine # 0 => \A h \in Handles :
    /\ files[engine][h] # 0 => table[h] = "nul" /\ held[h] = "file"
    /\ finds[engine][h] # 0 => table[h] = "search" /\ held[h] = "search"

(* The lock of an OpenFile is held by the call that transfers or cuts, and *)
(* the pointer is then where that call put it.                             *)
Locked(t) == job[t].at \in {"transfer", "set_len"}

LockInv ==
  /\ \A t \in Threads : Locked(t) => holder[job[t].o] = t
  /\ \A o \in Opens : holder[o] # NoThread => Locked(holder[o]) /\ job[holder[o]].o = o
  /\ \A t \in Threads : job[t].at = "transfer" =>
       /\ job[t].op \in {"read", "write"}
       /\ open[job[t].o].pos = job[t].off + IF job[t].method = 0 THEN 0 ELSE job[t].was
  /\ \A t \in Threads : job[t].at = "set_len" =>
       job[t].op = "end" /\ open[job[t].o].pos = job[t].was

(* A search that is not registered yet is its creator's. *)
Pending(t) == job[t].at \in {"carrier", "insert"} /\ job[t].op = "find"

SearchInv ==
  /\ \A t \in Threads : Pending(t) =>
       /\ find[job[t].o].entries # <<>> /\ find[job[t].o].next = 0
       /\ \A e \in Engines, h \in Handles : finds[e][h] # job[t].o
       /\ \A u \in Threads : u # t /\ (Pending(u) \/ job[u].at = "next") => job[u].o # job[t].o

-----------------------------------------------------------------------------
(* Types *)

(* The fields a job may be given. *)
LEMMA IdleType == Idle \in Job /\ Idle.at = "idle" /\ Idle.op = "none"
BY WinAssumption DEF Idle, Job, Positions, Paths

LEMMA ProgramFacts ==
  ASSUME TypeOK
  PROVE  /\ program.paths \subseteq Paths /\ program.engines \in 0..MaxEngines
         /\ MaxNodes \in Nat /\ MaxOpens \in Nat /\ MaxFinds \in Nat /\ MaxEngines \in Nat
         /\ Limit \in Nat
<1>1. IsProgram(program)
  BY WinAssumption DEF TypeOK
<1>. QED
  BY <1>1, WinAssumption DEF IsProgram, Paths

(* Only the call of t moves, and its job becomes k. *)
Moves(t, k) ==
  /\ k \in Job /\ job' \in [Threads -> Job] /\ job'[t] = k
  /\ \A u \in Threads : u # t => job'[u] = job[u]

LEMMA MovesTo ==
  ASSUME TypeOK, NEW t \in Threads, NEW k \in Job, job' = [job EXCEPT ![t] = k]
  PROVE  Moves(t, k)
BY DEF Moves, TypeOK

LEMMA MovesIdle ==
  ASSUME TypeOK, NEW t \in Threads, Return(t)
  PROVE  Moves(t, Idle)
BY MovesTo, IdleType DEF Return

(* A call goes on with at most one more thing in its hands. *)
Keeps(k, j) ==
  /\ k.op = j.op /\ k.e = j.e /\ k.path = j.path /\ k.opts = j.opts /\ k.method = j.method
  /\ k.off = j.off /\ k.n = j.n

(* Registry::insert_* and remove_*: one entry changes. *)
LEMMA EntrySet ==
  ASSUME NEW S, NEW reg \in [Engines -> [Handles -> S]], NEW e \in Engines, NEW h \in Handles,
         NEW v \in S
  PROVE  LET new == [reg EXCEPT ![e][h] = v]
         IN  /\ new \in [Engines -> [Handles -> S]]
             /\ \A d \in Engines, g \in Handles :
                  new[d][g] = IF d = e /\ g = h THEN v ELSE reg[d][g]
<1> DEFINE row == [reg[e] EXCEPT ![h] = v]
<1>1. row \in [Handles -> S] /\ \A g \in Handles : row[g] = IF g = h THEN v ELSE reg[e][g]
  OBVIOUS
<1>2. [reg EXCEPT ![e][h] = v] = [reg EXCEPT ![e] = row]
  OBVIOUS
<1>. QED
  BY <1>1, <1>2

-----------------------------------------------------------------------------
(* Listings *)

(* The entries that match, each once: the order is any. *)
Matching(p) == {a \in Names : names[a] # 0 /\ (p = Star \/ a = p)}

LEMMA MatchesFacts ==
  ASSUME NEW p
  PROVE  /\ Matches(p) \in Seq(Names)
         /\ {Matches(p)[i] : i \in DOMAIN Matches(p)} = Matching(p)
         /\ \A i, j \in DOMAIN Matches(p) : Matches(p)[i] = Matches(p)[j] => i = j
         /\ Matching(p) # {} <=> Matches(p) # <<>>
<1> DEFINE S == Matching(p)
           n == Cardinality(S)
           s == Matches(p)
<1>1. IsFiniteSet(S) /\ n \in Nat
  <2>1. S \in SUBSET Names
    BY DEF Matching
  <2>. QED
    BY <2>1, WinAssumption, FS_Subset, FS_CardinalityType
<1>2. s = CHOOSE f \in [1..n -> S] : IsInjective(f)
  BY DEF Matches, SetToSeq, Matching
<1>3. PICK g \in [1..n -> S] : IsInjective(g)
  <2>1. ExistsBijection(1..n, S)
    BY <1>1, FS_CardinalityType
  <2>. QED
    BY <2>1 DEF ExistsBijection, Bijection, Injection
<1>4. s \in [1..n -> S] /\ IsInjective(s)
  BY <1>2, <1>3
<1>5. s \in Injection(1..n, S)
  BY <1>4 DEF Injection
<1>6. s \in Surjection(1..n, S)
  <2>1. IsFiniteSet(1..n) /\ Cardinality(1..n) = n
    BY <1>1, FS_Interval
  <2>. QED
    BY <1>1, <1>5, <2>1, FS_Injection
<1>7. \A x \in S : \E i \in 1..n : s[i] = x
  BY <1>6 DEF Surjection
<1>8. s \in Seq(S) /\ Len(s) = n /\ DOMAIN s = 1..n
  BY <1>1, <1>4
<1>9. s \in Seq(Names)
  BY <1>8, SeqMonotonic DEF Matching
<1>10. {s[i] : i \in DOMAIN s} = S
  BY <1>4, <1>7, <1>8
<1>11. \A i, j \in DOMAIN s : s[i] = s[j] => i = j
  BY <1>4 DEF IsInjective
<1>12. S # {} <=> s # <<>>
  <2>1. n = 0 <=> S = {}
    BY <1>1, FS_EmptySet
  <2>. QED
    BY <1>8, <1>1, <2>1, EmptySeq
<1> HIDE DEF s, S
<1>. QED
  BY <1>9, <1>10, <1>11, <1>12 DEF s, S

-----------------------------------------------------------------------------
(* Each step keeps the types and what the calls know *)

KernelType ==
  /\ engine \in 0..MaxEngines /\ published \in 0..MaxEngines
  /\ files \in [Engines -> [Handles -> 0..MaxOpens]]
  /\ finds \in [Engines -> [Handles -> 0..MaxFinds]]
  /\ table \in [Handles -> Kinds] /\ held \in [Handles -> Holdings]
  /\ program \in Programs /\ reached \subseteq (Paths \X PathCalls)

VolumeType ==
  /\ names \in [Names -> 0..MaxNodes] /\ dirs \subseteq Nodes
  /\ size \in [Nodes -> Positions] /\ nodes \in 0..MaxNodes

ObjectType ==
  /\ open \in [Opens -> [node : 0..MaxNodes, pos : Positions,
                         writable : BOOLEAN, overlapped : BOOLEAN]]
  /\ opened \in 0..MaxOpens
  /\ holder \in [Opens -> Threads \cup {NoThread}]

SearchType ==
  /\ found \in 0..MaxFinds
  /\ find \in [Finds -> [entries : Seq(Names), next : Nat]]
  /\ given \in [Finds -> Seq(Names)]

LEMMA TypeParts ==
  /\ TypeOK <=> /\ KernelType /\ VolumeType /\ ObjectType /\ SearchType
                /\ job \in [Threads -> Job]
  /\ TypeOK' <=> /\ KernelType' /\ VolumeType' /\ ObjectType' /\ SearchType'
                 /\ (job \in [Threads -> Job])'
BY DEF TypeOK, KernelType, VolumeType, ObjectType, SearchType

(* What is left alone keeps its type. *)
LEMMA TypeKept ==
  ASSUME TypeOK
  PROVE  /\ UNCHANGED <<routing, registry, kernel, reached>> => KernelType'
         /\ UNCHANGED volume => VolumeType'
         /\ UNCHANGED objects => ObjectType'
         /\ UNCHANGED searches => SearchType'
         /\ \A t, k : Moves(t, k) => (job \in [Threads -> Job])'
         /\ UNCHANGED job => (job \in [Threads -> Job])'
BY TypeParts DEF KernelType, VolumeType, ObjectType, SearchType, routing, registry, kernel,
                 volume, objects, searches, Moves

(* A path that route calls real is none under the prefix of an engine. *)
LEMMA RouteFacts ==
  ASSUME NEW p
  PROVE  /\ route(p) = "real" => engine = 0 \/ p = Disk
         /\ route(p) = "virtual" => engine # 0 /\ p # Disk /\ p # Rejected
BY DEF route

LEMMA OpenedFile ==
  ASSUME TypeOK, StageInv, NEW t \in Threads, job[t].at \in {"lock", "transfer", "set_len"}
  PROVE  job[t].o \in Opens /\ job[t].o <= opened /\ open[job[t].o].pos \in Positions
         /\ job[t].off \in Int /\ job[t].n \in {0, 1} /\ job[t].was \in Positions
<1>1. job[t] \in Job /\ StageOf(job[t], published, opened, found) /\ opened \in 0..MaxOpens
  BY DEF TypeOK, StageInv
<1>2. job[t].o \in Opens /\ job[t].o <= opened
  BY <1>1, ProgramFacts DEF StageOf, Opens
<1>3. job[t].off \in Int /\ job[t].n \in {0, 1} /\ job[t].was \in Positions
  BY <1>1 DEF Job
<1>. QED
  BY <1>2, <1>3 DEF TypeOK

(* One field of one OpenFile changes. *)
LEMMA PointerMoved ==
  ASSUME TypeOK, NEW o \in Opens, NEW p \in Positions
  PROVE  LET new == [open EXCEPT ![o].pos = p]
         IN  /\ new \in [Opens -> [node : 0..MaxNodes, pos : Positions,
                                   writable : BOOLEAN, overlapped : BOOLEAN]]
             /\ new[o].pos = p
             /\ \A x \in Opens : new[x].node = open[x].node
             /\ \A x \in Opens : x # o => new[x] = open[x]
<1> DEFINE R == [node : 0..MaxNodes, pos : Positions, writable : BOOLEAN, overlapped : BOOLEAN]
           rec == [open[o] EXCEPT !.pos = p]
<1>1. open \in [Opens -> R] /\ open[o] \in R
  BY DEF TypeOK
<1>2. rec \in R /\ rec.pos = p /\ rec.node = open[o].node
  BY <1>1
<1>3. [open EXCEPT ![o].pos = p] = [open EXCEPT ![o] = rec]
  BY <1>1
<1> HIDE DEF R, rec
<1>4. /\ [open EXCEPT ![o] = rec] \in [Opens -> R]
      /\ [open EXCEPT ![o] = rec][o] = rec
      /\ \A x \in Opens : x # o => [open EXCEPT ![o] = rec][x] = open[x]
  BY <1>1, <1>2
<1>. QED
  BY <1>2, <1>3, <1>4 DEF R

-----------------------------------------------------------------------------
(* What each step does to the job of its caller *)

LEMMA CreateEffect ==
  ASSUME TypeOK, NEW t \in Threads, NEW p \in program.paths, NEW access, NEW disposition,
         NEW overlapped, CreateFileW(t, p, access, disposition, overlapped)
  PROVE  /\ UNCHANGED <<routing, registry, volume, objects, searches>> /\ job[t] = Idle
         /\ \/ UNCHANGED job /\ KernelOpen("real", "file") /\ Reaches(p, "CreateFile")
            \/ /\ UNCHANGED <<kernel, reached>> /\ engine # 0 /\ p \in Names
               /\ \E k : Moves(t, k) /\ k.at = "vfs" /\ k.op = "open" /\ k.e = engine /\ k.path = p
<1>1. UNCHANGED <<routing, registry, volume, objects, searches>> /\ job[t] = Idle
  BY DEF CreateFileW, MayCall
<1>2. CASE UNCHANGED job /\ KernelOpen("real", "file") /\ Reaches(p, "CreateFile")
  BY <1>1, <1>2
<1>3. CASE /\ route(p) = "virtual"
           /\ BeginOpen(t, p, open_options(access, disposition), overlapped)
  <2>1. engine \in 0..MaxEngines /\ p \in Paths /\ engine # 0 /\ p \in Names
    BY <1>3, RouteFacts, ProgramFacts DEF TypeOK, Paths
  <2>2. open_options(access, disposition) \in SUBSET Options
    BY DEF open_options
  <2> DEFINE opts == open_options(access, disposition)
             n == IF overlapped THEN 1 ELSE 0
  <2>3. n \in {0, 1}
    OBVIOUS
  <2>4. /\ job' = [job EXCEPT ![t] = [Idle EXCEPT !.at = "vfs", !.op = "open", !.e = engine,
                                                  !.path = p, !.opts = opts, !.n = n]]
        /\ UNCHANGED <<kernel, reached>>
    BY <1>3 DEF BeginOpen
  <2> HIDE DEF opts, n
  <2> DEFINE k == [Idle EXCEPT !.at = "vfs", !.op = "open", !.e = engine, !.path = p,
                               !.opts = opts, !.n = n]
  <2>5. k \in Job /\ k.at = "vfs" /\ k.op = "open" /\ k.e = engine /\ k.path = p
    BY <2>1, <2>2, <2>3, IdleType DEF Job, opts
  <2>6. job' = [job EXCEPT ![t] = k]
    BY <2>4
  <2> HIDE DEF k
  <2>7. Moves(t, k)
    BY <2>5, <2>6, MovesTo
  <2>. QED
    BY <1>1, <2>1, <2>4, <2>5, <2>7
<1>. QED
  BY <1>2, <1>3 DEF CreateFileW

LEMMA OpenEffect ==
  ASSUME TypeOK, StageInv, NEW t \in Threads, OpenStream(t)
  PROVE  /\ UNCHANGED <<routing, registry, kernel, objects, searches, reached, dirs, size>>
         /\ job[t].at = "vfs" /\ job[t].path \in Names
         /\ \/ Moves(t, Idle) /\ UNCHANGED <<names, nodes>>
            \/ \E k : /\ Moves(t, k) /\ Keeps(k, job[t]) /\ k.at = "truncate"
                      /\ k.o \in Nodes
                      /\ \/ UNCHANGED <<names, nodes>>
                         \/ /\ nodes < MaxNodes /\ nodes' = nodes + 1
                            /\ names' = [names EXCEPT ![job[t].path] = nodes + 1]
<1> DEFINE p == job[t].path
<1>1. /\ UNCHANGED <<routing, registry, kernel, objects, searches, reached>>
      /\ job[t].at = "vfs" /\ p \in Names
  BY DEF OpenStream, At, StageInv, StageOf
<1>n. MaxNodes \in Nat /\ nodes \in 0..MaxNodes /\ names \in [Names -> 0..MaxNodes]
  BY WinAssumption DEF TypeOK
<1>2. CASE Return(t) /\ UNCHANGED volume
  BY <1>1, <1>2, MovesIdle DEF volume
<1>3. CASE ~(Return(t) /\ UNCHANGED volume)
  <2>1. /\ IF names[p] = 0 THEN names' = [names EXCEPT ![p] = nodes + 1] /\ nodes' = nodes + 1
           ELSE UNCHANGED <<names, nodes>>
        /\ names[p] = 0 => nodes # MaxNodes
        /\ UNCHANGED <<dirs, size>>
        /\ job' = [job EXCEPT ![t].at = "truncate", ![t].o = names'[p]]
    BY <1>3 DEF OpenStream
  <2>2. names'[p] \in Nodes /\ names'[p] \in Nat
    BY <1>1, <1>n, <2>1 DEF Nodes
  <2>3. /\ \/ UNCHANGED <<names, nodes>>
           \/ /\ nodes < MaxNodes /\ nodes' = nodes + 1
              /\ names' = [names EXCEPT ![p] = nodes + 1]
    BY <1>n, <2>1
  <2> DEFINE k == [job[t] EXCEPT !.at = "truncate", !.o = names'[p]]
  <2>4. k \in Job /\ Keeps(k, job[t]) /\ k.at = "truncate" /\ k.o = names'[p]
    <3>1. job[t] \in Job
      BY DEF TypeOK
    <3>2. k \in Job
      BY <2>2, <3>1 DEF Job
    <3>. QED
      BY <3>1, <3>2 DEF Job, Keeps
  <2>5. job' = [job EXCEPT ![t] = k]
    BY <2>1 DEF TypeOK
  <2> HIDE DEF k
  <2>6. Moves(t, k)
    BY <2>4, <2>5, MovesTo
  <2>. QED
    BY <1>1, <2>1, <2>2, <2>3, <2>4, <2>6
<1>. QED
  BY <1>2, <1>3

LEMMA TruncateEffect ==
  ASSUME TypeOK, StageInv, NEW t \in Threads, TruncateNode(t)
  PROVE  /\ UNCHANGED <<routing, registry, kernel, names, dirs, nodes, holder, searches, reached>>
         /\ job[t].at = "truncate" /\ opened' = opened + 1 /\ opened + 1 \in Opens
         /\ job[t].o \in Nodes
         /\ size' \in {size, [size EXCEPT ![job[t].o] = 0]}
         /\ \E r \in [node : 0..MaxNodes, pos : Positions, writable : BOOLEAN, overlapped : BOOLEAN] :
              /\ r.node = job[t].o /\ r.pos \in {0, size'[job[t].o]}
              /\ open' = [open EXCEPT ![opened + 1] = r]
         /\ \E k : /\ Moves(t, k) /\ Keeps(k, job[t]) /\ k.at = "carrier" /\ k.o = opened + 1
<1> DEFINE x == job[t].o
           r == [node |-> x, writable |-> "write" \in job[t].opts, overlapped |-> job[t].n = 1,
                 pos |-> IF "append" \in job[t].opts THEN size'[x] ELSE 0]
<1>n. MaxNodes \in Nat /\ MaxOpens \in Nat /\ Limit \in Nat /\ opened \in 0..MaxOpens
  BY WinAssumption DEF TypeOK
<1>1. /\ UNCHANGED <<routing, registry, kernel, names, dirs, nodes, holder, searches, reached>>
      /\ job[t].at = "truncate" /\ opened' = opened + 1 /\ opened < MaxOpens
      /\ open' = [open EXCEPT ![opened + 1] = r]
      /\ job' = [job EXCEPT ![t].at = "carrier", ![t].o = opened + 1]
  BY DEF TruncateNode, At
<1>2. x \in Nodes
  BY <1>1 DEF StageInv, StageOf
<1>3. size' \in {size, [size EXCEPT ![x] = 0]}
  BY DEF TruncateNode
<1>4. size'[x] \in Positions /\ 0 \in Positions
  BY <1>2, <1>3, <1>n DEF TypeOK, Positions
<1>5. r \in [node : 0..MaxNodes, pos : Positions, writable : BOOLEAN, overlapped : BOOLEAN]
  BY <1>2, <1>4, <1>n DEF Nodes
<1>6. r.node = x /\ r.pos \in {0, size'[x]}
  OBVIOUS
<1>7. opened + 1 \in Opens /\ opened + 1 \in Nat
  BY <1>1, <1>n DEF Opens
<1> DEFINE k == [job[t] EXCEPT !.at = "carrier", !.o = opened + 1]
<1>8. k \in Job /\ Keeps(k, job[t]) /\ k.at = "carrier" /\ k.o = opened + 1
  <2>1. job[t] \in Job
    BY DEF TypeOK
  <2>2. k \in Job
    BY <1>7, <2>1 DEF Job
  <2>. QED
    BY <2>1, <2>2 DEF Job, Keeps
<1>9. job' = [job EXCEPT ![t] = k]
  BY <1>1 DEF TypeOK
<1> HIDE DEF r, k
<1>10. Moves(t, k)
  BY <1>8, <1>9, MovesTo
<1>. QED
  BY <1>1, <1>2, <1>3, <1>5, <1>6, <1>7, <1>8, <1>10

LEMMA CarrierEffect ==
  ASSUME TypeOK, NEW t \in Threads, carrier_open(t) \/ carrier_find(t)
  PROVE  /\ UNCHANGED <<routing, registry, held, volume, objects, searches, reached>>
         /\ job[t].at = "carrier" /\ job[t].op \in {"open", "find"}
         /\ \/ Moves(t, Idle) /\ UNCHANGED table
            \/ \E h \in Handles : \E k :
                 /\ table[h] = "free"
                 /\ table' = [table EXCEPT ![h] = IF job[t].op = "open" THEN "nul" ELSE "search"]
                 /\ Moves(t, k) /\ Keeps(k, job[t]) /\ k.at = "insert" /\ k.h = h /\ k.o = job[t].o
<1>1. /\ UNCHANGED <<routing, registry, held, volume, objects, searches, reached>>
      /\ job[t].at = "carrier" /\ job[t].op \in {"open", "find"}
  BY DEF carrier_open, carrier_find, At, kernel
<1>2. \/ Return(t) /\ UNCHANGED table
      \/ \E h \in Handles :
           /\ table[h] = "free" /\ job' = [job EXCEPT ![t].at = "insert", ![t].h = h]
           /\ table' = [table EXCEPT ![h] = IF job[t].op = "open" THEN "nul" ELSE "search"]
  BY DEF carrier_open, carrier_find, kernel
<1>3. CASE Return(t) /\ UNCHANGED table
  BY <1>1, <1>3, MovesIdle
<1>4. ASSUME NEW h \in Handles, table[h] = "free",
             job' = [job EXCEPT ![t].at = "insert", ![t].h = h],
             table' = [table EXCEPT ![h] = IF job[t].op = "open" THEN "nul" ELSE "search"]
      PROVE  \E k : /\ Moves(t, k) /\ Keeps(k, job[t]) /\ k.at = "insert" /\ k.h = h
                    /\ k.o = job[t].o
  <2> DEFINE k == [job[t] EXCEPT !.at = "insert", !.h = h]
  <2>1. k \in Job /\ Keeps(k, job[t]) /\ k.at = "insert" /\ k.h = h /\ k.o = job[t].o
    <3>1. job[t] \in Job
      BY DEF TypeOK
    <3>2. k \in Job
      BY <3>1 DEF Job
    <3>. QED
      BY <3>1, <3>2 DEF Job, Keeps
  <2>2. job' = [job EXCEPT ![t] = k]
    BY <1>4 DEF TypeOK
  <2> HIDE DEF k
  <2>3. Moves(t, k)
    BY <2>1, <2>2, MovesTo
  <2>. QED
    BY <2>1, <2>3
<1>. QED
  BY <1>1, <1>2, <1>3, <1>4

LEMMA InsertEffect ==
  ASSUME TypeOK, StageInv, NEW t \in Threads, job[t].at = "insert"
  PROVE  /\ job[t].e \in Engines /\ job[t].e <= published /\ job[t].h \in Handles
         /\ job[t].op \in {"open", "find"}
         /\ job[t].op = "open" => job[t].o \in 1..opened /\ job[t].o \in 0..MaxOpens
         /\ job[t].op = "find" =>
              job[t].o \in 1..found /\ job[t].o \in Finds /\ job[t].o \in 0..MaxFinds
<1>1. /\ MaxEngines \in Nat /\ MaxOpens \in Nat /\ MaxFinds \in Nat
      /\ published \in 0..MaxEngines /\ opened \in 0..MaxOpens /\ found \in 0..MaxFinds
      /\ job[t] \in Job
  BY WinAssumption DEF TypeOK
<1>2. /\ job[t].e \in 1..published /\ job[t].h \in Handles /\ job[t].op \in {"open", "find"}
      /\ job[t].o \in IF job[t].op = "open" THEN 1..opened ELSE 1..found
  BY DEF StageInv, StageOf
<1>. QED
  BY <1>1, <1>2 DEF Engines, Finds

LEMMA CallEffect ==
  ASSUME TypeOK, NEW t \in Threads, NEW h \in Handles,
         ReadFile(t, h) \/ WriteFile(t, h) \/ SetFilePointerEx(t, h) \/ SetFilePointer(t, h)
           \/ SetEndOfFile(t, h) \/ GetFileSize(t, h) \/ GetFileInformationByHandle(t, h)
           \/ FlushFileBuffers(t, h)
  PROVE  /\ UNCHANGED <<routing, registry, kernel, volume, objects, searches, reached>>
         /\ job[t] = Idle /\ engine \in Engines /\ files[engine][h] # 0
         /\ \E k : /\ Moves(t, k) /\ k.at = "lock" /\ k.o = files[engine][h]
                   /\ k.op \in {"read", "write", "seek", "seek_halves", "query", "end"}
                   /\ k.op \in {"read", "write"} => k.method \in {0, 1}
<1>1. ASSUME NEW op \in {"read", "write", "seek", "seek_halves", "query", "end"},
             NEW method \in 0..2, NEW off \in Int, NEW n \in {0, 1},
             job[t] = Idle, op \in {"read", "write"} => method \in {0, 1},
             FileCall(t, h, op, method, off, n)
      PROVE  /\ UNCHANGED <<routing, registry, kernel, volume, objects, searches, reached>>
             /\ job[t] = Idle /\ engine \in Engines /\ files[engine][h] # 0
             /\ \E k : /\ Moves(t, k) /\ k.at = "lock" /\ k.o = files[engine][h]
                       /\ k.op \in {"read", "write", "seek", "seek_halves", "query", "end"}
                       /\ k.op \in {"read", "write"} => k.method \in {0, 1}
  <2>1. engine # 0 /\ get_file(h) = files[engine][h] /\ files[engine][h] # 0
    BY <1>1 DEF FileCall, get_file
  <2>2. engine \in Engines /\ engine \in 0..MaxEngines /\ MaxOpens \in Nat
    BY <2>1, WinAssumption DEF TypeOK, Engines
  <2>3. get_file(h) \in Nat
    BY <2>1, <2>2 DEF TypeOK
  <2> DEFINE o == get_file(h)
  <2>4. /\ job' = [job EXCEPT ![t] = [Idle EXCEPT !.at = "lock", !.op = op, !.e = engine, !.h = h,
                                                  !.o = o, !.method = method, !.off = off,
                                                  !.n = n]]
        /\ UNCHANGED <<routing, registry, kernel, volume, objects, searches, reached>>
    BY <1>1 DEF FileCall
  <2> HIDE DEF o
  <2> DEFINE k == [Idle EXCEPT !.at = "lock", !.op = op, !.e = engine, !.h = h, !.o = o,
                               !.method = method, !.off = off, !.n = n]
  <2>5. k \in Job /\ k.at = "lock" /\ k.op = op /\ k.o = o /\ k.method = method
    BY <2>2, <2>3, IdleType DEF Job, o
  <2>6. job' = [job EXCEPT ![t] = k]
    BY <2>4
  <2> HIDE DEF k
  <2>7. Moves(t, k)
    BY <2>5, <2>6, MovesTo
  <2>. QED
    BY <1>1, <2>1, <2>2, <2>4, <2>5, <2>7 DEF o
<1>n. Limit \in Nat /\ 0 \in 0..2 /\ 1 \in 0..2 /\ 0 \in Int
  BY WinAssumption
<1>2. CASE ReadFile(t, h)
  <2>1. PICK n \in {0, 1}, method \in {0, 1}, off \in Int : FileCall(t, h, "read", method, off, n)
    BY <1>2, <1>n DEF ReadFile, Positions
  <2>2. method \in 0..2 /\ job[t] = Idle
    BY <1>2 DEF ReadFile, MayCall
  <2>. QED
    BY <2>1, <2>2, <1>1
<1>3. CASE WriteFile(t, h)
  <2>1. PICK n \in {0, 1}, method \in {0, 1}, off \in Int : FileCall(t, h, "write", method, off, n)
    BY <1>3, <1>n DEF WriteFile, Positions
  <2>2. method \in 0..2 /\ job[t] = Idle
    BY <1>3 DEF WriteFile, MayCall
  <2>. QED
    BY <2>1, <2>2, <1>1
<1>4. CASE SetFilePointerEx(t, h)
  <2>1. PICK method \in 0..2, off \in Int : FileCall(t, h, "seek", method, off, 0)
    BY <1>4, <1>n DEF SetFilePointerEx, Distances
  <2>2. job[t] = Idle
    BY <1>4 DEF SetFilePointerEx, MayCall
  <2>. QED
    BY <2>1, <2>2, <1>1
<1>5. CASE SetFilePointer(t, h)
  <2>1. PICK op \in {"seek", "seek_halves"}, method \in 0..2, off \in Int :
               FileCall(t, h, op, method, off, 0)
    BY <1>5, <1>n DEF SetFilePointer, Distances
  <2>2. job[t] = Idle
    BY <1>5 DEF SetFilePointer, MayCall
  <2>. QED
    BY <2>1, <2>2, <1>1
<1>6. CASE SetEndOfFile(t, h)
  <2>1. FileCall(t, h, "end", 0, 0, 0) /\ job[t] = Idle
    BY <1>6 DEF SetEndOfFile, MayCall
  <2>. QED
    BY <2>1, <1>n, <1>1
<1>7. CASE GetFileSize(t, h) \/ GetFileInformationByHandle(t, h) \/ FlushFileBuffers(t, h)
  <2>1. FileCall(t, h, "query", 1, 0, 0) /\ job[t] = Idle
    BY <1>7 DEF GetFileSize, GetFileInformationByHandle, FlushFileBuffers, MayCall
  <2>. QED
    BY <2>1, <1>n, <1>1
<1>. QED
  BY <1>2, <1>3, <1>4, <1>5, <1>6, <1>7

LEMMA LockEffect ==
  ASSUME TypeOK, StageInv, NEW t \in Threads, LockFile(t)
  PROVE  LET o == job[t].o  to == Base(job[t]) + Distance(job[t])
         IN  /\ UNCHANGED <<routing, registry, kernel, volume, opened, searches, reached>>
             /\ job[t].at = "lock" /\ holder[o] = NoThread /\ o \in Opens /\ o <= opened
             /\ job[t].op \in {"read", "write", "seek", "seek_halves", "query", "end"}
             /\ \/ Moves(t, Idle) /\ UNCHANGED <<open, holder>>
                \/ /\ Moves(t, Idle) /\ job[t].op \in {"seek", "seek_halves"}
                   /\ to \in Positions /\ open' = [open EXCEPT ![o].pos = to] /\ UNCHANGED holder
                \/ /\ job[t].op \in {"read", "write"} /\ Lock(t, o)
                   /\ to \in Positions /\ open' = [open EXCEPT ![o].pos = to]
                   /\ \E k : /\ Moves(t, k) /\ Keeps(k, job[t]) /\ k.at = "transfer"
                             /\ k.o = o /\ k.was = open[o].pos
                \/ /\ job[t].op = "end" /\ Lock(t, o) /\ UNCHANGED open
                   /\ \E k : /\ Moves(t, k) /\ Keeps(k, job[t]) /\ k.at = "set_len"
                             /\ k.o = o /\ k.was = open[o].pos
<1> DEFINE j == job[t]
           to == Base(j) + Distance(j)
<1>1. /\ UNCHANGED <<routing, registry, kernel, volume, opened, searches, reached>>
      /\ j.at = "lock" /\ holder[j.o] = NoThread
  BY DEF LockFile, At
<1>2. /\ j.o \in Opens /\ j.o <= opened /\ open[j.o].pos \in Positions
  BY <1>1, OpenedFile
<1>3. j.op \in {"read", "write", "seek", "seek_halves", "query", "end"}
  BY <1>1 DEF StageInv, StageOf
<1>j. j \in Job
  BY DEF TypeOK
<1>4. CASE Return(t) /\ UNCHANGED <<open, holder>>
  BY <1>1, <1>2, <1>3, <1>4, MovesIdle
<1>5. CASE /\ j.op \in {"seek", "seek_halves"} /\ Return(t) /\ to \in Positions
           /\ open' = [open EXCEPT ![j.o].pos = to] /\ UNCHANGED holder
  BY <1>1, <1>2, <1>3, <1>5, MovesIdle
<1>6. CASE /\ j.op \in {"read", "write"} /\ Lock(t, j.o) /\ to \in Positions
           /\ open' = [open EXCEPT ![j.o].pos = to]
           /\ job' = [job EXCEPT ![t].at = "transfer", ![t].was = open[j.o].pos]
  <2> DEFINE k == [job[t] EXCEPT !.at = "transfer", !.was = open[job[t].o].pos]
  <2>1. k \in Job
    BY <1>j, <1>2 DEF Job
  <2>2. Keeps(k, j) /\ k.at = "transfer" /\ k.o = j.o /\ k.was = open[j.o].pos
    BY <1>j, <2>1 DEF Job, Keeps
  <2>3. job' = [job EXCEPT ![t] = k]
    BY <1>6 DEF TypeOK
  <2> HIDE DEF k
  <2>4. Moves(t, k)
    BY <2>1, <2>3, MovesTo
  <2>. QED
    BY <1>1, <1>2, <1>3, <1>6, <2>2, <2>4
<1>7. CASE /\ j.op = "end" /\ Lock(t, j.o) /\ UNCHANGED open
           /\ job' = [job EXCEPT ![t].at = "set_len", ![t].was = open[j.o].pos]
  <2> DEFINE k == [job[t] EXCEPT !.at = "set_len", !.was = open[job[t].o].pos]
  <2>1. k \in Job
    BY <1>j, <1>2 DEF Job
  <2>2. Keeps(k, j) /\ k.at = "set_len" /\ k.o = j.o /\ k.was = open[j.o].pos
    BY <1>j, <2>1 DEF Job, Keeps
  <2>3. job' = [job EXCEPT ![t] = k]
    BY <1>7 DEF TypeOK
  <2> HIDE DEF k
  <2>4. Moves(t, k)
    BY <2>1, <2>3, MovesTo
  <2>. QED
    BY <1>1, <1>2, <1>3, <1>7, <2>2, <2>4
<1>. QED
  BY <1>4, <1>5, <1>6, <1>7 DEF LockFile

(* The calls that unlock: at most the pointer and the length of the open   *)
(* file change.                                                            *)
LEMMA TransferEffect ==
  ASSUME TypeOK, StageInv, StoreInv, NEW t \in Threads,
         ReadStream(t) \/ WriteStream(t) \/ SetLen(t)
  PROVE  LET o == job[t].o  x == open[o].node
         IN  /\ UNCHANGED <<routing, registry, kernel, names, dirs, nodes,
                             opened, searches, reached>>
             /\ job[t].at \in {"transfer", "set_len"} /\ o \in Opens /\ o <= opened /\ x \in Nodes
             /\ Moves(t, Idle) /\ Unlock(o)
             /\ \/ UNCHANGED open
                \/ \E p \in Positions : open' = [open EXCEPT ![o].pos = p]
             /\ \/ UNCHANGED size
                \/ \E p \in Positions : size' = [size EXCEPT ![x] = p]
<1> DEFINE j == job[t]
           x == open[j.o].node
           pos == open[j.o].pos
<1>1. /\ UNCHANGED <<routing, registry, kernel, names, dirs, nodes, opened, searches, reached>>
      /\ j.at \in {"transfer", "set_len"} /\ Return(t) /\ Unlock(j.o)
  BY DEF ReadStream, WriteStream, SetLen, At, volume
<1>2. /\ j.o \in Opens /\ j.o <= opened /\ pos \in Positions
      /\ j.n \in {0, 1} /\ j.was \in Positions
  BY <1>1, OpenedFile
<1>3. x \in Nodes
  BY <1>2 DEF StoreInv
<1>4. Moves(t, Idle)
  BY <1>1, MovesIdle
<1>5. size[x] \in 0..Limit /\ Limit \in Nat /\ Positions = 0..Limit
  BY <1>3, WinAssumption DEF TypeOK, Positions
<1>6. CASE ReadStream(t)
  <2>1. UNCHANGED size
    BY <1>6 DEF ReadStream, volume
  <2>2. \/ UNCHANGED open
        \/ pos + j.n <= size[x] /\ open' = [open EXCEPT ![j.o].pos = pos + j.n]
    BY <1>6 DEF ReadStream
  <2>3. pos + j.n <= size[x] => pos + j.n \in Positions
    BY <1>2, <1>5
  <2>. QED
    BY <1>1, <1>2, <1>3, <1>4, <2>1, <2>2, <2>3
<1>7. CASE WriteStream(t)
  <2>1. \/ UNCHANGED <<open, size>>
        \/ /\ pos + j.n \in Positions /\ open' = [open EXCEPT ![j.o].pos = pos + j.n]
           /\ size' = [size EXCEPT ![x] = IF pos + j.n > size[x] THEN pos + j.n ELSE size[x]]
    BY <1>7 DEF WriteStream
  <2>2. pos + j.n \in Positions
          => (IF pos + j.n > size[x] THEN pos + j.n ELSE size[x]) \in Positions
    BY <1>5
  <2>. QED
    BY <1>1, <1>2, <1>3, <1>4, <2>1, <2>2
<1>8. CASE SetLen(t)
  <2>1. UNCHANGED open /\ (UNCHANGED size \/ size' = [size EXCEPT ![x] = j.was])
    BY <1>8 DEF SetLen
  <2>. QED
    BY <1>1, <1>2, <1>3, <1>4, <2>1
<1>. QED
  BY <1>6, <1>7, <1>8

LEMMA CloseEffect ==
  ASSUME TypeOK, NEW t \in Threads, NEW h \in Handles, CloseHandle(t, h) \/ FindClose(t, h)
  PROVE  /\ UNCHANGED <<routing, volume, objects, searches, reached>>
         /\ job[t] = Idle /\ held[h] # "none" /\ held' = [held EXCEPT ![h] = "none"]
         /\ \/ /\ UNCHANGED <<registry, job>> /\ table' = [table EXCEPT ![h] = "free"]
               /\ held[h] = "file" => get_file(h) = 0
               /\ held[h] = "search" => get_find(h) = 0
            \/ /\ UNCHANGED table
               /\ engine \in Engines
               /\ \/ held[h] = "file" /\ UNCHANGED finds /\ files' = [files EXCEPT ![engine][h] = 0]
                  \/ held[h] = "search" /\ UNCHANGED files /\ finds' = [finds EXCEPT ![engine][h] = 0]
               /\ \E k : Moves(t, k) /\ k.at = "close" /\ k.h = h
<1>1. /\ UNCHANGED <<routing, volume, objects, searches, reached>>
      /\ job[t] = Idle /\ held[h] # "none" /\ held' = [held EXCEPT ![h] = "none"]
  BY DEF CloseHandle, FindClose, MayCall
<1>2. CASE /\ UNCHANGED <<registry, job>> /\ table' = [table EXCEPT ![h] = "free"]
           /\ held[h] = "file" => get_file(h) = 0
           /\ held[h] = "search" => get_find(h) = 0
  BY <1>1, <1>2
<1>3. ASSUME NEW c \in {"CloseHandle", "FindClose"},
             UNCHANGED table, engine # 0,
             \/ held[h] = "file" /\ UNCHANGED finds /\ files' = [files EXCEPT ![engine][h] = 0]
             \/ held[h] = "search" /\ UNCHANGED files /\ finds' = [finds EXCEPT ![engine][h] = 0],
             job' = [job EXCEPT ![t] = [Idle EXCEPT !.at = "close", !.op = c, !.h = h]]
      PROVE  /\ engine \in Engines
             /\ \E k : Moves(t, k) /\ k.at = "close" /\ k.h = h
  <2>1. engine \in Engines
    BY <1>3, WinAssumption DEF TypeOK, Engines
  <2> DEFINE k == [Idle EXCEPT !.at = "close", !.op = c, !.h = h]
  <2>2. k \in Job /\ k.at = "close" /\ k.h = h
    BY IdleType DEF Job
  <2>3. job' = [job EXCEPT ![t] = k]
    BY <1>3
  <2> HIDE DEF k
  <2>4. Moves(t, k)
    BY <2>2, <2>3, MovesTo
  <2>. QED
    BY <2>1, <2>2, <2>4
<1>4. CASE CloseHandle(t, h)
  <2>1. CASE get_file(h) = 0
    BY <1>4, <2>1, <1>2 DEF CloseHandle, registry
  <2>2. CASE get_file(h) # 0
    <3>1. /\ engine # 0 /\ held[h] = "file" /\ UNCHANGED finds /\ UNCHANGED table
          /\ files' = [files EXCEPT ![engine][h] = 0]
          /\ job' = [job EXCEPT ![t] = [Idle EXCEPT !.at = "close", !.op = "CloseHandle", !.h = h]]
      BY <1>4, <2>2 DEF CloseHandle, remove_file, get_file
    <3>. QED
      BY <1>1, <1>3, <3>1
  <2>. QED
    BY <2>1, <2>2
<1>5. CASE FindClose(t, h)
  <2>1. CASE get_find(h) = 0
    BY <1>5, <2>1, <1>2 DEF FindClose, registry
  <2>2. CASE get_find(h) # 0
    <3>1. /\ engine # 0 /\ held[h] = "search" /\ UNCHANGED files /\ UNCHANGED table
          /\ finds' = [finds EXCEPT ![engine][h] = 0]
          /\ job' = [job EXCEPT ![t] = [Idle EXCEPT !.at = "close", !.op = "FindClose", !.h = h]]
      BY <1>5, <2>2 DEF FindClose, remove_find, get_find
    <3>. QED
      BY <1>1, <1>3, <3>1
  <2>. QED
    BY <2>1, <2>2
<1>. QED
  BY <1>4, <1>5

LEMMA CloseCarrierEffect ==
  ASSUME TypeOK, StageInv, NEW t \in Threads, CloseCarrier(t)
  PROVE  /\ UNCHANGED <<routing, registry, held, volume, objects, searches, reached>>
         /\ job[t].at = "close" /\ job[t].h \in Handles /\ Moves(t, Idle)
         /\ table' = [table EXCEPT ![job[t].h] = "free"]
BY MovesIdle DEF CloseCarrier, At, StageInv, StageOf

LEMMA FindEffect ==
  ASSUME TypeOK, NEW t \in Threads, NEW p \in program.paths \cup {Star}, FindFirstFile(t, p)
  PROVE  /\ UNCHANGED <<routing, registry, volume, objects, searches>> /\ job[t] = Idle
         /\ \/ /\ UNCHANGED job /\ KernelOpen("real", "search") /\ Reaches(p, "FindFirstFile")
               /\ p = Star => engine = 0 \/ p = Disk
            \/ /\ UNCHANGED <<kernel, reached>> /\ engine # 0 /\ p \in Names \cup {Star}
               /\ \E k : Moves(t, k) /\ k.at = "list" /\ k.op = "find" /\ k.e = engine /\ k.path = p
<1>1. UNCHANGED <<routing, registry, volume, objects, searches>> /\ job[t] = Idle
  BY DEF FindFirstFile, MayCall
<1>2. CASE /\ route(p) = "real" /\ KernelOpen("real", "search") /\ Reaches(p, "FindFirstFile")
           /\ UNCHANGED job
  BY <1>1, <1>2, RouteFacts
<1>3. CASE /\ route(p) = "virtual" /\ UNCHANGED <<kernel, reached>>
           /\ job' = [job EXCEPT ![t] = [Idle EXCEPT !.at = "list", !.op = "find", !.e = engine,
                                                     !.path = p]]
  <2>1. engine \in 0..MaxEngines /\ p \in Paths \cup {Star} /\ engine # 0 /\ p \in Names \cup {Star}
    BY <1>3, RouteFacts, ProgramFacts DEF TypeOK, Paths
  <2> DEFINE k == [Idle EXCEPT !.at = "list", !.op = "find", !.e = engine, !.path = p]
  <2>2. k \in Job /\ k.at = "list" /\ k.op = "find" /\ k.e = engine /\ k.path = p
    BY <2>1, IdleType DEF Job
  <2>3. job' = [job EXCEPT ![t] = k]
    BY <1>3
  <2> HIDE DEF k
  <2>4. Moves(t, k)
    BY <2>2, <2>3, MovesTo
  <2>. QED
    BY <1>1, <1>3, <2>1, <2>2, <2>4
<1>. QED
  BY <1>2, <1>3 DEF FindFirstFile

LEMMA ListEffect ==
  ASSUME TypeOK, StageInv, NEW t \in Threads, NEW at \in {"list", "exact"}, find_matches(t, at)
  PROVE  LET matches == Matches(job[t].path)
         IN  /\ UNCHANGED <<routing, registry, kernel, volume, objects, reached, given>>
             /\ job[t].at = at /\ job[t].op = "find" /\ job[t].path \in Names \cup {Star}
             /\ \/ UNCHANGED <<find, found>> /\ Moves(t, Idle)
                \/ /\ UNCHANGED <<find, found>>
                   /\ \E k : Moves(t, k) /\ Keeps(k, job[t]) /\ k.at = "exact"
                \/ /\ matches # <<>> /\ found' = found + 1 /\ found + 1 \in Finds
                   /\ find' = [find EXCEPT ![found + 1].entries = matches]
                   /\ \E k : /\ Moves(t, k) /\ Keeps(k, job[t]) /\ k.at = "carrier"
                             /\ k.o = found + 1
<1> DEFINE j == job[t]
           matches == Matches(job[t].path)
<1>1. /\ UNCHANGED <<routing, registry, kernel, volume, objects, reached, given>>
      /\ j.at = at
  BY DEF find_matches, At, searches
<1>2. j.op = "find" /\ j.path \in Names \cup {Star}
  BY <1>1 DEF StageInv, StageOf
<1>j. j \in Job
  BY DEF TypeOK
<1>3. CASE Return(t) /\ UNCHANGED searches
  BY <1>1, <1>2, <1>3, MovesIdle DEF searches
<1>4. CASE Goto(t, "exact") /\ UNCHANGED searches
  <2> DEFINE k == [job[t] EXCEPT !.at = "exact"]
  <2>1. k \in Job
    BY <1>j DEF Job
  <2>2. Keeps(k, j) /\ k.at = "exact"
    BY <1>j, <2>1 DEF Job, Keeps
  <2>3. job' = [job EXCEPT ![t] = k]
    BY <1>4 DEF TypeOK, Goto
  <2> HIDE DEF k
  <2>4. Moves(t, k)
    BY <2>1, <2>3, MovesTo
  <2>. QED
    BY <1>1, <1>2, <1>4, <2>2, <2>4 DEF searches
<1>5. CASE /\ matches # <<>> /\ found < MaxFinds /\ found' = found + 1
           /\ find' = [find EXCEPT ![found + 1].entries = matches]
           /\ job' = [job EXCEPT ![t].at = "carrier", ![t].o = found + 1]
  <2>0. found + 1 \in Finds /\ found + 1 \in Nat
    BY <1>5, WinAssumption DEF TypeOK, Finds
  <2> DEFINE k == [job[t] EXCEPT !.at = "carrier", !.o = found + 1]
  <2>1. k \in Job
    BY <1>j, <2>0 DEF Job
  <2>2. Keeps(k, j) /\ k.at = "carrier" /\ k.o = found + 1
    BY <1>j, <2>1 DEF Job, Keeps
  <2>3. job' = [job EXCEPT ![t] = k]
    BY <1>5 DEF TypeOK
  <2> HIDE DEF k
  <2>4. Moves(t, k)
    BY <2>1, <2>3, MovesTo
  <2>. QED
    BY <1>1, <1>2, <1>5, <2>0, <2>2, <2>4
<1>. QED
  BY <1>3, <1>4, <1>5 DEF find_matches

LEMMA NextEffect ==
  ASSUME TypeOK, NEW t \in Threads, NEW h \in Handles, FindNextFileW(t, h)
  PROVE  /\ UNCHANGED <<routing, registry, kernel, volume, objects, searches, reached>>
         /\ job[t] = Idle /\ engine \in Engines /\ finds[engine][h] # 0
         /\ \E k : Moves(t, k) /\ k.at = "next" /\ k.o = finds[engine][h]
<1>1. /\ UNCHANGED <<routing, registry, kernel, volume, objects, searches, reached>>
      /\ job[t] = Idle /\ engine # 0 /\ finds[engine][h] # 0
      /\ job' = [job EXCEPT ![t] = [Idle EXCEPT !.at = "next", !.op = "next", !.h = h,
                                                !.o = finds[engine][h]]]
  BY DEF FindNextFileW, MayCall, get_find
<1>2. engine \in Engines /\ MaxFinds \in Nat
  BY <1>1, WinAssumption DEF TypeOK, Engines
<1>3. finds[engine][h] \in Nat
  BY <1>2 DEF TypeOK
<1> DEFINE k == [Idle EXCEPT !.at = "next", !.op = "next", !.h = h, !.o = finds[engine][h]]
<1>4. k \in Job /\ k.at = "next" /\ k.o = finds[engine][h]
  BY <1>3, IdleType DEF Job
<1>5. job' = [job EXCEPT ![t] = k]
  BY <1>1
<1> HIDE DEF k
<1>6. Moves(t, k)
  BY <1>4, <1>5, MovesTo
<1>. QED
  BY <1>1, <1>2, <1>4, <1>6

LEMMA PathEffect ==
  ASSUME TypeOK, NEW t \in Threads, NEW p \in program.paths, NEW q \in program.paths,
         \/ PathQuery(t, p) \/ DeleteFileW(t, p) \/ CreateDirectoryW(t, p)
         \/ MoveFileExW(t, p, q)
  PROVE  /\ UNCHANGED <<routing, registry, kernel, size, objects, searches, job>>
         /\ \/ /\ \E c \in PathCalls : Reaches(p, c) \/ Reaches(q, c)
               /\ UNCHANGED <<names, dirs, nodes>>
            \/ /\ UNCHANGED reached
               /\ \/ /\ p \in Names /\ names[p] # 0 /\ names' = [names EXCEPT ![p] = 0]
                     /\ UNCHANGED <<dirs, nodes>>
                  \/ /\ p \in Names /\ nodes < MaxNodes /\ nodes' = nodes + 1
                     /\ names' = [names EXCEPT ![p] = nodes + 1] /\ dirs' = dirs \cup {nodes + 1}
                  \/ /\ p \in Names /\ q \in Names /\ p # q /\ names[p] # 0
                     /\ names' = [names EXCEPT ![q] = names[p], ![p] = 0]
                     /\ UNCHANGED <<dirs, nodes>>
<1>1. UNCHANGED <<routing, registry, kernel, size, objects, searches, job>>
  BY DEF PathQuery, DeleteFileW, CreateDirectoryW, MoveFileExW, Mutates, volume
<1>2. ASSUME NEW a \in {p, q}, route(a) = "virtual" PROVE a \in Names
  BY <1>2, RouteFacts, ProgramFacts DEF Paths
<1>3. CASE PathQuery(t, p)
  <2>1. UNCHANGED <<names, dirs, nodes>>
    BY <1>3 DEF PathQuery, volume
  <2>2. \/ Reaches(p, "GetFileAttributesW") \/ Reaches(p, "GetFullPathNameW")
        \/ Reaches(p, "GetDiskFreeSpaceA") \/ Reaches(p, "GetDriveTypeW")
    BY <1>3 DEF PathQuery
  <2>3. \E c \in PathCalls : Reaches(p, c)
    BY <2>2 DEF PathCalls
  <2>. QED
    BY <1>1, <2>1, <2>3
<1>4. CASE DeleteFileW(t, p)
  BY <1>1, <1>2, <1>4 DEF DeleteFileW, Mutates
<1>5. CASE CreateDirectoryW(t, p)
  BY <1>1, <1>2, <1>5 DEF CreateDirectoryW, Mutates
<1>6. CASE MoveFileExW(t, p, q)
  <2>1. CASE Reaches(q, "MoveFileExW") /\ UNCHANGED volume
    <3>1. \E c \in PathCalls : Reaches(q, c)
      BY <2>1 DEF PathCalls
    <3>2. UNCHANGED <<names, dirs, nodes>>
      BY <2>1 DEF volume
    <3>. QED
      BY <1>1, <3>1, <3>2
  <2>2. CASE ~(Reaches(q, "MoveFileExW") /\ UNCHANGED volume)
    BY <1>1, <1>2, <1>6, <2>2 DEF MoveFileExW, Mutates
  <2>. QED
    BY <2>1, <2>2
<1>. QED
  BY <1>3, <1>4, <1>5, <1>6

(* One field of one search changes. *)
LEMMA EntriesSet ==
  ASSUME TypeOK, NEW f \in Finds, NEW s \in Seq(Names)
  PROVE  LET new == [find EXCEPT ![f].entries = s]
         IN  /\ new \in [Finds -> [entries : Seq(Names), next : Nat]]
             /\ new[f].entries = s /\ new[f].next = find[f].next
             /\ \A x \in Finds : x # f => new[x] = find[x]
<1> DEFINE R == [entries : Seq(Names), next : Nat]
           rec == [find[f] EXCEPT !.entries = s]
<1>1. find \in [Finds -> R] /\ find[f] \in R
  BY DEF TypeOK
<1>2. rec \in R /\ rec.entries = s /\ rec.next = find[f].next
  BY <1>1
<1>3. [find EXCEPT ![f].entries = s] = [find EXCEPT ![f] = rec]
  BY <1>1
<1> HIDE DEF R, rec
<1>4. /\ [find EXCEPT ![f] = rec] \in [Finds -> R]
      /\ [find EXCEPT ![f] = rec][f] = rec
      /\ \A x \in Finds : x # f => [find EXCEPT ![f] = rec][x] = find[x]
  BY <1>1, <1>2
<1>. QED
  BY <1>2, <1>3, <1>4 DEF R

LEMMA NextSet ==
  ASSUME TypeOK, NEW f \in Finds, NEW n \in Nat
  PROVE  LET new == [find EXCEPT ![f].next = n]
         IN  /\ new \in [Finds -> [entries : Seq(Names), next : Nat]]
             /\ new[f].entries = find[f].entries /\ new[f].next = n
             /\ \A x \in Finds : x # f => new[x] = find[x]
<1> DEFINE R == [entries : Seq(Names), next : Nat]
           rec == [find[f] EXCEPT !.next = n]
<1>1. find \in [Finds -> R] /\ find[f] \in R
  BY DEF TypeOK
<1>2. rec \in R /\ rec.next = n /\ rec.entries = find[f].entries
  BY <1>1
<1>3. [find EXCEPT ![f].next = n] = [find EXCEPT ![f] = rec]
  BY <1>1
<1> HIDE DEF R, rec
<1>4. /\ [find EXCEPT ![f] = rec] \in [Finds -> R]
      /\ [find EXCEPT ![f] = rec][f] = rec
      /\ \A x \in Finds : x # f => [find EXCEPT ![f] = rec][x] = find[x]
  BY <1>1, <1>2
<1>. QED
  BY <1>2, <1>3, <1>4 DEF R

LEMMA InsertFindEffect ==
  ASSUME TypeOK, StageInv, SearchInv, NEW t \in Threads, insert_find(t)
  PROVE  LET f == job[t].o  s == find[f].entries
         IN  /\ UNCHANGED <<routing, files, table, volume, objects, found, reached>>
             /\ job[t].at = "insert" /\ job[t].op = "find" /\ Moves(t, Idle)
             /\ f \in Finds /\ s \in Seq(Names) /\ s # <<>> /\ find[f].next = 0
             /\ Head(s) \in Names /\ Tail(s) \in Seq(Names)
             /\ given' = [given EXCEPT ![f] = Append(given[f], Head(s))]
             /\ find' = [find EXCEPT ![f].entries = Tail(s)]
             /\ finds' = [finds EXCEPT ![job[t].e][job[t].h] = f]
             /\ held' = [held EXCEPT ![job[t].h] = "search"]
<1> DEFINE f == job[t].o
           s == find[f].entries
<1>1. /\ UNCHANGED <<routing, files, table, volume, objects, found, reached>>
      /\ job[t].at = "insert" /\ job[t].op = "find" /\ Return(t)
      /\ given' = [given EXCEPT ![f] = Append(given[f], Head(s))]
      /\ find' = [find EXCEPT ![f].entries = Tail(s)]
      /\ finds' = [finds EXCEPT ![job[t].e][job[t].h] = f]
      /\ held' = [held EXCEPT ![job[t].h] = "search"]
  BY DEF insert_find, At
<1>2. f \in Finds /\ Moves(t, Idle)
  BY <1>1, InsertEffect, MovesIdle
<1>3. s \in Seq(Names)
  BY <1>2 DEF TypeOK
<1>4. s # <<>> /\ find[f].next = 0
  BY <1>1 DEF SearchInv, Pending
<1>5. Head(s) \in Names /\ Tail(s) \in Seq(Names)
  BY <1>3, <1>4
<1>. QED
  BY <1>1, <1>2, <1>3, <1>4, <1>5

LEMMA GiveEffect ==
  ASSUME TypeOK, StageInv, NEW t \in Threads, GiveEntry(t)
  PROVE  LET f == job[t].o  s == find[f].entries  n == find[f].next
         IN  /\ UNCHANGED <<routing, registry, kernel, volume, objects, found, reached>>
             /\ job[t].at = "next" /\ Moves(t, Idle) /\ f \in Finds /\ f <= found
             /\ s \in Seq(Names) /\ n \in Nat
             /\ \/ UNCHANGED <<given, find>>
                \/ /\ n < Len(s) /\ s[n + 1] \in Names
                   /\ given' = [given EXCEPT ![f] = Append(given[f], s[n + 1])]
                   /\ find' = [find EXCEPT ![f].next = n + 1]
<1> DEFINE f == job[t].o
           s == find[f].entries
           n == find[f].next
<1>1. /\ UNCHANGED <<routing, registry, kernel, volume, objects, found, reached>>
      /\ job[t].at = "next" /\ Return(t)
      /\ \/ UNCHANGED <<given, find>>
         \/ /\ n < Len(s)
            /\ given' = [given EXCEPT ![f] = Append(given[f], s[n + 1])]
            /\ find' = [find EXCEPT ![f].next = n + 1]
  BY DEF GiveEntry, At
<1>2. f \in 1..found /\ Moves(t, Idle)
  BY <1>1, MovesIdle DEF StageInv, StageOf
<1>3. f \in Finds /\ f <= found
  BY <1>2, WinAssumption DEF TypeOK, Finds
<1>4. s \in Seq(Names) /\ n \in Nat
  BY <1>3 DEF TypeOK
<1>5. n < Len(s) => s[n + 1] \in Names
  BY <1>4
<1>. QED
  BY <1>1, <1>2, <1>3, <1>4, <1>5

-----------------------------------------------------------------------------
(* Each step keeps the types *)

LEMMA TypeStep ==
  TypeOK /\ StageInv /\ StoreInv /\ SearchInv /\ [Next]_vars => TypeOK'
<1> SUFFICES ASSUME TypeOK, StageInv, StoreInv, SearchInv, [Next]_vars PROVE TypeOK'
  OBVIOUS
<1>t. /\ KernelType /\ VolumeType /\ ObjectType /\ SearchType
      /\ \A t \in Threads : job[t] \in Job
      /\ (KernelType' /\ VolumeType' /\ ObjectType' /\ SearchType' /\ (job \in [Threads -> Job])'
            => TypeOK')
  BY TypeParts
<1>n. /\ MaxNodes \in Nat /\ MaxOpens \in Nat /\ MaxFinds \in Nat /\ MaxEngines \in Nat
      /\ Limit \in Nat
  BY WinAssumption
<1>1. ASSUME try_activate PROVE TypeOK'
  <2>1. engine' \in 0..MaxEngines /\ published' \in 0..MaxEngines
    BY <1>1, <1>n, <1>t, ProgramFacts DEF try_activate, KernelType
  <2>2. KernelType'
    BY <1>1, <2>1, <1>t DEF try_activate, KernelType, registry, kernel
  <2>. QED
    BY <1>1, <2>2, <1>t, TypeKept DEF try_activate
<1>2. ASSUME deactivate PROVE TypeOK'
  <2>1. engine' \in 0..MaxEngines
    BY <1>2, <1>n DEF deactivate
  <2>2. KernelType'
    BY <1>2, <2>1, <1>t DEF deactivate, KernelType, registry, kernel
  <2>. QED
    BY <1>2, <2>2, <1>t, TypeKept DEF deactivate
<1>k. ASSUME NEW kind \in Kinds, NEW what \in Holdings, KernelOpen(kind, what)
      PROVE  table' \in [Handles -> Kinds] /\ held' \in [Handles -> Holdings]
  BY <1>k, <1>t DEF KernelOpen, kernel, KernelType
<1>r. ASSUME NEW p, NEW c \in PathCalls, p \in program.paths \/ engine = 0 \/ p = Disk,
             Reaches(p, c)
      PROVE  reached' \subseteq (Paths \X PathCalls)
  BY <1>r, <1>t, ProgramFacts DEF Reaches, KernelType
<1>3. ASSUME NEW t \in Threads, NEW p \in program.paths, NEW access, NEW disposition,
             NEW overlapped, CreateFileW(t, p, access, disposition, overlapped)
      PROVE  TypeOK'
  <2>0. UNCHANGED <<routing, registry, volume, objects, searches>>
    BY <1>3, CreateEffect
  <2>1. CASE UNCHANGED job /\ KernelOpen("real", "file") /\ Reaches(p, "CreateFile")
    <3>1. table' \in [Handles -> Kinds] /\ held' \in [Handles -> Holdings]
      BY <2>1, <1>k DEF Kinds, Holdings
    <3>2. reached' \subseteq (Paths \X PathCalls)
      BY <2>1, <1>r DEF PathCalls
    <3>3. KernelType'
      BY <2>0, <3>1, <3>2, <1>t DEF KernelType, routing, registry
    <3>. QED
      BY <2>0, <2>1, <3>3, <1>t, TypeKept
  <2>2. CASE UNCHANGED <<kernel, reached>> /\ \E k : Moves(t, k)
    BY <2>0, <2>2, <1>t, TypeKept
  <2>. QED
    BY <1>3, <2>1, <2>2, CreateEffect
<1>4. ASSUME NEW t \in Threads, OpenStream(t) PROVE TypeOK'
  <2>1. /\ UNCHANGED <<routing, registry, kernel, objects, searches, reached, dirs, size>>
        /\ job[t].path \in Names /\ \E k : Moves(t, k)
        /\ \/ UNCHANGED <<names, nodes>>
           \/ /\ nodes < MaxNodes /\ nodes' = nodes + 1
              /\ names' = [names EXCEPT ![job[t].path] = nodes + 1]
    BY <1>4, OpenEffect
  <2>2. VolumeType'
    BY <2>1, <1>n, <1>t DEF VolumeType
  <2>. QED
    BY <2>1, <2>2, <1>t, TypeKept
<1>5. ASSUME NEW t \in Threads, TruncateNode(t) PROVE TypeOK'
  <2> DEFINE R == [node : 0..MaxNodes, pos : Positions, writable : BOOLEAN, overlapped : BOOLEAN]
             x == job[t].o
  <2>1. /\ UNCHANGED <<routing, registry, kernel, names, dirs, nodes, holder, searches, reached>>
        /\ opened' = opened + 1 /\ opened + 1 \in Opens /\ x \in Nodes
        /\ size' \in {size, [size EXCEPT ![x] = 0]}
        /\ \E r \in R : open' = [open EXCEPT ![opened + 1] = r]
        /\ \E k : Moves(t, k)
    BY <1>5, TruncateEffect
  <2>2. VolumeType'
    BY <2>1, <1>n, <1>t DEF VolumeType, Positions
  <2>3. open \in [Opens -> R] /\ opened \in 0..MaxOpens /\ holder \in [Opens -> Threads \cup {NoThread}]
    BY <1>t DEF ObjectType
  <2>4. opened' \in 0..MaxOpens
    BY <2>1, <2>3, <1>n DEF Opens
  <2> HIDE DEF R
  <2>5. open' \in [Opens -> R] /\ holder' \in [Opens -> Threads \cup {NoThread}]
    BY <2>1, <2>3
  <2>6. ObjectType'
    BY <2>4, <2>5 DEF ObjectType, R
  <2>. QED
    BY <2>1, <2>2, <2>6, <1>t, TypeKept
<1>6. ASSUME NEW t \in Threads, carrier_open(t) \/ carrier_find(t) PROVE TypeOK'
  <2>1. /\ UNCHANGED <<routing, registry, held, volume, objects, searches, reached>>
        /\ \E k : Moves(t, k)
        /\ \/ UNCHANGED table
           \/ \E h \in Handles :
                table' = [table EXCEPT ![h] = IF job[t].op = "open" THEN "nul" ELSE "search"]
    BY <1>6, CarrierEffect
  <2>2. table' \in [Handles -> Kinds]
    BY <2>1, <1>t DEF KernelType, Kinds
  <2>3. KernelType'
    BY <2>1, <2>2, <1>t DEF KernelType, routing, registry
  <2>. QED
    BY <2>1, <2>3, <1>t, TypeKept
<1>7. ASSUME NEW t \in Threads, insert_file(t) PROVE TypeOK'
  <2>1. job[t].e \in Engines /\ job[t].h \in Handles /\ job[t].o \in 0..MaxOpens
    BY <1>7, InsertEffect DEF insert_file, At
  <2>2. files' \in [Engines -> [Handles -> 0..MaxOpens]]
    BY <1>7, <2>1, <1>t, EntrySet DEF insert_file, KernelType
  <2>3. held' \in [Handles -> Holdings]
    BY <1>7, <1>t DEF insert_file, KernelType, Holdings
  <2>4. KernelType'
    BY <1>7, <2>2, <2>3, <1>t DEF insert_file, KernelType, routing
  <2>. QED
    BY <1>7, <2>4, <1>t, TypeKept, MovesIdle DEF insert_file
<1>8. ASSUME NEW t \in Threads, NEW h \in Handles,
             ReadFile(t, h) \/ WriteFile(t, h) \/ SetFilePointerEx(t, h) \/ SetFilePointer(t, h)
               \/ SetEndOfFile(t, h) \/ GetFileSize(t, h) \/ GetFileInformationByHandle(t, h)
               \/ FlushFileBuffers(t, h)
      PROVE  TypeOK'
  BY <1>8, CallEffect, <1>t, TypeKept
<1>9. ASSUME NEW t \in Threads, LockFile(t) PROVE TypeOK'
  <2> DEFINE o == job[t].o
  <2>1. /\ UNCHANGED <<routing, registry, kernel, volume, opened, searches, reached>>
        /\ \E k : Moves(t, k)
        /\ o \in Opens
        /\ UNCHANGED open \/ \E p \in Positions : open' = [open EXCEPT ![o].pos = p]
        /\ UNCHANGED holder \/ Lock(t, o)
    BY <1>9, LockEffect
  <2>2. holder' \in [Opens -> Threads \cup {NoThread}]
    BY <2>1, <1>t DEF Lock, ObjectType
  <2>3. ObjectType'
    <3>1. CASE UNCHANGED open
      BY <2>1, <2>2, <3>1, <1>t DEF ObjectType
    <3>2. ASSUME NEW p \in Positions, open' = [open EXCEPT ![o].pos = p] PROVE ObjectType'
      <4>1. open' \in [Opens -> [node : 0..MaxNodes, pos : Positions,
                                 writable : BOOLEAN, overlapped : BOOLEAN]]
        BY <2>1, <3>2, PointerMoved
      <4>. QED
        BY <2>1, <2>2, <4>1, <1>t DEF ObjectType
    <3>. QED
      BY <2>1, <3>1, <3>2
  <2>. QED
    BY <2>1, <2>3, <1>t, TypeKept
<1>10. ASSUME NEW t \in Threads, ReadStream(t) \/ WriteStream(t) \/ SetLen(t) PROVE TypeOK'
  <2> DEFINE o == job[t].o
             x == open[o].node
  <2>1. /\ UNCHANGED <<routing, registry, kernel, names, dirs, nodes, opened, searches, reached>>
        /\ \E k : Moves(t, k)
        /\ o \in Opens /\ x \in Nodes /\ Unlock(o)
        /\ UNCHANGED open \/ \E p \in Positions : open' = [open EXCEPT ![o].pos = p]
        /\ UNCHANGED size \/ \E p \in Positions : size' = [size EXCEPT ![x] = p]
    BY <1>10, TransferEffect
  <2>2. holder' \in [Opens -> Threads \cup {NoThread}]
    BY <2>1, <1>t DEF Unlock, ObjectType
  <2>3. ObjectType'
    <3>1. CASE UNCHANGED open
      BY <2>1, <2>2, <3>1, <1>t DEF ObjectType
    <3>2. ASSUME NEW p \in Positions, open' = [open EXCEPT ![o].pos = p] PROVE ObjectType'
      <4>1. open' \in [Opens -> [node : 0..MaxNodes, pos : Positions,
                                 writable : BOOLEAN, overlapped : BOOLEAN]]
        BY <2>1, <3>2, PointerMoved
      <4>. QED
        BY <2>1, <2>2, <4>1, <1>t DEF ObjectType
    <3>. QED
      BY <2>1, <3>1, <3>2
  <2>4. VolumeType'
    BY <2>1, <1>t DEF VolumeType
  <2>. QED
    BY <2>1, <2>3, <2>4, <1>t, TypeKept
<1>11. ASSUME NEW t \in Threads, NEW h \in Handles, CloseHandle(t, h) \/ FindClose(t, h)
       PROVE  TypeOK'
  <2>1. /\ UNCHANGED <<routing, volume, objects, searches, reached>>
        /\ held' = [held EXCEPT ![h] = "none"]
        /\ UNCHANGED job \/ \E k : Moves(t, k)
        /\ UNCHANGED table \/ table' = [table EXCEPT ![h] = "free"]
        /\ \/ UNCHANGED registry
           \/ engine \in Engines /\ UNCHANGED finds /\ files' = [files EXCEPT ![engine][h] = 0]
           \/ engine \in Engines /\ UNCHANGED files /\ finds' = [finds EXCEPT ![engine][h] = 0]
    BY <1>11, CloseEffect
  <2>2. 0 \in 0..MaxOpens /\ 0 \in 0..MaxFinds
    BY <1>n
  <2>3. files' \in [Engines -> [Handles -> 0..MaxOpens]]
    <3>1. files \in [Engines -> [Handles -> 0..MaxOpens]]
      BY <1>t DEF KernelType
    <3>2. CASE UNCHANGED files
      BY <3>1, <3>2
    <3>3. CASE engine \in Engines /\ files' = [files EXCEPT ![engine][h] = 0]
      BY <2>2, <3>1, <3>3, EntrySet
    <3>. QED
      BY <2>1, <3>2, <3>3 DEF registry
  <2>4. finds' \in [Engines -> [Handles -> 0..MaxFinds]]
    <3>1. finds \in [Engines -> [Handles -> 0..MaxFinds]]
      BY <1>t DEF KernelType
    <3>2. CASE UNCHANGED finds
      BY <3>1, <3>2
    <3>3. CASE engine \in Engines /\ finds' = [finds EXCEPT ![engine][h] = 0]
      BY <2>2, <3>1, <3>3, EntrySet
    <3>. QED
      BY <2>1, <3>2, <3>3 DEF registry
  <2>5. table' \in [Handles -> Kinds] /\ held' \in [Handles -> Holdings]
    BY <2>1, <1>t DEF KernelType, Kinds, Holdings
  <2>6. KernelType'
    BY <2>1, <2>3, <2>4, <2>5, <1>t DEF KernelType, routing
  <2>. QED
    BY <2>1, <2>6, <1>t, TypeKept
<1>12. ASSUME NEW t \in Threads, CloseCarrier(t) PROVE TypeOK'
  <2>1. /\ UNCHANGED <<routing, registry, held, volume, objects, searches, reached>>
        /\ \E k : Moves(t, k)
        /\ table' = [table EXCEPT ![job[t].h] = "free"]
    BY <1>12, CloseCarrierEffect
  <2>2. KernelType'
    BY <2>1, <1>t DEF KernelType, Kinds, routing, registry
  <2>. QED
    BY <2>1, <2>2, <1>t, TypeKept
<1>13. ASSUME NEW t \in Threads, NEW p \in program.paths \cup {Star}, FindFirstFile(t, p)
       PROVE  TypeOK'
  <2>0. UNCHANGED <<routing, registry, volume, objects, searches>>
    BY <1>13, FindEffect
  <2>1. CASE /\ UNCHANGED job /\ KernelOpen("real", "search") /\ Reaches(p, "FindFirstFile")
             /\ p = Star => engine = 0 \/ p = Disk
    <3>1. table' \in [Handles -> Kinds] /\ held' \in [Handles -> Holdings]
      BY <2>1, <1>k DEF Kinds, Holdings
    <3>2. reached' \subseteq (Paths \X PathCalls)
      BY <2>1, <1>r DEF PathCalls
    <3>3. KernelType'
      BY <2>0, <3>1, <3>2, <1>t DEF KernelType, routing, registry
    <3>. QED
      BY <2>0, <2>1, <3>3, <1>t, TypeKept
  <2>2. CASE UNCHANGED <<kernel, reached>> /\ \E k : Moves(t, k)
    BY <2>0, <2>2, <1>t, TypeKept
  <2>. QED
    BY <1>13, <2>1, <2>2, FindEffect
<1>14. ASSUME NEW t \in Threads, NEW at \in {"list", "exact"}, find_matches(t, at) PROVE TypeOK'
  <2>1. /\ UNCHANGED <<routing, registry, kernel, volume, objects, reached, given>>
        /\ \E k : Moves(t, k)
        /\ \/ UNCHANGED <<find, found>>
           \/ /\ found' = found + 1 /\ found + 1 \in Finds
              /\ find' = [find EXCEPT ![found + 1].entries = Matches(job[t].path)]
    BY <1>14, ListEffect
  <2>2. found' \in 0..MaxFinds
    BY <2>1, <1>n, <1>t DEF SearchType, Finds
  <2>3. Matches(job[t].path) \in Seq(Names)
    BY MatchesFacts
  <2>4. find' \in [Finds -> [entries : Seq(Names), next : Nat]]
    <3>1. CASE UNCHANGED find
      BY <3>1, <1>t DEF SearchType
    <3>2. CASE /\ found + 1 \in Finds
               /\ find' = [find EXCEPT ![found + 1].entries = Matches(job[t].path)]
      BY <2>3, <3>2, EntriesSet
    <3>. QED
      BY <2>1, <3>1, <3>2
  <2>5. SearchType'
    BY <2>1, <2>2, <2>4, <1>t DEF SearchType
  <2>. QED
    BY <2>1, <2>5, <1>t, TypeKept
<1>15. ASSUME NEW t \in Threads, insert_find(t) PROVE TypeOK'
  <2> DEFINE f == job[t].o
             s == find[f].entries
  <2>1. /\ UNCHANGED <<routing, files, table, volume, objects, found, reached>>
        /\ job[t].at = "insert" /\ job[t].op = "find" /\ Moves(t, Idle)
        /\ f \in Finds /\ Head(s) \in Names /\ Tail(s) \in Seq(Names)
        /\ given' = [given EXCEPT ![f] = Append(given[f], Head(s))]
        /\ find' = [find EXCEPT ![f].entries = Tail(s)]
        /\ finds' = [finds EXCEPT ![job[t].e][job[t].h] = f]
        /\ held' = [held EXCEPT ![job[t].h] = "search"]
    BY <1>15, InsertFindEffect
  <2>2. job[t].e \in Engines /\ job[t].h \in Handles /\ f \in 0..MaxFinds
    BY <2>1, InsertEffect
  <2>3. finds' \in [Engines -> [Handles -> 0..MaxFinds]]
    BY <2>1, <2>2, <1>t, EntrySet DEF KernelType
  <2>4. held' \in [Handles -> Holdings]
    BY <2>1, <1>t DEF KernelType, Holdings
  <2>5. KernelType'
    BY <2>1, <2>3, <2>4, <1>t DEF KernelType, routing
  <2>6. given[f] \in Seq(Names) /\ Append(given[f], Head(s)) \in Seq(Names)
    BY <2>1, <1>t DEF SearchType
  <2>7. SearchType'
    BY <2>1, <2>6, <1>t, EntriesSet DEF SearchType
  <2>. QED
    BY <2>1, <2>5, <2>7, <1>t, TypeKept
<1>16. ASSUME NEW t \in Threads, NEW h \in Handles, FindNextFileW(t, h) PROVE TypeOK'
  BY <1>16, NextEffect, <1>t, TypeKept
<1>17. ASSUME NEW t \in Threads, GiveEntry(t) PROVE TypeOK'
  <2> DEFINE f == job[t].o
             s == find[f].entries
             n == find[f].next
  <2>1. /\ UNCHANGED <<routing, registry, kernel, volume, objects, found, reached>>
        /\ Moves(t, Idle) /\ f \in Finds /\ n \in Nat
        /\ \/ UNCHANGED <<given, find>>
           \/ /\ s[n + 1] \in Names
              /\ given' = [given EXCEPT ![f] = Append(given[f], s[n + 1])]
              /\ find' = [find EXCEPT ![f].next = n + 1]
    BY <1>17, GiveEffect
  <2>2. given[f] \in Seq(Names) /\ n + 1 \in Nat
    BY <2>1, <1>t DEF SearchType
  <2>3. given' \in [Finds -> Seq(Names)]
    <3>1. CASE UNCHANGED given
      BY <3>1, <1>t DEF SearchType
    <3>2. CASE s[n + 1] \in Names /\ given' = [given EXCEPT ![f] = Append(given[f], s[n + 1])]
      <4>1. Append(given[f], s[n + 1]) \in Seq(Names)
        BY <2>2, <3>2
      <4>. QED
        BY <3>2, <4>1, <1>t DEF SearchType
    <3>. QED
      BY <2>1, <3>1, <3>2
  <2>4. find' \in [Finds -> [entries : Seq(Names), next : Nat]]
    <3>1. CASE UNCHANGED find
      BY <3>1, <1>t DEF SearchType
    <3>2. CASE find' = [find EXCEPT ![f].next = n + 1]
      BY <2>1, <2>2, <3>2, NextSet
    <3>. QED
      BY <2>1, <3>1, <3>2
  <2>5. SearchType'
    BY <2>1, <2>3, <2>4, <1>t DEF SearchType
  <2>. QED
    BY <2>1, <2>5, <1>t, TypeKept
<1>18. ASSUME NEW t \in Threads, NEW p \in program.paths, NEW q \in program.paths,
              \/ PathQuery(t, p) \/ DeleteFileW(t, p) \/ CreateDirectoryW(t, p)
              \/ MoveFileExW(t, p, q)
       PROVE  TypeOK'
  <2>1. /\ UNCHANGED <<routing, registry, kernel, size, objects, searches, job>>
        /\ UNCHANGED reached \/ \E c \in PathCalls : Reaches(p, c) \/ Reaches(q, c)
        /\ \/ UNCHANGED <<names, dirs, nodes>>
           \/ /\ p \in Names /\ names' = [names EXCEPT ![p] = 0] /\ UNCHANGED <<dirs, nodes>>
           \/ /\ p \in Names /\ nodes < MaxNodes /\ nodes' = nodes + 1
              /\ names' = [names EXCEPT ![p] = nodes + 1] /\ dirs' = dirs \cup {nodes + 1}
           \/ /\ p \in Names /\ q \in Names
              /\ names' = [names EXCEPT ![q] = names[p], ![p] = 0]
              /\ UNCHANGED <<dirs, nodes>>
    BY <1>18, PathEffect
  <2>2. reached' \subseteq (Paths \X PathCalls)
    BY <2>1, <1>r, <1>t DEF KernelType
  <2>3. KernelType'
    BY <2>1, <2>2, <1>t DEF KernelType, routing, registry, kernel
  <2>4. VolumeType'
    <3>1. /\ names \in [Names -> 0..MaxNodes] /\ dirs \subseteq 1..MaxNodes
          /\ size \in [Nodes -> Positions] /\ nodes \in 0..MaxNodes /\ 0 \in 0..MaxNodes
      BY <1>n, <1>t DEF VolumeType, Nodes
    <3>2. /\ nodes < MaxNodes => nodes + 1 \in 1..MaxNodes /\ nodes + 1 \in 0..MaxNodes
          /\ p \in Names => names[p] \in 0..MaxNodes
      BY <1>n, <3>1
    <3>3. names' \in [Names -> 0..MaxNodes]
      BY <2>1, <3>1, <3>2
    <3>4. dirs' \subseteq 1..MaxNodes /\ nodes' \in 0..MaxNodes
      BY <2>1, <3>1, <3>2
    <3>. QED
      BY <2>1, <3>1, <3>3, <3>4 DEF VolumeType, Nodes
  <2>. QED
    BY <2>1, <2>3, <2>4, <1>t, TypeKept
<1>19. CASE UNCHANGED vars
  BY <1>19 DEF vars, TypeOK
<1>. QED
  BY <1>1, <1>2, <1>3, <1>4, <1>5, <1>6, <1>7, <1>8, <1>9, <1>10, <1>11, <1>12, <1>13, <1>14,
     <1>15, <1>16, <1>17, <1>18, <1>19 DEF Next

-----------------------------------------------------------------------------
(* What the calls have in hand *)

LEMMA StageGrows ==
  ASSUME NEW j, NEW p \in Nat, NEW o \in Nat, NEW f \in Nat,
         NEW p2 \in Nat, NEW o2 \in Nat, NEW f2 \in Nat,
         p <= p2, o <= o2, f <= f2, StageOf(j, p, o, f)
  PROVE  StageOf(j, p2, o2, f2)
BY DEF StageOf

LEMMA StageIdle == \A p, o, f : StageOf(Idle, p, o, f)
BY DEF StageOf, Idle

LEMMA StageStep ==
  TypeOK /\ StageInv /\ StoreInv /\ SearchInv /\ TypeOK' /\ [Next]_vars => StageInv'
<1> SUFFICES ASSUME TypeOK, StageInv, StoreInv, SearchInv, TypeOK', [Next]_vars PROVE StageInv'
  OBVIOUS
<1>n. /\ published \in Nat /\ opened \in Nat /\ found \in Nat
      /\ published' \in Nat /\ opened' \in Nat /\ found' \in Nat
  BY DEF TypeOK
<1>s. \A t \in Threads : StageOf(job[t], published, opened, found)
  BY DEF StageInv
<1>m. ASSUME published <= published', opened <= opened', found <= found',
             NEW t \in Threads, NEW k, Moves(t, k), StageOf(k, published', opened', found')
      PROVE  StageInv'
  <2>1. ASSUME NEW u \in Threads PROVE StageOf(job'[u], published', opened', found')
    <3>1. CASE u = t
      BY <1>m, <3>1 DEF Moves
    <3>2. CASE u # t
      <4>1. job'[u] = job[u]
        BY <1>m, <3>2 DEF Moves
      <4>. QED
        BY <1>m, <1>n, <1>s, <4>1, StageGrows
    <3>. QED
      BY <3>1, <3>2
  <2>. QED
    BY <2>1 DEF StageInv
<1>i. ASSUME published <= published', opened <= opened', found <= found',
             UNCHANGED job \/ \E t \in Threads : Moves(t, Idle)
      PROVE  StageInv'
  <2>1. CASE UNCHANGED job
    <3>1. ASSUME NEW u \in Threads PROVE StageOf(job'[u], published', opened', found')
      BY <1>i, <1>n, <1>s, <2>1, StageGrows
    <3>. QED
      BY <3>1 DEF StageInv
  <2>2. CASE \E t \in Threads : Moves(t, Idle)
    BY <1>i, <1>m, <2>2, StageIdle
  <2>. QED
    BY <1>i, <2>1, <2>2
<1>1. CASE try_activate
  BY <1>1, <1>n, <1>i DEF try_activate, objects, searches
<1>2. CASE deactivate
  BY <1>2, <1>n, <1>i DEF deactivate, objects, searches
<1>3. ASSUME NEW t \in Threads, NEW p \in program.paths, NEW access, NEW disposition,
             NEW overlapped, CreateFileW(t, p, access, disposition, overlapped)
      PROVE  StageInv'
  <2>0. UNCHANGED <<published, opened, found>>
    BY <1>3, CreateEffect DEF routing, objects, searches
  <2>1. CASE UNCHANGED job
    BY <1>n, <1>i, <2>0, <2>1
  <2>2. ASSUME NEW k, engine # 0, p \in Names, Moves(t, k), k.at = "vfs", k.op = "open",
               k.e = engine, k.path = p
        PROVE  StageInv'
    <3>1. engine \in 1..published
      BY <2>2 DEF TypeOK, StoreInv
    <3>2. StageOf(k, published, opened, found)
      BY <2>2, <3>1 DEF StageOf
    <3>. QED
      BY <1>n, <1>m, <2>0, <2>2, <3>2
  <2>. QED
    BY <1>3, <2>1, <2>2, CreateEffect
<1>4. ASSUME NEW t \in Threads, OpenStream(t) PROVE StageInv'
  <2>0. UNCHANGED <<published, opened, found>>
    BY <1>4, OpenEffect DEF routing, objects, searches
  <2>1. CASE Moves(t, Idle)
    BY <1>n, <1>i, <2>0, <2>1
  <2>2. ASSUME NEW k, Moves(t, k), Keeps(k, job[t]), k.at = "truncate", k.o \in Nodes
        PROVE  StageInv'
    <3>1. job[t].at = "vfs"
      BY <1>4, OpenEffect
    <3>2. StageOf(k, published, opened, found)
      BY <2>2, <3>1, <1>s DEF StageOf, Keeps
    <3>. QED
      BY <1>n, <1>m, <2>0, <2>2, <3>2
  <2>. QED
    BY <1>4, <2>1, <2>2, OpenEffect
<1>5. ASSUME NEW t \in Threads, TruncateNode(t) PROVE StageInv'
  <2>0. UNCHANGED <<published, found>> /\ opened' = opened + 1 /\ job[t].at = "truncate"
    BY <1>5, TruncateEffect DEF routing, searches
  <2>1. PICK k : Moves(t, k) /\ Keeps(k, job[t]) /\ k.at = "carrier" /\ k.o = opened + 1
    BY <1>5, TruncateEffect
  <2>2. StageOf(k, published', opened', found')
    BY <2>0, <2>1, <1>s, <1>n DEF StageOf, Keeps
  <2>. QED
    BY <1>n, <1>m, <2>0, <2>1, <2>2
<1>6. ASSUME NEW t \in Threads, carrier_open(t) \/ carrier_find(t) PROVE StageInv'
  <2>0. UNCHANGED <<published, opened, found>> /\ job[t].at = "carrier"
    BY <1>6, CarrierEffect DEF routing, objects, searches
  <2>1. CASE Moves(t, Idle)
    BY <1>n, <1>i, <2>0, <2>1
  <2>2. ASSUME NEW h \in Handles, NEW k, Moves(t, k), Keeps(k, job[t]), k.at = "insert",
               k.h = h, k.o = job[t].o
        PROVE  StageInv'
    <3>1. StageOf(k, published, opened, found)
      BY <2>0, <2>2, <1>s DEF StageOf, Keeps
    <3>. QED
      BY <1>n, <1>m, <2>0, <2>2, <3>1
  <2>. QED
    BY <1>6, <2>1, <2>2, CarrierEffect
<1>7. ASSUME NEW t \in Threads, insert_file(t) PROVE StageInv'
  BY <1>7, <1>n, <1>i, MovesIdle DEF insert_file, routing, objects, searches
<1>8. ASSUME NEW t \in Threads, NEW h \in Handles,
             ReadFile(t, h) \/ WriteFile(t, h) \/ SetFilePointerEx(t, h) \/ SetFilePointer(t, h)
               \/ SetEndOfFile(t, h) \/ GetFileSize(t, h) \/ GetFileInformationByHandle(t, h)
               \/ FlushFileBuffers(t, h)
      PROVE  StageInv'
  <2>1. /\ UNCHANGED <<published, opened, found>> /\ engine \in Engines /\ files[engine][h] # 0
        /\ \E k : /\ Moves(t, k) /\ k.at = "lock" /\ k.o = files[engine][h]
                  /\ k.op \in {"read", "write", "seek", "seek_halves", "query", "end"}
                  /\ k.op \in {"read", "write"} => k.method \in {0, 1}
    BY <1>8, CallEffect DEF routing, objects, searches
  <2>2. files[engine][h] \in 1..opened
    BY <2>1 DEF StoreInv, TypeOK
  <2>3. PICK k : /\ Moves(t, k) /\ k.at = "lock" /\ k.o = files[engine][h]
                 /\ k.op \in {"read", "write", "seek", "seek_halves", "query", "end"}
                 /\ k.op \in {"read", "write"} => k.method \in {0, 1}
    BY <2>1
  <2>4. StageOf(k, published, opened, found)
    BY <2>2, <2>3 DEF StageOf
  <2>. QED
    BY <1>n, <1>m, <2>1, <2>3, <2>4
<1>9. ASSUME NEW t \in Threads, LockFile(t) PROVE StageInv'
  <2>0. UNCHANGED <<published, opened, found>> /\ job[t].at = "lock"
    BY <1>9, LockEffect DEF routing, searches
  <2>1. CASE Moves(t, Idle)
    BY <1>n, <1>i, <2>0, <2>1
  <2>2. ASSUME NEW k, Moves(t, k), Keeps(k, job[t]), k.at \in {"transfer", "set_len"},
               k.o = job[t].o
        PROVE  StageInv'
    <3>1. StageOf(k, published, opened, found)
      BY <2>0, <2>2, <1>s DEF StageOf, Keeps
    <3>. QED
      BY <1>n, <1>m, <2>0, <2>2, <3>1
  <2>. QED
    BY <1>9, <2>1, <2>2, LockEffect
<1>10. ASSUME NEW t \in Threads, ReadStream(t) \/ WriteStream(t) \/ SetLen(t) PROVE StageInv'
  BY <1>10, <1>n, <1>i, TransferEffect DEF routing, searches
<1>11. ASSUME NEW t \in Threads, NEW h \in Handles, CloseHandle(t, h) \/ FindClose(t, h)
       PROVE  StageInv'
  <2>0. UNCHANGED <<published, opened, found>>
    BY <1>11, CloseEffect DEF routing, objects, searches
  <2>1. CASE UNCHANGED job
    BY <1>n, <1>i, <2>0, <2>1
  <2>2. ASSUME NEW k, Moves(t, k), k.at = "close", k.h = h PROVE StageInv'
    <3>1. StageOf(k, published, opened, found)
      BY <2>2 DEF StageOf
    <3>. QED
      BY <1>n, <1>m, <2>0, <2>2, <3>1
  <2>. QED
    BY <1>11, <2>1, <2>2, CloseEffect
<1>12. ASSUME NEW t \in Threads, CloseCarrier(t) PROVE StageInv'
  BY <1>12, <1>n, <1>i, CloseCarrierEffect DEF routing, objects, searches
<1>13. ASSUME NEW t \in Threads, NEW p \in program.paths \cup {Star}, FindFirstFile(t, p)
       PROVE  StageInv'
  <2>0. UNCHANGED <<published, opened, found>>
    BY <1>13, FindEffect DEF routing, objects, searches
  <2>1. CASE UNCHANGED job
    BY <1>n, <1>i, <2>0, <2>1
  <2>2. ASSUME NEW k, engine # 0, p \in Names \cup {Star}, Moves(t, k), k.at = "list",
               k.op = "find", k.e = engine, k.path = p
        PROVE  StageInv'
    <3>1. engine \in 1..published
      BY <2>2 DEF TypeOK, StoreInv
    <3>2. StageOf(k, published, opened, found)
      BY <2>2, <3>1 DEF StageOf
    <3>. QED
      BY <1>n, <1>m, <2>0, <2>2, <3>2
  <2>. QED
    BY <1>13, <2>1, <2>2, FindEffect
<1>14. ASSUME NEW t \in Threads, NEW at \in {"list", "exact"}, find_matches(t, at)
       PROVE  StageInv'
  <2>0. UNCHANGED <<published, opened>> /\ job[t].at = at /\ job[t].op = "find"
    BY <1>14, ListEffect DEF routing, objects
  <2>1. CASE UNCHANGED <<find, found>> /\ Moves(t, Idle)
    BY <1>n, <1>i, <2>0, <2>1
  <2>2. ASSUME UNCHANGED <<find, found>>, NEW k, Moves(t, k), Keeps(k, job[t]), k.at = "exact"
        PROVE  StageInv'
    <3>1. StageOf(k, published, opened, found)
      BY <2>0, <2>2, <1>s DEF StageOf, Keeps
    <3>. QED
      BY <1>n, <1>m, <2>0, <2>2, <3>1
  <2>3. ASSUME found' = found + 1, NEW k, Moves(t, k), Keeps(k, job[t]), k.at = "carrier",
               k.o = found + 1
        PROVE  StageInv'
    <3>1. StageOf(k, published', opened', found')
      BY <2>0, <2>3, <1>s, <1>n DEF StageOf, Keeps
    <3>. QED
      BY <1>n, <1>m, <2>0, <2>3, <3>1
  <2>. QED
    BY <1>14, <2>1, <2>2, <2>3, ListEffect
<1>15. ASSUME NEW t \in Threads, insert_find(t) PROVE StageInv'
  <2>1. UNCHANGED <<published, opened, found>> /\ Moves(t, Idle)
    BY <1>15, InsertFindEffect DEF routing, objects
  <2>. QED
    BY <1>n, <1>i, <2>1
<1>16. ASSUME NEW t \in Threads, NEW h \in Handles, FindNextFileW(t, h) PROVE StageInv'
  <2>1. /\ UNCHANGED <<published, opened, found>> /\ engine \in Engines /\ finds[engine][h] # 0
        /\ \E k : Moves(t, k) /\ k.at = "next" /\ k.o = finds[engine][h]
    BY <1>16, NextEffect DEF routing, objects, searches
  <2>2. finds[engine][h] \in 1..found
    BY <2>1 DEF StoreInv, TypeOK
  <2>3. PICK k : Moves(t, k) /\ k.at = "next" /\ k.o = finds[engine][h]
    BY <2>1
  <2>4. StageOf(k, published, opened, found)
    BY <2>2, <2>3 DEF StageOf
  <2>. QED
    BY <1>n, <1>m, <2>1, <2>3, <2>4
<1>17. ASSUME NEW t \in Threads, GiveEntry(t) PROVE StageInv'
  <2>1. UNCHANGED <<published, opened, found>> /\ Moves(t, Idle)
    BY <1>17, GiveEffect DEF routing, objects
  <2>. QED
    BY <1>n, <1>i, <2>1
<1>18. ASSUME NEW t \in Threads, NEW p \in program.paths, NEW q \in program.paths,
              \/ PathQuery(t, p) \/ DeleteFileW(t, p) \/ CreateDirectoryW(t, p)
              \/ MoveFileExW(t, p, q)
       PROVE  StageInv'
  BY <1>18, <1>n, <1>i, PathEffect DEF routing, objects, searches
<1>19. CASE UNCHANGED vars
  BY <1>19, <1>n, <1>i DEF vars
<1>. QED
  BY <1>1, <1>2, <1>3, <1>4, <1>5, <1>6, <1>7, <1>8, <1>9, <1>10, <1>11, <1>12, <1>13, <1>14,
     <1>15, <1>16, <1>17, <1>18, <1>19 DEF Next

-----------------------------------------------------------------------------
(* What has not appeared yet is blank *)

LEMMA StoreStep ==
  TypeOK /\ StageInv /\ StoreInv /\ SearchInv /\ TypeOK' /\ [Next]_vars => StoreInv'
<1> SUFFICES ASSUME TypeOK, StageInv, StoreInv, SearchInv, TypeOK', [Next]_vars PROVE StoreInv'
  OBVIOUS
<1>n. /\ published \in Nat /\ opened \in Nat /\ found \in Nat /\ engine \in Nat
      /\ published' \in Nat /\ opened' \in Nat /\ found' \in Nat /\ engine' \in Nat
  BY DEF TypeOK
<1>e. \A e \in Engines, h \in Handles : files[e][h] \in Nat /\ finds[e][h] \in Nat
  BY DEF TypeOK
<1>g. /\ Engines \subseteq Nat /\ Opens \subseteq Nat /\ Finds \subseteq Nat
  BY WinAssumption DEF Engines, Opens, Finds
<1>u. ASSUME UNCHANGED <<engine, published, files, finds, open, opened, find, found, given>>
      PROVE  StoreInv'
  BY <1>u DEF StoreInv
<1>1. CASE try_activate
  <2>1. /\ engine' = published' /\ published' = published + 1
        /\ UNCHANGED <<files, finds, open, opened, find, found, given>>
    BY <1>1 DEF try_activate, registry, objects, searches
  <2>2. \A e \in Engines : e > published' => e > published
    BY <2>1, <1>n, <1>g
  <2>. QED
    BY <2>1, <2>2, <1>n DEF StoreInv
<1>2. CASE deactivate
  BY <1>2, <1>n DEF deactivate, StoreInv, registry, objects, searches
<1>3. ASSUME NEW t \in Threads, NEW p \in program.paths, NEW access, NEW disposition,
             NEW overlapped, CreateFileW(t, p, access, disposition, overlapped)
      PROVE  StoreInv'
  BY <1>3, <1>u, CreateEffect DEF routing, registry, objects, searches
<1>4. ASSUME NEW t \in Threads, OpenStream(t) PROVE StoreInv'
  BY <1>4, <1>u, OpenEffect DEF routing, registry, objects, searches
<1>5. ASSUME NEW t \in Threads, TruncateNode(t) PROVE StoreInv'
  <2> DEFINE R == [node : 0..MaxNodes, pos : Positions, writable : BOOLEAN, overlapped : BOOLEAN]
  <2>1. /\ UNCHANGED <<engine, published, files, finds, find, found, given>>
        /\ opened' = opened + 1 /\ opened + 1 \in Opens /\ job[t].o \in Nodes
        /\ \E r \in R : r.node = job[t].o /\ open' = [open EXCEPT ![opened + 1] = r]
    BY <1>5, TruncateEffect DEF routing, registry, searches
  <2>2. open \in [Opens -> R]
    BY DEF TypeOK
  <2> HIDE DEF R
  <2>3. ASSUME NEW o \in Opens
        PROVE  IF o <= opened' THEN open'[o].node \in Nodes ELSE open'[o] = NoOpen
    BY <2>1, <2>2, <1>n, <1>g DEF StoreInv
  <2>4. \A e \in Engines, h \in Handles : files'[e][h] <= opened'
    BY <2>1, <1>n, <1>e DEF StoreInv
  <2>. QED
    BY <2>1, <2>3, <2>4 DEF StoreInv
<1>6. ASSUME NEW t \in Threads, carrier_open(t) \/ carrier_find(t) PROVE StoreInv'
  BY <1>6, <1>u, CarrierEffect DEF routing, registry, objects, searches
<1>7. ASSUME NEW t \in Threads, insert_file(t) PROVE StoreInv'
  <2> DEFINE j == job[t]
  <2>1. /\ UNCHANGED <<engine, published, finds, open, opened, find, found, given>>
        /\ j.at = "insert" /\ j.op = "open" /\ files' = [files EXCEPT ![j.e][j.h] = j.o]
    BY <1>7 DEF insert_file, At, routing, objects, searches
  <2>2. /\ j.e \in Engines /\ j.e <= published /\ j.h \in Handles
        /\ j.o \in 1..opened /\ j.o \in 0..MaxOpens
    BY <2>1, InsertEffect
  <2>3. \A e \in Engines, h \in Handles :
          files'[e][h] = IF e = j.e /\ h = j.h THEN j.o ELSE files[e][h]
    BY <2>1, <2>2, EntrySet DEF TypeOK
  <2>4. ASSUME NEW e \in Engines, NEW h \in Handles
        PROVE  files'[e][h] <= opened /\ (e > published => files'[e][h] = 0)
    <3>1. files[e][h] <= opened /\ (e > published => files[e][h] = 0)
      BY DEF StoreInv
    <3>. QED
      BY <2>2, <2>3, <3>1, <1>n, <1>g
  <2>. QED
    BY <2>1, <2>4 DEF StoreInv
<1>8. ASSUME NEW t \in Threads, NEW h \in Handles,
             ReadFile(t, h) \/ WriteFile(t, h) \/ SetFilePointerEx(t, h) \/ SetFilePointer(t, h)
               \/ SetEndOfFile(t, h) \/ GetFileSize(t, h) \/ GetFileInformationByHandle(t, h)
               \/ FlushFileBuffers(t, h)
      PROVE  StoreInv'
  BY <1>8, <1>u, CallEffect DEF routing, registry, objects, searches
<1>p. ASSUME UNCHANGED <<engine, published, files, finds, opened, find, found, given>>,
             NEW o \in Opens, o <= opened, NEW p \in Positions, open' = [open EXCEPT ![o].pos = p]
      PROVE  StoreInv'
  <2>1. /\ \A x \in Opens : open'[x].node = open[x].node
        /\ \A x \in Opens : x # o => open'[x] = open[x]
    BY <1>p, PointerMoved
  <2>2. ASSUME NEW x \in Opens
        PROVE  IF x <= opened THEN open'[x].node \in Nodes ELSE open'[x] = NoOpen
    BY <1>p, <2>1 DEF StoreInv
  <2>. QED
    BY <1>p, <2>2 DEF StoreInv
<1>9. ASSUME NEW t \in Threads, LockFile(t) PROVE StoreInv'
  <2>1. /\ UNCHANGED <<engine, published, files, finds, opened, find, found, given>>
        /\ job[t].o \in Opens /\ job[t].o <= opened
        /\ UNCHANGED open \/ \E p \in Positions : open' = [open EXCEPT ![job[t].o].pos = p]
    BY <1>9, LockEffect DEF routing, registry, searches
  <2>. QED
    BY <2>1, <1>u, <1>p
<1>10. ASSUME NEW t \in Threads, ReadStream(t) \/ WriteStream(t) \/ SetLen(t) PROVE StoreInv'
  <2>1. /\ UNCHANGED <<engine, published, files, finds, opened, find, found, given>>
        /\ job[t].o \in Opens /\ job[t].o <= opened
        /\ UNCHANGED open \/ \E p \in Positions : open' = [open EXCEPT ![job[t].o].pos = p]
    BY <1>10, TransferEffect DEF routing, registry, searches
  <2>. QED
    BY <2>1, <1>u, <1>p
<1>11. ASSUME NEW t \in Threads, NEW h \in Handles, CloseHandle(t, h) \/ FindClose(t, h)
       PROVE  StoreInv'
  <2>1. /\ UNCHANGED <<engine, published, open, opened, find, found, given>>
        /\ \/ UNCHANGED <<files, finds>>
           \/ engine \in Engines /\ UNCHANGED finds /\ files' = [files EXCEPT ![engine][h] = 0]
           \/ engine \in Engines /\ UNCHANGED files /\ finds' = [finds EXCEPT ![engine][h] = 0]
    BY <1>11, CloseEffect DEF routing, registry, objects, searches
  <2>2. 0 \in 0..MaxOpens /\ 0 \in 0..MaxFinds
    BY WinAssumption
  <2>3. ASSUME NEW e \in Engines, NEW g \in Handles
        PROVE  files'[e][g] \in {0, files[e][g]} /\ finds'[e][g] \in {0, finds[e][g]}
    <3>1. CASE UNCHANGED <<files, finds>>
      BY <3>1
    <3>2. CASE engine \in Engines /\ UNCHANGED finds /\ files' = [files EXCEPT ![engine][h] = 0]
      BY <2>2, <3>2, EntrySet DEF TypeOK
    <3>3. CASE engine \in Engines /\ UNCHANGED files /\ finds' = [finds EXCEPT ![engine][h] = 0]
      BY <2>2, <3>3, EntrySet DEF TypeOK
    <3>. QED
      BY <2>1, <3>1, <3>2, <3>3
  <2>4. ASSUME NEW e \in Engines, NEW g \in Handles
        PROVE  /\ files'[e][g] <= opened /\ finds'[e][g] <= found
               /\ e > published => files'[e][g] = 0 /\ finds'[e][g] = 0
    BY <2>3, <1>n DEF StoreInv
  <2>. QED
    BY <2>1, <2>4 DEF StoreInv
<1>12. ASSUME NEW t \in Threads, CloseCarrier(t) PROVE StoreInv'
  BY <1>12, <1>u, CloseCarrierEffect DEF routing, registry, objects, searches
<1>13. ASSUME NEW t \in Threads, NEW p \in program.paths \cup {Star}, FindFirstFile(t, p)
       PROVE  StoreInv'
  BY <1>13, <1>u, FindEffect DEF routing, registry, objects, searches
<1>14. ASSUME NEW t \in Threads, NEW at \in {"list", "exact"}, find_matches(t, at)
       PROVE  StoreInv'
  <2>1. /\ UNCHANGED <<engine, published, files, finds, open, opened, given>>
        /\ \/ UNCHANGED <<find, found>>
           \/ /\ found' = found + 1 /\ found + 1 \in Finds
              /\ find' = [find EXCEPT ![found + 1].entries = Matches(job[t].path)]
    BY <1>14, ListEffect DEF routing, registry, objects
  <2>2. CASE UNCHANGED <<find, found>>
    BY <2>1, <2>2, <1>u
  <2>3. CASE /\ found' = found + 1 /\ found + 1 \in Finds
             /\ find' = [find EXCEPT ![found + 1].entries = Matches(job[t].path)]
    <3>1. \A x \in Finds : x # found + 1 => find'[x] = find[x]
      BY <2>3, MatchesFacts, EntriesSet
    <3>2. ASSUME NEW f \in Finds, f > found' PROVE find'[f] = NoFind /\ given'[f] = <<>>
      BY <2>1, <2>3, <3>1, <3>2, <1>n, <1>g DEF StoreInv
    <3>3. \A e \in Engines, h \in Handles : finds'[e][h] <= found'
      BY <2>1, <2>3, <1>n, <1>e DEF StoreInv
    <3>. QED
      BY <2>1, <3>2, <3>3 DEF StoreInv
  <2>. QED
    BY <2>1, <2>2, <2>3
<1>15. ASSUME NEW t \in Threads, insert_find(t) PROVE StoreInv'
  <2> DEFINE j == job[t]
             f == job[t].o
  <2>1. /\ UNCHANGED <<engine, published, files, open, opened, found>>
        /\ j.at = "insert" /\ j.op = "find" /\ finds' = [finds EXCEPT ![j.e][j.h] = f]
        /\ f \in Finds /\ Tail(find[f].entries) \in Seq(Names)
        /\ find' = [find EXCEPT ![f].entries = Tail(find[f].entries)]
        /\ given' = [given EXCEPT ![f] = Append(given[f], Head(find[f].entries))]
    BY <1>15, InsertFindEffect DEF routing, objects
  <2>2. /\ j.e \in Engines /\ j.e <= published /\ j.h \in Handles
        /\ f \in 1..found /\ f \in 0..MaxFinds
    BY <2>1, InsertEffect
  <2>3. \A e \in Engines, h \in Handles :
          finds'[e][h] = IF e = j.e /\ h = j.h THEN f ELSE finds[e][h]
    <3>1. finds \in [Engines -> [Handles -> 0..MaxFinds]]
      BY DEF TypeOK
    <3>. QED
      BY <2>1, <2>2, <3>1, EntrySet
  <2>4. ASSUME NEW e \in Engines, NEW h \in Handles
        PROVE  finds'[e][h] <= found /\ (e > published => finds'[e][h] = 0)
    <3>1. finds[e][h] <= found /\ (e > published => finds[e][h] = 0)
      BY DEF StoreInv
    <3>. QED
      BY <2>2, <2>3, <3>1, <1>n, <1>g
  <2>5. \A x \in Finds : x # f => find'[x] = find[x] /\ given'[x] = given[x]
    BY <2>1, EntriesSet DEF TypeOK
  <2>6. ASSUME NEW x \in Finds, x > found PROVE find'[x] = NoFind /\ given'[x] = <<>>
    BY <2>2, <2>5, <2>6, <1>n, <1>g DEF StoreInv
  <2>. QED
    BY <2>1, <2>4, <2>6 DEF StoreInv
<1>16. ASSUME NEW t \in Threads, NEW h \in Handles, FindNextFileW(t, h) PROVE StoreInv'
  BY <1>16, <1>u, NextEffect DEF routing, registry, objects, searches
<1>17. ASSUME NEW t \in Threads, GiveEntry(t) PROVE StoreInv'
  <2> DEFINE f == job[t].o
             n == find[f].next
  <2>1. /\ UNCHANGED <<engine, published, files, finds, open, opened, found>>
        /\ f \in Finds /\ f <= found /\ n \in Nat
        /\ \/ UNCHANGED <<given, find>>
           \/ /\ given' = [given EXCEPT ![f] = Append(given[f], find[f].entries[n + 1])]
              /\ find' = [find EXCEPT ![f].next = n + 1]
    BY <1>17, GiveEffect DEF routing, registry, objects
  <2>2. CASE UNCHANGED <<given, find>>
    BY <2>1, <2>2, <1>u
  <2>3. CASE /\ given' = [given EXCEPT ![f] = Append(given[f], find[f].entries[n + 1])]
             /\ find' = [find EXCEPT ![f].next = n + 1]
    <3>1. n + 1 \in Nat
      BY <2>1
    <3>2. \A x \in Finds : x # f => find'[x] = find[x] /\ given'[x] = given[x]
      BY <2>1, <2>3, <3>1, NextSet DEF TypeOK
    <3>3. ASSUME NEW x \in Finds, x > found PROVE find'[x] = NoFind /\ given'[x] = <<>>
      BY <2>1, <3>2, <3>3, <1>n, <1>g DEF StoreInv
    <3>. QED
      BY <2>1, <3>3 DEF StoreInv
  <2>. QED
    BY <2>1, <2>2, <2>3
<1>18. ASSUME NEW t \in Threads, NEW p \in program.paths, NEW q \in program.paths,
              \/ PathQuery(t, p) \/ DeleteFileW(t, p) \/ CreateDirectoryW(t, p)
              \/ MoveFileExW(t, p, q)
       PROVE  StoreInv'
  BY <1>18, <1>u, PathEffect DEF routing, registry, objects, searches
<1>19. CASE UNCHANGED vars
  BY <1>19, <1>u DEF vars
<1>. QED
  BY <1>1, <1>2, <1>3, <1>4, <1>5, <1>6, <1>7, <1>8, <1>9, <1>10, <1>11, <1>12, <1>13, <1>14,
     <1>15, <1>16, <1>17, <1>18, <1>19 DEF Next

-----------------------------------------------------------------------------
(* Who has a handle *)

(* A step that leaves the handles alone, and after which its caller has    *)
(* none of its own.                                                        *)
LEMMA OwnersKept ==
  ASSUME TypeOK, OwnerInv, UNCHANGED <<table, held>>,
         \/ UNCHANGED job
         \/ \E t \in Threads : \E k : Moves(t, k) /\ k.at \notin {"insert", "close"}
  PROVE  OwnerInv'
<1>1. CASE UNCHANGED job
  BY <1>1 DEF OwnerInv, Owner
<1>2. ASSUME NEW t \in Threads, NEW k, Moves(t, k), k.at \notin {"insert", "close"}
      PROVE  OwnerInv'
  <2>1. \A u \in Threads : Owner(u)' => u # t /\ job'[u] = job[u] /\ Owner(u)
    BY <1>2 DEF Moves, Owner
  <2>2. \A u \in Threads : job'[u].at = "insert" => Owner(u)'
    BY DEF Owner
  <2>. QED
    BY <2>1, <2>2 DEF OwnerInv
<1>. QED
  BY <1>1, <1>2

(* A step about one handle, which is no other caller's. *)
LEMMA OwnersMoved ==
  ASSUME TypeOK, TypeOK', StageInv, OwnerInv, NEW t \in Threads, NEW k, Moves(t, k),
         NEW h \in Handles,
         \A g \in Handles : g # h => table'[g] = table[g] /\ held'[g] = held[g],
         \A u \in Threads : u # t /\ Owner(u) => job[u].h # h,
         k.at \in {"insert", "close"} => k.h = h /\ held'[h] = "none" /\ table'[h] # "free",
         k.at = "insert" => table'[h] = IF k.op = "open" THEN "nul" ELSE "search",
         held'[h] # "none" => table'[h] # "free"
  PROVE  OwnerInv'
<1>1. \A u \in Threads : u # t => job'[u] = job[u] /\ (Owner(u)' <=> Owner(u))
  BY DEF Moves, Owner
<1>2. job'[t] = k /\ (Owner(t)' <=> k.at \in {"insert", "close"})
  BY DEF Moves, Owner
<1>3. \A u \in Threads : Owner(u) => job[u].h \in Handles
  BY DEF StageInv, StageOf, Owner
<1>4. ASSUME NEW u \in Threads, u # t, Owner(u)
      PROVE  /\ job'[u].h = job[u].h /\ job'[u].h # h
             /\ held'[job'[u].h] = "none" /\ table'[job'[u].h] # "free"
             /\ table'[job'[u].h] = table[job[u].h]
  BY <1>1, <1>3, <1>4 DEF OwnerInv
<1>5. ASSUME NEW u \in Threads, Owner(u)'
      PROVE  held'[job'[u].h] = "none" /\ table'[job'[u].h] # "free"
  BY <1>1, <1>2, <1>4, <1>5
<1>6. ASSUME NEW u \in Threads, job'[u].at = "insert"
      PROVE  table'[job'[u].h] = IF job'[u].op = "open" THEN "nul" ELSE "search"
  <2>1. CASE u = t
    BY <1>2, <1>6, <2>1
  <2>2. CASE u # t
    <3>1. Owner(u) /\ job[u].at = "insert" /\ job'[u] = job[u]
      BY <1>1, <1>6, <2>2 DEF Owner
    <3>. QED
      BY <1>4, <2>2, <3>1 DEF OwnerInv
  <2>. QED
    BY <2>1, <2>2
<1>7. ASSUME NEW u \in Threads, NEW v \in Threads, Owner(u)', Owner(v)', job'[u].h = job'[v].h
      PROVE  u = v
  <2>1. CASE u = t \/ v = t
    BY <1>1, <1>2, <1>4, <1>7, <2>1
  <2>2. CASE u # t /\ v # t
    <3>1. Owner(u) /\ Owner(v) /\ job[u].h = job[v].h
      BY <1>1, <1>7, <2>2
    <3>. QED
      BY <3>1 DEF OwnerInv
  <2>. QED
    BY <2>1, <2>2
<1>8. ASSUME NEW g \in Handles, held'[g] # "none" PROVE table'[g] # "free"
  BY <1>8 DEF OwnerInv
<1>. QED
  BY <1>5, <1>6, <1>7, <1>8 DEF OwnerInv, Owner

(* CreateFile and FindFirstFile on the disk: the handle was nobody's. *)
LEMMA KernelOpens ==
  ASSUME TypeOK, TypeOK', StageInv, OwnerInv, EntryInv,
         NEW what \in {"file", "search"}, KernelOpen("real", what),
         UNCHANGED <<engine, files, finds, job>>
  PROVE  OwnerInv' /\ EntryInv'
<1>1. CASE UNCHANGED kernel
  <2>1. UNCHANGED <<table, held>>
    BY <1>1 DEF kernel
  <2>2. OwnerInv'
    BY <2>1, OwnersKept
  <2>3. EntryInv'
    BY <2>1 DEF EntryInv
  <2>. QED
    BY <2>2, <2>3
<1>2. ASSUME NEW h \in Handles, table[h] = "free", table' = [table EXCEPT ![h] = "real"],
             held' = [held EXCEPT ![h] = what]
      PROVE  OwnerInv' /\ EntryInv'
  <2>1. /\ \A g \in Handles : g # h => table'[g] = table[g] /\ held'[g] = held[g]
        /\ table'[h] = "real" /\ held'[h] = what
    BY <1>2 DEF TypeOK
  <2>2. \A u \in Threads : Owner(u) => job[u].h # h
    BY <1>2 DEF OwnerInv
  <2>3. OwnerInv'
    <3>1. ASSUME NEW u \in Threads, Owner(u)
          PROVE  /\ job[u].h \in Handles /\ job[u].h # h
                 /\ held'[job[u].h] = held[job[u].h] /\ table'[job[u].h] = table[job[u].h]
      BY <2>1, <2>2, <3>1 DEF StageInv, StageOf, Owner
    <3>2. \A u \in Threads : job'[u] = job[u] /\ (Owner(u)' <=> Owner(u))
      BY DEF Owner
    <3>3. \A u \in Threads : job[u].at = "insert" => Owner(u)
      BY DEF Owner
    <3>4. \A g \in Handles : held'[g] # "none" => table'[g] # "free"
      BY <2>1 DEF OwnerInv
    <3>. QED
      BY <3>1, <3>2, <3>3, <3>4 DEF OwnerInv
  <2>4. EntryInv'
    BY <1>2, <2>1 DEF EntryInv
  <2>. QED
    BY <2>3, <2>4
<1>. QED
  BY <1>1, <1>2 DEF KernelOpen

LEMMA EntryStep ==
  ASSUME TypeOK, StageInv, StoreInv, SearchInv, OwnerInv, EntryInv, TypeOK', [Next]_vars
  PROVE  OwnerInv' /\ EntryInv'
<1>u. ASSUME UNCHANGED <<engine, files, finds, table, held>>,
             \/ UNCHANGED job
             \/ \E t \in Threads : \E k : Moves(t, k) /\ k.at \notin {"insert", "close"}
      PROVE  OwnerInv' /\ EntryInv'
  <2>1. OwnerInv'
    BY <1>u, OwnersKept
  <2>2. EntryInv'
    BY <1>u DEF EntryInv
  <2>. QED
    BY <2>1, <2>2
<1>i. Idle.at \notin {"insert", "close"}
  BY IdleType
<1>e. engine # 0 => engine \in Engines
  BY WinAssumption DEF TypeOK, Engines
<1>1. CASE try_activate
  <2>1. /\ engine' = published + 1 /\ UNCHANGED <<files, finds, table, held, job>>
    BY <1>1 DEF try_activate, registry, kernel
  <2>2. OwnerInv'
    BY <2>1, OwnersKept
  <2>3. engine' \in Engines /\ engine' > published
    BY <2>1, WinAssumption DEF TypeOK, Engines
  <2>4. \A h \in Handles : files'[engine'][h] = 0 /\ finds'[engine'][h] = 0
    BY <2>1, <2>3 DEF StoreInv
  <2>5. EntryInv'
    BY <2>4 DEF EntryInv
  <2>. QED
    BY <2>2, <2>5
<1>2. CASE deactivate
  <2>1. engine' = 0 /\ UNCHANGED <<files, finds, table, held, job>>
    BY <1>2 DEF deactivate, registry, kernel
  <2>2. OwnerInv'
    BY <2>1, OwnersKept
  <2>3. EntryInv'
    BY <2>1 DEF EntryInv
  <2>. QED
    BY <2>2, <2>3
<1>3. ASSUME NEW t \in Threads, NEW p \in program.paths, NEW access, NEW disposition,
             NEW overlapped, CreateFileW(t, p, access, disposition, overlapped)
      PROVE  OwnerInv' /\ EntryInv'
  <2>0. UNCHANGED <<engine, files, finds>>
    BY <1>3, CreateEffect DEF routing, registry
  <2>1. CASE UNCHANGED job /\ KernelOpen("real", "file")
    BY <2>0, <2>1, KernelOpens
  <2>2. CASE UNCHANGED kernel /\ \E k : Moves(t, k) /\ k.at = "vfs"
    <3>1. UNCHANGED <<table, held>>
      BY <2>2 DEF kernel
    <3>2. \E k : Moves(t, k) /\ k.at \notin {"insert", "close"}
      BY <2>2
    <3>. QED
      BY <2>0, <3>1, <3>2, <1>u
  <2>. QED
    BY <1>3, <2>1, <2>2, CreateEffect
<1>4. ASSUME NEW t \in Threads, OpenStream(t) PROVE OwnerInv' /\ EntryInv'
  <2>1. /\ UNCHANGED <<engine, files, finds, table, held>>
        /\ Moves(t, Idle) \/ \E k : Moves(t, k) /\ k.at = "truncate"
    BY <1>4, OpenEffect DEF routing, registry, kernel
  <2>2. \E k : Moves(t, k) /\ k.at \notin {"insert", "close"}
    BY <2>1, <1>i
  <2>. QED
    BY <2>1, <2>2, <1>u
<1>5. ASSUME NEW t \in Threads, TruncateNode(t) PROVE OwnerInv' /\ EntryInv'
  <2>1. /\ UNCHANGED <<engine, files, finds, table, held>>
        /\ \E k : Moves(t, k) /\ k.at = "carrier"
    BY <1>5, TruncateEffect DEF routing, registry, kernel
  <2>2. \E k : Moves(t, k) /\ k.at \notin {"insert", "close"}
    BY <2>1
  <2>. QED
    BY <2>1, <2>2, <1>u
<1>6. ASSUME NEW t \in Threads, carrier_open(t) \/ carrier_find(t) PROVE OwnerInv' /\ EntryInv'
  <2>0. UNCHANGED <<engine, files, finds, held>>
    BY <1>6, CarrierEffect DEF routing, registry
  <2>1. CASE Moves(t, Idle) /\ UNCHANGED table
    BY <2>0, <2>1, <1>i, <1>u
  <2>2. ASSUME NEW h \in Handles, NEW k, table[h] = "free", Moves(t, k), Keeps(k, job[t]),
               k.at = "insert", k.h = h,
               table' = [table EXCEPT ![h] = IF job[t].op = "open" THEN "nul" ELSE "search"]
        PROVE  OwnerInv' /\ EntryInv'
    <3>1. /\ \A g \in Handles : g # h => table'[g] = table[g] /\ held'[g] = held[g]
          /\ table'[h] = IF k.op = "open" THEN "nul" ELSE "search"
          /\ held'[h] = held[h]
      BY <2>0, <2>2 DEF TypeOK, Keeps
    <3>2. \A u \in Threads : Owner(u) => job[u].h # h
      BY <2>2 DEF OwnerInv
    <3>3. held[h] = "none"
      BY <2>2 DEF OwnerInv
    <3>4. OwnerInv'
      BY <2>2, <3>1, <3>2, <3>3, OwnersMoved
    <3>5. EntryInv'
      BY <2>0, <2>2, <3>1 DEF EntryInv
    <3>. QED
      BY <3>4, <3>5
  <2>. QED
    BY <1>6, <2>1, <2>2, CarrierEffect
<1>in. ASSUME NEW t \in Threads, job[t].at = "insert", Moves(t, Idle), UNCHANGED <<engine, table>>,
              NEW what \in {"file", "search"}, held' = [held EXCEPT ![job[t].h] = what],
              job[t].op = "open" <=> what = "file",
              \A g \in Handles : engine # 0 /\ g # job[t].h =>
                /\ files'[engine][g] = files[engine][g]
                /\ finds'[engine][g] = finds[engine][g],
              engine # 0 =>
                /\ files'[engine][job[t].h] # 0 => what = "file" \/ files[engine][job[t].h] # 0
                /\ finds'[engine][job[t].h] # 0 => what = "search" \/ finds[engine][job[t].h] # 0
       PROVE  OwnerInv' /\ EntryInv'
  <2> DEFINE h == job[t].h
  <2>1. h \in Handles
    BY <1>in, InsertEffect
  <2>2. /\ \A g \in Handles : g # h => table'[g] = table[g] /\ held'[g] = held[g]
        /\ table'[h] = table[h] /\ held'[h] = what
    BY <1>in, <2>1 DEF TypeOK
  <2>3. /\ held[h] = "none" /\ table[h] # "free"
        /\ table[h] = IF what = "file" THEN "nul" ELSE "search"
        /\ \A u \in Threads : u # t /\ Owner(u) => job[u].h # h
    BY <1>in DEF OwnerInv, Owner
  <2>4. OwnerInv'
    <3>1. Moves(t, Idle) /\ Idle.at \notin {"insert", "close"}
      BY <1>in, <1>i
    <3>. QED
      BY <2>1, <2>2, <2>3, <3>1, OwnersMoved
  <2>5. EntryInv'
    <3> SUFFICES ASSUME engine # 0, NEW g \in Handles
                 PROVE  /\ files'[engine][g] # 0 => table'[g] = "nul" /\ held'[g] = "file"
                        /\ finds'[engine][g] # 0 => table'[g] = "search" /\ held'[g] = "search"
      BY <1>in DEF EntryInv
    <3>1. CASE g = h
      <4>1. files[engine][h] = 0 /\ finds[engine][h] = 0
        BY <2>1, <2>3 DEF EntryInv
      <4>. QED
        BY <1>in, <2>2, <2>3, <3>1, <4>1
    <3>2. CASE g # h
      BY <1>in, <2>2, <3>2 DEF EntryInv
    <3>. QED
      BY <3>1, <3>2
  <2>. QED
    BY <2>4, <2>5
<1>7. ASSUME NEW t \in Threads, insert_file(t) PROVE OwnerInv' /\ EntryInv'
  <2> DEFINE j == job[t]
  <2>1. /\ UNCHANGED <<engine, finds, table>> /\ held' = [held EXCEPT ![j.h] = "file"]
        /\ j.at = "insert" /\ j.op = "open" /\ files' = [files EXCEPT ![j.e][j.h] = j.o]
    BY <1>7 DEF insert_file, At, routing
  <2>2. j.e \in Engines /\ j.h \in Handles /\ j.o \in 0..MaxOpens
    BY <2>1, InsertEffect
  <2>3. Moves(t, Idle)
    BY <1>7, MovesIdle DEF insert_file
  <2>4. \A e \in Engines, g \in Handles :
          files'[e][g] = IF e = j.e /\ g = j.h THEN j.o ELSE files[e][g]
    <3>1. files \in [Engines -> [Handles -> 0..MaxOpens]]
      BY DEF TypeOK
    <3>. QED
      BY <2>1, <2>2, <3>1, EntrySet
  <2>5. \A g \in Handles : engine # 0 /\ g # j.h =>
          files'[engine][g] = files[engine][g] /\ finds'[engine][g] = finds[engine][g]
    BY <2>1, <2>4, <1>e
  <2>. QED
    BY <2>1, <2>3, <2>5, <1>in
<1>8. ASSUME NEW t \in Threads, NEW h \in Handles,
             ReadFile(t, h) \/ WriteFile(t, h) \/ SetFilePointerEx(t, h) \/ SetFilePointer(t, h)
               \/ SetEndOfFile(t, h) \/ GetFileSize(t, h) \/ GetFileInformationByHandle(t, h)
               \/ FlushFileBuffers(t, h)
      PROVE  OwnerInv' /\ EntryInv'
  <2>1. /\ UNCHANGED <<engine, files, finds, table, held>> /\ \E k : Moves(t, k) /\ k.at = "lock"
    BY <1>8, CallEffect DEF routing, registry, kernel
  <2>2. \E k : Moves(t, k) /\ k.at \notin {"insert", "close"}
    BY <2>1
  <2>. QED
    BY <2>1, <2>2, <1>u
<1>9. ASSUME NEW t \in Threads, LockFile(t) PROVE OwnerInv' /\ EntryInv'
  <2>1. /\ UNCHANGED <<engine, files, finds, table, held>>
        /\ Moves(t, Idle) \/ \E k : Moves(t, k) /\ k.at \in {"transfer", "set_len"}
    BY <1>9, LockEffect DEF routing, registry, kernel
  <2>2. \E k : Moves(t, k) /\ k.at \notin {"insert", "close"}
    BY <2>1, <1>i
  <2>. QED
    BY <2>1, <2>2, <1>u
<1>10. ASSUME NEW t \in Threads, ReadStream(t) \/ WriteStream(t) \/ SetLen(t)
       PROVE  OwnerInv' /\ EntryInv'
  <2>1. UNCHANGED <<engine, files, finds, table, held>> /\ Moves(t, Idle)
    BY <1>10, TransferEffect DEF routing, registry, kernel
  <2>. QED
    BY <2>1, <1>i, <1>u
<1>11. ASSUME NEW t \in Threads, NEW h \in Handles, CloseHandle(t, h) \/ FindClose(t, h)
       PROVE  OwnerInv' /\ EntryInv'
  <2>0. UNCHANGED engine /\ held[h] # "none" /\ held' = [held EXCEPT ![h] = "none"]
        /\ job[t] = Idle
    BY <1>11, CloseEffect DEF routing
  <2>1. /\ \A g \in Handles : g # h => held'[g] = held[g]
        /\ held'[h] = "none"
    BY <2>0 DEF TypeOK
  <2>2. \A u \in Threads : Owner(u) => job[u].h # h
    BY <2>0 DEF OwnerInv
  <2>3. table[h] # "free" /\ held[h] \in {"file", "search"}
    BY <2>0 DEF OwnerInv, TypeOK, Holdings
  <2>4. CASE /\ UNCHANGED <<registry, job>> /\ table' = [table EXCEPT ![h] = "free"]
             /\ held[h] = "file" => get_file(h) = 0
             /\ held[h] = "search" => get_find(h) = 0
    <3>1. /\ \A g \in Handles : g # h => table'[g] = table[g] /\ held'[g] = held[g]
          /\ table'[h] = "free" /\ UNCHANGED <<files, finds>>
      BY <2>1, <2>4 DEF TypeOK, registry
    <3>2. Moves(t, Idle) /\ Idle.at \notin {"insert", "close"}
      BY <2>0, <2>4, <1>i, IdleType DEF Moves, TypeOK
    <3>3. OwnerInv'
      BY <2>1, <2>2, <3>1, <3>2, OwnersMoved
    <3>4. engine # 0 => files[engine][h] = 0 /\ finds[engine][h] = 0
      BY <2>3, <2>4 DEF EntryInv, get_file, get_find
    <3>5. EntryInv'
      BY <2>0, <3>1, <3>4 DEF EntryInv
    <3>. QED
      BY <3>3, <3>5
  <2>5. ASSUME UNCHANGED table, engine \in Engines, NEW k, Moves(t, k), k.at = "close", k.h = h,
               \/ held[h] = "file" /\ UNCHANGED finds /\ files' = [files EXCEPT ![engine][h] = 0]
               \/ held[h] = "search" /\ UNCHANGED files /\ finds' = [finds EXCEPT ![engine][h] = 0]
        PROVE  OwnerInv' /\ EntryInv'
    <3>1. \A g \in Handles : g # h => table'[g] = table[g] /\ held'[g] = held[g]
      BY <2>1, <2>5
    <3>2. OwnerInv'
      BY <2>1, <2>2, <2>3, <2>5, <3>1, OwnersMoved
    <3>3. engine # 0 /\ 0 \in 0..MaxOpens /\ 0 \in 0..MaxFinds
      BY <2>5, WinAssumption DEF Engines
    <3>4. \A g \in Handles : g # h =>
            files'[engine][g] = files[engine][g] /\ finds'[engine][g] = finds[engine][g]
      <4>1. CASE UNCHANGED finds /\ files' = [files EXCEPT ![engine][h] = 0]
        BY <2>5, <3>3, <4>1, EntrySet DEF TypeOK
      <4>2. CASE UNCHANGED files /\ finds' = [finds EXCEPT ![engine][h] = 0]
        BY <2>5, <3>3, <4>2, EntrySet DEF TypeOK
      <4>. QED
        BY <2>5, <4>1, <4>2
    <3>5. files'[engine][h] = 0 /\ finds'[engine][h] = 0
      <4>1. CASE held[h] = "file" /\ UNCHANGED finds /\ files' = [files EXCEPT ![engine][h] = 0]
        <5>1. finds[engine][h] = 0
          BY <3>3, <4>1 DEF EntryInv
        <5>. QED
          BY <2>5, <4>1, <5>1 DEF TypeOK
      <4>2. CASE held[h] = "search" /\ UNCHANGED files /\ finds' = [finds EXCEPT ![engine][h] = 0]
        <5>1. files[engine][h] = 0
          BY <3>3, <4>2 DEF EntryInv
        <5>. QED
          BY <2>5, <4>2, <5>1 DEF TypeOK
      <4>. QED
        BY <2>5, <4>1, <4>2
    <3>6. EntryInv'
      BY <2>0, <3>1, <3>4, <3>5 DEF EntryInv
    <3>. QED
      BY <3>2, <3>6
  <2>. QED
    BY <1>11, <2>4, <2>5, CloseEffect
<1>12. ASSUME NEW t \in Threads, CloseCarrier(t) PROVE OwnerInv' /\ EntryInv'
  <2> DEFINE h == job[t].h
  <2>1. /\ UNCHANGED <<engine, files, finds, held>> /\ job[t].at = "close" /\ h \in Handles
        /\ Moves(t, Idle) /\ table' = [table EXCEPT ![h] = "free"]
    BY <1>12, CloseCarrierEffect DEF routing, registry
  <2>2. /\ \A g \in Handles : g # h => table'[g] = table[g] /\ held'[g] = held[g]
        /\ held'[h] = held[h]
    BY <2>1 DEF TypeOK
  <2>3. held[h] = "none" /\ \A u \in Threads : u # t /\ Owner(u) => job[u].h # h
    BY <2>1 DEF OwnerInv, Owner
  <2>4. OwnerInv'
    BY <2>1, <2>2, <2>3, <1>i, OwnersMoved
  <2>5. engine # 0 => files[engine][h] = 0 /\ finds[engine][h] = 0
    BY <2>1, <2>3 DEF EntryInv
  <2>6. EntryInv'
    BY <2>1, <2>2, <2>5 DEF EntryInv
  <2>. QED
    BY <2>4, <2>6
<1>13. ASSUME NEW t \in Threads, NEW p \in program.paths \cup {Star}, FindFirstFile(t, p)
       PROVE  OwnerInv' /\ EntryInv'
  <2>0. UNCHANGED <<engine, files, finds>>
    BY <1>13, FindEffect DEF routing, registry
  <2>1. CASE UNCHANGED job /\ KernelOpen("real", "search")
    BY <2>0, <2>1, KernelOpens
  <2>2. CASE UNCHANGED kernel /\ \E k : Moves(t, k) /\ k.at = "list"
    <3>1. UNCHANGED <<table, held>>
      BY <2>2 DEF kernel
    <3>2. \E k : Moves(t, k) /\ k.at \notin {"insert", "close"}
      BY <2>2
    <3>. QED
      BY <2>0, <3>1, <3>2, <1>u
  <2>. QED
    BY <1>13, <2>1, <2>2, FindEffect
<1>14. ASSUME NEW t \in Threads, NEW at \in {"list", "exact"}, find_matches(t, at)
       PROVE  OwnerInv' /\ EntryInv'
  <2>1. /\ UNCHANGED <<engine, files, finds, table, held>>
        /\ Moves(t, Idle) \/ \E k : Moves(t, k) /\ k.at \in {"exact", "carrier"}
    BY <1>14, ListEffect DEF routing, registry, kernel
  <2>2. \E k : Moves(t, k) /\ k.at \notin {"insert", "close"}
    BY <2>1, <1>i
  <2>. QED
    BY <2>1, <2>2, <1>u
<1>15. ASSUME NEW t \in Threads, insert_find(t) PROVE OwnerInv' /\ EntryInv'
  <2> DEFINE j == job[t]
  <2>1. /\ UNCHANGED <<engine, files, table>> /\ held' = [held EXCEPT ![j.h] = "search"]
        /\ j.at = "insert" /\ j.op = "find" /\ finds' = [finds EXCEPT ![j.e][j.h] = j.o]
        /\ Moves(t, Idle)
    BY <1>15, InsertFindEffect DEF routing
  <2>2. j.e \in Engines /\ j.h \in Handles /\ j.o \in 0..MaxFinds
    BY <2>1, InsertEffect
  <2>3. finds \in [Engines -> [Handles -> 0..MaxFinds]]
    BY DEF TypeOK
  <2>4. \A e \in Engines, g \in Handles :
          finds'[e][g] = IF e = j.e /\ g = j.h THEN j.o ELSE finds[e][g]
    BY <2>1, <2>2, <2>3, EntrySet
  <2>5. \A g \in Handles : engine # 0 /\ g # j.h =>
          files'[engine][g] = files[engine][g] /\ finds'[engine][g] = finds[engine][g]
    BY <2>1, <2>4, <1>e
  <2>. QED
    BY <2>1, <2>5, <1>in
<1>16. ASSUME NEW t \in Threads, NEW h \in Handles, FindNextFileW(t, h)
       PROVE  OwnerInv' /\ EntryInv'
  <2>1. /\ UNCHANGED <<engine, files, finds, table, held>> /\ \E k : Moves(t, k) /\ k.at = "next"
    BY <1>16, NextEffect DEF routing, registry, kernel
  <2>2. \E k : Moves(t, k) /\ k.at \notin {"insert", "close"}
    BY <2>1
  <2>. QED
    BY <2>1, <2>2, <1>u
<1>17. ASSUME NEW t \in Threads, GiveEntry(t) PROVE OwnerInv' /\ EntryInv'
  <2>1. UNCHANGED <<engine, files, finds, table, held>> /\ Moves(t, Idle)
    BY <1>17, GiveEffect DEF routing, registry, kernel
  <2>. QED
    BY <2>1, <1>i, <1>u
<1>18. ASSUME NEW t \in Threads, NEW p \in program.paths, NEW q \in program.paths,
              \/ PathQuery(t, p) \/ DeleteFileW(t, p) \/ CreateDirectoryW(t, p)
              \/ MoveFileExW(t, p, q)
       PROVE  OwnerInv' /\ EntryInv'
  BY <1>18, <1>u, PathEffect DEF routing, registry, kernel
<1>19. CASE UNCHANGED vars
  BY <1>19, <1>u DEF vars
<1>. QED
  BY <1>1, <1>2, <1>3, <1>4, <1>5, <1>6, <1>7, <1>8, <1>9, <1>10, <1>11, <1>12, <1>13, <1>14,
     <1>15, <1>16, <1>17, <1>18, <1>19 DEF Next

-----------------------------------------------------------------------------
(* The lock of an OpenFile *)

(* What a step does that leaves the locks alone: its caller is not one     *)
(* that holds a lock, before or after, and the pointers under a lock stay. *)
LEMMA LocksKept ==
  ASSUME TypeOK, LockInv, UNCHANGED holder,
         \A o \in Opens : holder[o] # NoThread => open'[o].pos = open[o].pos,
         \/ UNCHANGED job
         \/ \E t \in Threads : \E k : Moves(t, k) /\ ~Locked(t) /\ k.at \notin {"transfer", "set_len"},
         StageInv
  PROVE  LockInv'
<1>1. ASSUME NEW u \in Threads, Locked(u)
      PROVE  /\ job'[u] = job[u] /\ job[u].o \in Opens
             /\ open'[job[u].o].pos = open[job[u].o].pos
  <2>1. job'[u] = job[u]
    BY <1>1 DEF Moves
  <2>2. job[u].o \in Opens
    BY <1>1, OpenedFile DEF Locked
  <2>3. holder[job[u].o] = u /\ u # NoThread
    BY <1>1, WinAssumption DEF LockInv
  <2>. QED
    BY <2>1, <2>2, <2>3
<1>2. ASSUME NEW u \in Threads, Locked(u)' PROVE Locked(u)
  BY <1>2 DEF Locked, Moves
<1>3. \A u \in Threads : /\ job[u].at = "transfer" => Locked(u)
                         /\ job[u].at = "set_len" => Locked(u)
                         /\ job'[u].at = "transfer" => Locked(u)'
                         /\ job'[u].at = "set_len" => Locked(u)'
  BY DEF Locked
<1>4. \A u \in Threads : Locked(u)' => holder'[job'[u].o] = u
  BY <1>1, <1>2 DEF LockInv
<1>5. \A o \in Opens : holder'[o] # NoThread =>
        job'[holder'[o]].at \in {"transfer", "set_len"} /\ job'[holder'[o]].o = o
  <2> SUFFICES ASSUME NEW o \in Opens, holder[o] # NoThread
               PROVE  job'[holder[o]].at \in {"transfer", "set_len"} /\ job'[holder[o]].o = o
    OBVIOUS
  <2>1. holder[o] \in Threads /\ Locked(holder[o]) /\ job[holder[o]].o = o
    BY DEF TypeOK, LockInv
  <2>. QED
    BY <1>1, <2>1 DEF Locked
<1>6. ASSUME NEW u \in Threads, job'[u].at = "transfer"
      PROVE  /\ job'[u].op \in {"read", "write"}
             /\ open'[job'[u].o].pos = job'[u].off + IF job'[u].method = 0 THEN 0 ELSE job'[u].was
  <2>1. Locked(u) /\ job'[u] = job[u] /\ open'[job[u].o].pos = open[job[u].o].pos
    BY <1>1, <1>2, <1>3, <1>6
  <2>. QED
    BY <1>6, <2>1 DEF LockInv
<1>7. ASSUME NEW u \in Threads, job'[u].at = "set_len"
      PROVE  job'[u].op = "end" /\ open'[job'[u].o].pos = job'[u].was
  <2>1. Locked(u) /\ job'[u] = job[u] /\ open'[job[u].o].pos = open[job[u].o].pos
    BY <1>1, <1>2, <1>3, <1>7
  <2>. QED
    BY <1>7, <2>1 DEF LockInv
<1>. QED
  BY <1>4, <1>5, <1>6, <1>7 DEF LockInv, Locked

(* The lock is taken: the pointer is where the call put it. *)
LEMMA LockTaken ==
  ASSUME TypeOK, StageInv, LockInv, NEW t \in Threads, NEW k, Moves(t, k), NEW o \in Opens,
         ~Locked(t), holder[o] = NoThread, holder' = [holder EXCEPT ![o] = t], k.o = o,
         \A x \in Opens : x # o => open'[x] = open[x],
         \/ /\ k.at = "transfer" /\ k.op \in {"read", "write"}
            /\ open'[o].pos = k.off + IF k.method = 0 THEN 0 ELSE k.was
         \/ k.at = "set_len" /\ k.op = "end" /\ open'[o].pos = k.was
  PROVE  LockInv'
<1>1. /\ \A u \in Threads : u # t => job'[u] = job[u] /\ (Locked(u)' <=> Locked(u))
      /\ job'[t] = k /\ Locked(t)' /\ holder'[o] = t
      /\ \A x \in Opens : x # o => holder'[x] = holder[x]
  BY DEF Moves, Locked, TypeOK
<1>2. ASSUME NEW u \in Threads, Locked(u)
      PROVE  u # t /\ job[u].o \in Opens /\ job[u].o # o /\ holder[job[u].o] = u
             /\ open'[job[u].o] = open[job[u].o]
  <2>1. job[u].o \in Opens
    BY <1>2, OpenedFile DEF Locked
  <2>. QED
    BY <1>2, <2>1, WinAssumption DEF LockInv
<1>3. ASSUME NEW u \in Threads, Locked(u)' PROVE holder'[job'[u].o] = u
  BY <1>1, <1>2, <1>3
<1>4. ASSUME NEW x \in Opens, holder'[x] # NoThread
      PROVE  job'[holder'[x]].at \in {"transfer", "set_len"} /\ job'[holder'[x]].o = x
  <2>1. CASE x = o
    BY <1>1, <2>1 DEF Locked
  <2>2. CASE x # o
    <3>1. holder'[x] = holder[x] /\ holder[x] \in Threads /\ Locked(holder[x])
          /\ job[holder[x]].o = x
      BY <1>1, <1>4, <2>2 DEF TypeOK, LockInv
    <3>2. holder[x] # t
      BY <3>1
    <3>. QED
      BY <1>1, <3>1, <3>2 DEF Locked
  <2>. QED
    BY <2>1, <2>2
<1>5. ASSUME NEW u \in Threads, job'[u].at = "transfer"
      PROVE  /\ job'[u].op \in {"read", "write"}
             /\ open'[job'[u].o].pos = job'[u].off + IF job'[u].method = 0 THEN 0 ELSE job'[u].was
  <2>1. CASE u = t
    BY <1>1, <1>5, <2>1
  <2>2. CASE u # t
    <3>1. job'[u] = job[u] /\ job[u].at = "transfer" /\ Locked(u)
      BY <1>1, <1>5, <2>2 DEF Locked
    <3>. QED
      BY <1>2, <3>1 DEF LockInv
  <2>. QED
    BY <2>1, <2>2
<1>6. ASSUME NEW u \in Threads, job'[u].at = "set_len"
      PROVE  job'[u].op = "end" /\ open'[job'[u].o].pos = job'[u].was
  <2>1. CASE u = t
    BY <1>1, <1>6, <2>1
  <2>2. CASE u # t
    <3>1. job'[u] = job[u] /\ job[u].at = "set_len" /\ Locked(u)
      BY <1>1, <1>6, <2>2 DEF Locked
    <3>. QED
      BY <1>2, <3>1 DEF LockInv
  <2>. QED
    BY <2>1, <2>2
<1>. QED
  BY <1>3, <1>4, <1>5, <1>6 DEF LockInv, Locked

(* The lock is let go, and the pointer may have moved. *)
LEMMA LockFreed ==
  ASSUME TypeOK, StageInv, LockInv, NEW t \in Threads, Moves(t, Idle), Locked(t),
         NEW o \in Opens, o = job[t].o, Unlock(o),
         \A x \in Opens : x # o => open'[x] = open[x]
  PROVE  LockInv'
<1>1. /\ \A u \in Threads : u # t => job'[u] = job[u] /\ (Locked(u)' <=> Locked(u))
      /\ ~Locked(t)' /\ holder'[o] = NoThread
      /\ \A x \in Opens : x # o => holder'[x] = holder[x]
  BY IdleType DEF Moves, Locked, TypeOK, Unlock
<1>2. ASSUME NEW u \in Threads, Locked(u), u # t
      PROVE  job[u].o \in Opens /\ job[u].o # o /\ holder[job[u].o] = u
             /\ open'[job[u].o] = open[job[u].o]
  <2>1. job[u].o \in Opens
    BY <1>2, OpenedFile DEF Locked
  <2>. QED
    BY <1>2, <2>1 DEF LockInv
<1>3. ASSUME NEW u \in Threads, Locked(u)' PROVE u # t /\ holder'[job'[u].o] = u
  BY <1>1, <1>2, <1>3
<1>4. ASSUME NEW x \in Opens, holder'[x] # NoThread
      PROVE  job'[holder'[x]].at \in {"transfer", "set_len"} /\ job'[holder'[x]].o = x
  <2>1. x # o /\ holder'[x] = holder[x]
    BY <1>1, <1>4
  <2>2. holder[x] \in Threads /\ Locked(holder[x]) /\ job[holder[x]].o = x
    BY <1>4, <2>1 DEF TypeOK, LockInv
  <2>3. holder[x] # t
    BY <2>1, <2>2
  <2>. QED
    BY <1>1, <2>1, <2>2, <2>3 DEF Locked
<1>5. ASSUME NEW u \in Threads, job'[u].at = "transfer"
      PROVE  /\ job'[u].op \in {"read", "write"}
             /\ open'[job'[u].o].pos = job'[u].off + IF job'[u].method = 0 THEN 0 ELSE job'[u].was
  <2>1. u # t /\ job'[u] = job[u] /\ job[u].at = "transfer" /\ Locked(u)
    BY <1>1, <1>5 DEF Locked
  <2>. QED
    BY <1>2, <2>1 DEF LockInv
<1>6. ASSUME NEW u \in Threads, job'[u].at = "set_len"
      PROVE  job'[u].op = "end" /\ open'[job'[u].o].pos = job'[u].was
  <2>1. u # t /\ job'[u] = job[u] /\ job[u].at = "set_len" /\ Locked(u)
    BY <1>1, <1>6 DEF Locked
  <2>. QED
    BY <1>2, <2>1 DEF LockInv
<1>. QED
  BY <1>3, <1>4, <1>5, <1>6 DEF LockInv, Locked

LEMMA LockStep ==
  ASSUME TypeOK, StageInv, StoreInv, SearchInv, LockInv, TypeOK', [Next]_vars
  PROVE  LockInv'
<1>u. ASSUME UNCHANGED <<open, holder>>,
             \/ UNCHANGED job
             \/ \E t \in Threads : \E k : /\ Moves(t, k) /\ k.at \notin {"transfer", "set_len"}
                                          /\ job[t].at \notin {"transfer", "set_len"}
      PROVE  LockInv'
  <2>1. \A o \in Opens : holder[o] # NoThread => open'[o].pos = open[o].pos
    BY <1>u
  <2>2. \/ UNCHANGED job
        \/ \E t \in Threads : \E k : Moves(t, k) /\ ~Locked(t) /\ k.at \notin {"transfer", "set_len"}
    BY <1>u DEF Locked
  <2>. QED
    BY <1>u, <2>1, <2>2, LocksKept
<1>i. Idle.at \notin {"transfer", "set_len"}
  BY IdleType
<1>1. CASE try_activate \/ deactivate
  BY <1>1, <1>u DEF try_activate, deactivate, objects
<1>3. ASSUME NEW t \in Threads, NEW p \in program.paths, NEW access, NEW disposition,
             NEW overlapped, CreateFileW(t, p, access, disposition, overlapped)
      PROVE  LockInv'
  <2>1. /\ UNCHANGED <<open, holder>> /\ job[t] = Idle
        /\ UNCHANGED job \/ \E k : Moves(t, k) /\ k.at = "vfs"
    BY <1>3, CreateEffect DEF objects
  <2>2. UNCHANGED job \/ \E k : Moves(t, k) /\ k.at \notin {"transfer", "set_len"}
    BY <2>1
  <2>. QED
    BY <2>1, <2>2, <1>i, <1>u
<1>4. ASSUME NEW t \in Threads, OpenStream(t) PROVE LockInv'
  <2>1. /\ UNCHANGED <<open, holder>> /\ job[t].at = "vfs"
        /\ Moves(t, Idle) \/ \E k : Moves(t, k) /\ k.at = "truncate"
    BY <1>4, OpenEffect DEF objects
  <2>2. \E k : Moves(t, k) /\ k.at \notin {"transfer", "set_len"}
    BY <2>1, <1>i
  <2>. QED
    BY <2>1, <2>2, <1>u
<1>5. ASSUME NEW t \in Threads, TruncateNode(t) PROVE LockInv'
  <2>1. /\ UNCHANGED holder /\ job[t].at = "truncate" /\ opened + 1 \in Opens
        /\ \E r : open' = [open EXCEPT ![opened + 1] = r]
        /\ \E k : Moves(t, k) /\ k.at = "carrier"
    BY <1>5, TruncateEffect
  <2>2. ASSUME NEW o \in Opens, holder[o] # NoThread PROVE open'[o].pos = open[o].pos
    <3>1. holder[o] \in Threads /\ Locked(holder[o]) /\ job[holder[o]].o = o
      BY <2>2 DEF TypeOK, LockInv
    <3>2. job[holder[o]].at \in {"lock", "transfer", "set_len"}
      BY <3>1 DEF Locked
    <3>3. o <= opened
      BY <3>1, <3>2, OpenedFile
    <3>4. opened \in Nat /\ o \in Nat
      BY WinAssumption DEF TypeOK, Opens
    <3>. QED
      BY <2>1, <3>3, <3>4 DEF TypeOK
  <2>3. ~Locked(t) /\ \E k : Moves(t, k) /\ k.at \notin {"transfer", "set_len"}
    BY <2>1 DEF Locked
  <2>. QED
    BY <2>1, <2>2, <2>3, LocksKept
<1>6. ASSUME NEW t \in Threads, carrier_open(t) \/ carrier_find(t) PROVE LockInv'
  <2>1. /\ UNCHANGED <<open, holder>> /\ job[t].at = "carrier"
        /\ Moves(t, Idle) \/ \E k : Moves(t, k) /\ k.at = "insert"
    BY <1>6, CarrierEffect DEF objects
  <2>2. \E k : Moves(t, k) /\ k.at \notin {"transfer", "set_len"}
    BY <2>1, <1>i
  <2>. QED
    BY <2>1, <2>2, <1>u
<1>7. ASSUME NEW t \in Threads, insert_file(t) PROVE LockInv'
  <2>1. UNCHANGED <<open, holder>> /\ job[t].at = "insert"
    BY <1>7 DEF insert_file, At, objects
  <2>2. Moves(t, Idle)
    BY <1>7, MovesIdle DEF insert_file
  <2>. QED
    BY <2>1, <2>2, <1>i, <1>u
<1>8. ASSUME NEW t \in Threads, NEW h \in Handles,
             ReadFile(t, h) \/ WriteFile(t, h) \/ SetFilePointerEx(t, h) \/ SetFilePointer(t, h)
               \/ SetEndOfFile(t, h) \/ GetFileSize(t, h) \/ GetFileInformationByHandle(t, h)
               \/ FlushFileBuffers(t, h)
      PROVE  LockInv'
  <2>1. /\ UNCHANGED <<open, holder>> /\ job[t] = Idle
        /\ \E k : Moves(t, k) /\ k.at = "lock"
    BY <1>8, CallEffect DEF objects
  <2>2. \E k : Moves(t, k) /\ k.at \notin {"transfer", "set_len"}
    BY <2>1
  <2>. QED
    BY <2>1, <2>2, <1>i, <1>u
<1>9. ASSUME NEW t \in Threads, LockFile(t) PROVE LockInv'
  <2> DEFINE o == job[t].o
             to == Base(job[t]) + Distance(job[t])
  <2>0. job[t].at = "lock" /\ holder[o] = NoThread /\ o \in Opens /\ ~Locked(t)
    BY <1>9, LockEffect DEF Locked
  <2>1. CASE Moves(t, Idle) /\ UNCHANGED <<open, holder>>
    BY <2>0, <2>1, <1>i, <1>u
  <2>2. CASE /\ Moves(t, Idle) /\ UNCHANGED holder /\ to \in Positions
             /\ open' = [open EXCEPT ![o].pos = to]
    <3>1. \A x \in Opens : holder[x] # NoThread => open'[x].pos = open[x].pos
      BY <2>0, <2>2, PointerMoved
    <3>. QED
      BY <2>0, <2>2, <3>1, <1>i, LocksKept
  <2>3. ASSUME job[t].op \in {"read", "write"}, Lock(t, o), to \in Positions,
               open' = [open EXCEPT ![o].pos = to],
               NEW k, Moves(t, k), Keeps(k, job[t]), k.at = "transfer", k.o = o,
               k.was = open[o].pos
        PROVE  LockInv'
    <3>1. open'[o].pos = to /\ \A x \in Opens : x # o => open'[x] = open[x]
      BY <2>0, <2>3, PointerMoved
    <3>2. job[t].method \in {0, 1}
      BY <2>0, <2>3 DEF StageInv, StageOf
    <3>3. job[t].off \in Int /\ open[o].pos \in Int
      BY <2>0, OpenedFile DEF Positions
    <3>4. to = k.off + IF k.method = 0 THEN 0 ELSE k.was
      BY <2>3, <3>2, <3>3 DEF Base, Distance, Keeps
    <3>5. holder' = [holder EXCEPT ![o] = t] /\ k.op \in {"read", "write"}
      BY <2>3 DEF Lock, Keeps
    <3>. QED
      BY <2>0, <2>3, <3>1, <3>4, <3>5, LockTaken
  <2>4. ASSUME job[t].op = "end", Lock(t, o), UNCHANGED open,
               NEW k, Moves(t, k), Keeps(k, job[t]), k.at = "set_len", k.o = o,
               k.was = open[o].pos
        PROVE  LockInv'
    <3>1. holder' = [holder EXCEPT ![o] = t] /\ k.op = "end" /\ open'[o].pos = k.was
      BY <2>4 DEF Lock, Keeps
    <3>. QED
      BY <2>0, <2>4, <3>1, LockTaken
  <2>. QED
    BY <1>9, <2>1, <2>2, <2>3, <2>4, LockEffect
<1>10. ASSUME NEW t \in Threads, ReadStream(t) \/ WriteStream(t) \/ SetLen(t) PROVE LockInv'
  <2> DEFINE o == job[t].o
  <2>1. /\ job[t].at \in {"transfer", "set_len"} /\ o \in Opens /\ Moves(t, Idle) /\ Unlock(o)
        /\ UNCHANGED open \/ \E p \in Positions : open' = [open EXCEPT ![o].pos = p]
    BY <1>10, TransferEffect
  <2>2. \A x \in Opens : x # o => open'[x] = open[x]
    <3>1. CASE UNCHANGED open
      BY <3>1
    <3>2. ASSUME NEW p \in Positions, open' = [open EXCEPT ![o].pos = p]
          PROVE  \A x \in Opens : x # o => open'[x] = open[x]
      BY <2>1, <3>2, PointerMoved
    <3>. QED
      BY <2>1, <3>1, <3>2
  <2>3. Locked(t)
    BY <2>1 DEF Locked
  <2>. QED
    BY <2>1, <2>2, <2>3, LockFreed
<1>11. ASSUME NEW t \in Threads, NEW h \in Handles, CloseHandle(t, h) \/ FindClose(t, h)
       PROVE  LockInv'
  <2>1. /\ UNCHANGED <<open, holder>> /\ job[t] = Idle
        /\ UNCHANGED job \/ \E k : Moves(t, k) /\ k.at = "close"
    BY <1>11, CloseEffect DEF objects
  <2>2. UNCHANGED job \/ \E k : Moves(t, k) /\ k.at \notin {"transfer", "set_len"}
    BY <2>1
  <2>. QED
    BY <2>1, <2>2, <1>i, <1>u
<1>12. ASSUME NEW t \in Threads, CloseCarrier(t) PROVE LockInv'
  BY <1>12, <1>i, <1>u, CloseCarrierEffect DEF objects
<1>13. ASSUME NEW t \in Threads, NEW p \in program.paths \cup {Star}, FindFirstFile(t, p)
       PROVE  LockInv'
  <2>1. /\ UNCHANGED <<open, holder>> /\ job[t] = Idle
        /\ UNCHANGED job \/ \E k : Moves(t, k) /\ k.at = "list"
    BY <1>13, FindEffect DEF objects
  <2>2. UNCHANGED job \/ \E k : Moves(t, k) /\ k.at \notin {"transfer", "set_len"}
    BY <2>1
  <2>. QED
    BY <2>1, <2>2, <1>i, <1>u
<1>14. ASSUME NEW t \in Threads, NEW at \in {"list", "exact"}, find_matches(t, at)
       PROVE  LockInv'
  <2>1. /\ UNCHANGED <<open, holder>> /\ job[t].at = at
        /\ Moves(t, Idle) \/ \E k : Moves(t, k) /\ k.at \in {"exact", "carrier"}
    BY <1>14, ListEffect DEF objects
  <2>2. \E k : Moves(t, k) /\ k.at \notin {"transfer", "set_len"}
    BY <2>1, <1>i
  <2>. QED
    BY <2>1, <2>2, <1>u
<1>15. ASSUME NEW t \in Threads, insert_find(t) PROVE LockInv'
  <2>1. UNCHANGED <<open, holder>> /\ job[t].at = "insert" /\ Moves(t, Idle)
    BY <1>15, InsertFindEffect DEF objects
  <2>. QED
    BY <2>1, <1>i, <1>u
<1>16. ASSUME NEW t \in Threads, NEW h \in Handles, FindNextFileW(t, h) PROVE LockInv'
  <2>1. /\ UNCHANGED <<open, holder>> /\ job[t] = Idle
        /\ \E k : Moves(t, k) /\ k.at = "next"
    BY <1>16, NextEffect DEF objects
  <2>2. \E k : Moves(t, k) /\ k.at \notin {"transfer", "set_len"}
    BY <2>1
  <2>. QED
    BY <2>1, <2>2, <1>i, <1>u
<1>17. ASSUME NEW t \in Threads, GiveEntry(t) PROVE LockInv'
  <2>1. UNCHANGED <<open, holder>> /\ job[t].at = "next" /\ Moves(t, Idle)
    BY <1>17, GiveEffect DEF objects
  <2>. QED
    BY <2>1, <1>i, <1>u
<1>18. ASSUME NEW t \in Threads, NEW p \in program.paths, NEW q \in program.paths,
              \/ PathQuery(t, p) \/ DeleteFileW(t, p) \/ CreateDirectoryW(t, p)
              \/ MoveFileExW(t, p, q)
       PROVE  LockInv'
  BY <1>18, <1>u, PathEffect DEF objects
<1>19. CASE UNCHANGED vars
  BY <1>19, <1>u DEF vars
<1>. QED
  BY <1>1, <1>3, <1>4, <1>5, <1>6, <1>7, <1>8, <1>9, <1>10, <1>11, <1>12, <1>13, <1>14,
     <1>15, <1>16, <1>17, <1>18, <1>19 DEF Next

-----------------------------------------------------------------------------
(* A search before it is registered *)

(* The conjunct of SearchInv about one call. *)
Private(t) ==
  /\ find[job[t].o].entries # <<>> /\ find[job[t].o].next = 0
  /\ \A e \in Engines, h \in Handles : finds[e][h] # job[t].o
  /\ \A u \in Threads : u # t /\ (Pending(u) \/ job[u].at = "next") => job[u].o # job[t].o

LEMMA PrivateInv ==
  /\ SearchInv <=> \A t \in Threads : Pending(t) => Private(t)
  /\ SearchInv' <=> \A t \in Threads : Pending(t)' => Private(t)'
BY DEF SearchInv, Private

LEMMA PendingFacts ==
  ASSUME TypeOK, StageInv, NEW t \in Threads
  PROVE  /\ Pending(t) => job[t].o \in Finds /\ job[t].o \in 1..found
         /\ job[t].at = "next" => job[t].o \in Finds /\ job[t].o \in 1..found
<1>1. found \in 0..MaxFinds /\ MaxFinds \in Nat
  BY WinAssumption DEF TypeOK
<1>2. StageOf(job[t], published, opened, found)
  BY DEF StageInv
<1>. QED
  BY <1>1, <1>2 DEF StageOf, Pending, Finds

(* A step after which its caller is in no search of its own: what another  *)
(* caller has stays its own if its entries, and the registry, do.          *)
LEMMA SearchKept ==
  ASSUME TypeOK, StageInv, SearchInv,
         \A u \in Threads : Pending(u) => find'[job[u].o] = find[job[u].o],
         \A u \in Threads : Pending(u) => \A e \in Engines, h \in Handles :
           finds[e][h] # job[u].o => finds'[e][h] # job[u].o,
         \/ UNCHANGED job
         \/ \E t \in Threads : \E k : /\ Moves(t, k) /\ k.at # "next"
                                      /\ ~(k.at \in {"carrier", "insert"} /\ k.op = "find")
  PROVE  SearchInv'
<1>1. ASSUME NEW u \in Threads, (Pending(u) \/ job[u].at = "next")'
      PROVE  job'[u] = job[u] /\ (Pending(u)' <=> Pending(u))
  BY <1>1 DEF Pending, Moves
<1>2. ASSUME NEW u \in Threads, Pending(u)' PROVE Private(u)'
  <2>1. job'[u] = job[u] /\ Pending(u)
    BY <1>1, <1>2
  <2>2. Private(u)
    BY <2>1, PrivateInv
  <2>3. \A v \in Threads : v # u /\ (Pending(v) \/ job[v].at = "next")' => job'[v].o # job'[u].o
    BY <1>1, <2>1, <2>2 DEF Private
  <2>. QED
    BY <2>1, <2>2, <2>3 DEF Private
<1>. QED
  BY <1>2, PrivateInv

LEMMA SearchStep ==
  ASSUME TypeOK, StageInv, StoreInv, SearchInv, TypeOK', [Next]_vars
  PROVE  SearchInv'
<1>u. ASSUME UNCHANGED <<find, finds>>,
             \/ UNCHANGED job
             \/ \E t \in Threads : \E k : /\ Moves(t, k) /\ k.at # "next"
                                          /\ ~(k.at \in {"carrier", "insert"} /\ k.op = "find")
      PROVE  SearchInv'
  BY <1>u, SearchKept
<1>i. Idle.at \notin {"next", "carrier", "insert"}
  BY IdleType
<1>k. ASSUME UNCHANGED <<find, finds>>, NEW t \in Threads,
             \/ UNCHANGED job
             \/ \E k : Moves(t, k) /\ k.at \notin {"next", "carrier", "insert"}
      PROVE  SearchInv'
  BY <1>k, <1>u
<1>1. CASE try_activate \/ deactivate
  BY <1>1, <1>u DEF try_activate, deactivate, registry, searches
<1>3. ASSUME NEW t \in Threads, NEW p \in program.paths, NEW access, NEW disposition,
             NEW overlapped, CreateFileW(t, p, access, disposition, overlapped)
      PROVE  SearchInv'
  <2>1. UNCHANGED <<find, finds>> /\ (UNCHANGED job \/ \E k : Moves(t, k) /\ k.at = "vfs")
    BY <1>3, CreateEffect DEF registry, searches
  <2>. QED
    BY <2>1, <1>k
<1>4. ASSUME NEW t \in Threads, OpenStream(t) PROVE SearchInv'
  <2>1. /\ UNCHANGED <<find, finds>>
        /\ Moves(t, Idle) \/ \E k : Moves(t, k) /\ k.at = "truncate"
    BY <1>4, OpenEffect DEF registry, searches
  <2>2. \E k : Moves(t, k) /\ k.at \notin {"next", "carrier", "insert"}
    BY <2>1, <1>i
  <2>. QED
    BY <2>1, <2>2, <1>k
<1>5. ASSUME NEW t \in Threads, TruncateNode(t) PROVE SearchInv'
  <2>1. /\ UNCHANGED <<find, finds>> /\ job[t].at = "truncate"
        /\ \E k : Moves(t, k) /\ Keeps(k, job[t]) /\ k.at = "carrier"
    BY <1>5, TruncateEffect DEF registry, searches
  <2>2. job[t].op = "open"
    BY <2>1 DEF StageInv, StageOf
  <2>3. \E k : Moves(t, k) /\ k.at # "next" /\ k.op # "find"
    BY <2>1, <2>2 DEF Keeps
  <2>. QED
    BY <2>1, <2>3, <1>u
<1>6. ASSUME NEW t \in Threads, carrier_open(t) \/ carrier_find(t) PROVE SearchInv'
  <2>0. UNCHANGED <<find, finds>> /\ job[t].at = "carrier"
    BY <1>6, CarrierEffect DEF registry, searches
  <2>1. CASE Moves(t, Idle)
    BY <2>0, <2>1, <1>i, <1>k
  <2>2. ASSUME NEW k, Moves(t, k), Keeps(k, job[t]), k.at = "insert", k.o = job[t].o
        PROVE  SearchInv'
    <3>1. \A u \in Threads : /\ Pending(u)' <=> Pending(u)
                             /\ job'[u].at = "next" <=> job[u].at = "next"
                             /\ job'[u].o = job[u].o
      BY <2>0, <2>2 DEF Pending, Moves, Keeps
    <3>2. ASSUME NEW u \in Threads, Pending(u)' PROVE Private(u)'
      <4>1. Private(u)
        BY <3>1, <3>2, PrivateInv
      <4>. QED
        BY <2>0, <3>1, <4>1 DEF Private
    <3>. QED
      BY <3>2, PrivateInv
  <2>. QED
    BY <1>6, <2>1, <2>2, CarrierEffect
<1>7. ASSUME NEW t \in Threads, insert_file(t) PROVE SearchInv'
  <2>1. UNCHANGED <<find, finds>>
    BY <1>7 DEF insert_file, searches
  <2>2. Moves(t, Idle)
    BY <1>7, MovesIdle DEF insert_file
  <2>. QED
    BY <2>1, <2>2, <1>i, <1>k
<1>8. ASSUME NEW t \in Threads, NEW h \in Handles,
             ReadFile(t, h) \/ WriteFile(t, h) \/ SetFilePointerEx(t, h) \/ SetFilePointer(t, h)
               \/ SetEndOfFile(t, h) \/ GetFileSize(t, h) \/ GetFileInformationByHandle(t, h)
               \/ FlushFileBuffers(t, h)
      PROVE  SearchInv'
  <2>1. UNCHANGED <<find, finds>> /\ \E k : Moves(t, k) /\ k.at = "lock"
    BY <1>8, CallEffect DEF registry, searches
  <2>. QED
    BY <2>1, <1>k
<1>9. ASSUME NEW t \in Threads, LockFile(t) PROVE SearchInv'
  <2>1. /\ UNCHANGED <<find, finds>>
        /\ Moves(t, Idle) \/ \E k : Moves(t, k) /\ k.at \in {"transfer", "set_len"}
    BY <1>9, LockEffect DEF registry, searches
  <2>2. \E k : Moves(t, k) /\ k.at \notin {"next", "carrier", "insert"}
    BY <2>1, <1>i
  <2>. QED
    BY <2>1, <2>2, <1>k
<1>10. ASSUME NEW t \in Threads, ReadStream(t) \/ WriteStream(t) \/ SetLen(t) PROVE SearchInv'
  <2>1. UNCHANGED <<find, finds>> /\ Moves(t, Idle)
    BY <1>10, TransferEffect DEF registry, searches
  <2>. QED
    BY <2>1, <1>i, <1>k
<1>11. ASSUME NEW t \in Threads, NEW h \in Handles, CloseHandle(t, h) \/ FindClose(t, h)
       PROVE  SearchInv'
  <2>1. /\ UNCHANGED find
        /\ UNCHANGED job \/ \E k : Moves(t, k) /\ k.at = "close"
        /\ \/ UNCHANGED finds
           \/ engine \in Engines /\ finds' = [finds EXCEPT ![engine][h] = 0]
    BY <1>11, CloseEffect DEF registry, searches
  <2>2. \A e \in Engines, g \in Handles : finds'[e][g] \in {0, finds[e][g]}
    <3>1. finds \in [Engines -> [Handles -> 0..MaxFinds]] /\ 0 \in 0..MaxFinds
      BY WinAssumption DEF TypeOK
    <3>2. CASE UNCHANGED finds
      BY <3>2
    <3>3. CASE engine \in Engines /\ finds' = [finds EXCEPT ![engine][h] = 0]
      BY <3>1, <3>3, EntrySet
    <3>. QED
      BY <2>1, <3>2, <3>3
  <2>3. \A u \in Threads : Pending(u) => job[u].o # 0
    BY PendingFacts
  <2>4. UNCHANGED job \/ \E k : /\ Moves(t, k) /\ k.at # "next"
                                /\ ~(k.at \in {"carrier", "insert"} /\ k.op = "find")
    BY <2>1
  <2>. QED
    BY <2>1, <2>2, <2>3, <2>4, SearchKept
<1>12. ASSUME NEW t \in Threads, CloseCarrier(t) PROVE SearchInv'
  <2>1. UNCHANGED <<find, finds>> /\ Moves(t, Idle)
    BY <1>12, CloseCarrierEffect DEF registry, searches
  <2>. QED
    BY <2>1, <1>i, <1>k
<1>13. ASSUME NEW t \in Threads, NEW p \in program.paths \cup {Star}, FindFirstFile(t, p)
       PROVE  SearchInv'
  <2>1. UNCHANGED <<find, finds>> /\ (UNCHANGED job \/ \E k : Moves(t, k) /\ k.at = "list")
    BY <1>13, FindEffect DEF registry, searches
  <2>. QED
    BY <2>1, <1>k
<1>14. ASSUME NEW t \in Threads, NEW at \in {"list", "exact"}, find_matches(t, at)
       PROVE  SearchInv'
  <2> DEFINE matches == Matches(job[t].path)
  <2>0. UNCHANGED finds
    BY <1>14, ListEffect DEF registry
  <2>1. CASE UNCHANGED find /\ Moves(t, Idle)
    BY <2>0, <2>1, <1>i, <1>k
  <2>2. CASE UNCHANGED find /\ \E k : Moves(t, k) /\ k.at = "exact"
    BY <2>0, <2>2, <1>k
  <2>3. ASSUME matches # <<>>, found + 1 \in Finds,
               find' = [find EXCEPT ![found + 1].entries = matches],
               NEW k, Moves(t, k), k.at = "carrier", k.o = found + 1
        PROVE  SearchInv'
    <3>1. /\ find'[found + 1].entries = matches /\ find'[found + 1].next = find[found + 1].next
          /\ \A x \in Finds : x # found + 1 => find'[x] = find[x]
      BY <2>3, MatchesFacts, EntriesSet
    <3>2. found \in Nat /\ find[found + 1].next = 0
      BY <2>3 DEF TypeOK, StoreInv, NoFind
    <3>3. \A u \in Threads : u # t =>
            /\ Pending(u)' <=> Pending(u)
            /\ job'[u] = job[u]
      BY <2>3 DEF Moves, Pending
    <3>4. ASSUME NEW u \in Threads, u # t, Pending(u) \/ job[u].at = "next"
          PROVE  job[u].o \in Finds /\ job[u].o # found + 1
      BY <3>2, <3>4, PendingFacts
    <3>5. job'[t] = k
      BY <2>3 DEF Moves
    <3>6. Private(t)'
      <4>1. \A e \in Engines, h \in Handles : finds'[e][h] # found + 1
        BY <2>0, <3>2 DEF StoreInv
      <4>2. \A u \in Threads : u # t /\ (Pending(u) \/ job[u].at = "next")' => job'[u].o # found + 1
        BY <3>3, <3>4
      <4>. QED
        BY <2>3, <3>1, <3>2, <3>5, <4>1, <4>2 DEF Private
    <3>7. ASSUME NEW u \in Threads, u # t, Pending(u)' PROVE Private(u)'
      <4>1. Pending(u) /\ job'[u] = job[u] /\ job[u].o # found + 1 /\ find'[job[u].o] = find[job[u].o]
        BY <3>1, <3>3, <3>4, <3>7
      <4>2. Private(u)
        BY <4>1, PrivateInv
      <4>3. \A v \in Threads : v # u /\ (Pending(v) \/ job[v].at = "next")' => job'[v].o # job'[u].o
        BY <2>3, <3>3, <3>5, <4>1, <4>2 DEF Private
      <4>. QED
        BY <2>0, <4>1, <4>2, <4>3 DEF Private
    <3>. QED
      BY <3>6, <3>7, PrivateInv
  <2>. QED
    BY <1>14, <2>1, <2>2, <2>3, ListEffect
<1>15. ASSUME NEW t \in Threads, insert_find(t) PROVE SearchInv'
  <2> DEFINE j == job[t]
  <2>1. /\ j.at = "insert" /\ j.op = "find" /\ finds' = [finds EXCEPT ![j.e][j.h] = j.o]
        /\ Moves(t, Idle) /\ j.o \in Finds /\ Tail(find[j.o].entries) \in Seq(Names)
        /\ find' = [find EXCEPT ![j.o].entries = Tail(find[j.o].entries)]
    BY <1>15, InsertFindEffect
  <2>2. j.e \in Engines /\ j.h \in Handles /\ j.o \in 0..MaxFinds
    BY <2>1, InsertEffect
  <2>3. finds \in [Engines -> [Handles -> 0..MaxFinds]]
    BY DEF TypeOK
  <2>4. \A e \in Engines, g \in Handles : finds'[e][g] \in {j.o, finds[e][g]}
    BY <2>1, <2>2, <2>3, EntrySet
  <2>5. \A x \in Finds : x # j.o => find'[x] = find[x]
    BY <2>1, EntriesSet
  <2>6. Pending(t) /\ \A u \in Threads : u # t => job'[u] = job[u] /\ (Pending(u)' <=> Pending(u))
    BY <2>1 DEF Pending, Moves
  <2>7. job'[t] = Idle /\ ~(Pending(t) \/ job[t].at = "next")'
    BY <2>1, <1>i DEF Moves, Pending
  <2>8. ASSUME NEW u \in Threads, Pending(u)' PROVE Private(u)'
    <3>1. u # t /\ Pending(u) /\ job'[u] = job[u]
      BY <2>6, <2>7, <2>8
    <3>2. Private(u) /\ job[u].o \in Finds
      BY <3>1, PrivateInv, PendingFacts
    <3>3. job[u].o # j.o
      BY <2>6, <3>1, <3>2 DEF Private
    <3>4. \A v \in Threads : v # u /\ (Pending(v) \/ job[v].at = "next")' => job'[v].o # job'[u].o
      BY <2>6, <2>7, <3>1, <3>2 DEF Private
    <3>5. find'[job[u].o] = find[job[u].o]
      BY <2>5, <3>2, <3>3
    <3>6. \A e \in Engines, g \in Handles : finds'[e][g] # job[u].o
      BY <2>4, <3>2, <3>3 DEF Private
    <3>. QED
      BY <3>1, <3>2, <3>4, <3>5, <3>6 DEF Private
  <2>. QED
    BY <2>8, PrivateInv
<1>16. ASSUME NEW t \in Threads, NEW h \in Handles, FindNextFileW(t, h) PROVE SearchInv'
  <2>1. UNCHANGED <<find, finds>> /\ engine \in Engines
    BY <1>16, NextEffect DEF registry, searches
  <2>2. PICK k : Moves(t, k) /\ k.at = "next" /\ k.o = finds[engine][h]
    BY <1>16, NextEffect
  <2>3. /\ \A u \in Threads : u # t => job'[u] = job[u] /\ (Pending(u)' <=> Pending(u))
        /\ job'[t] = k /\ ~Pending(t)'
    BY <2>2 DEF Moves, Pending
  <2>4. ASSUME NEW u \in Threads, Pending(u)' PROVE Private(u)'
    <3>1. u # t /\ Pending(u) /\ job'[u] = job[u]
      BY <2>3, <2>4
    <3>2. Private(u)
      BY <3>1, PrivateInv
    <3>3. job'[t].o # job[u].o
      BY <2>1, <2>2, <2>3, <3>2 DEF Private
    <3>4. \A v \in Threads : v # u /\ (Pending(v) \/ job[v].at = "next")' => job'[v].o # job'[u].o
      BY <2>3, <3>1, <3>2, <3>3 DEF Private
    <3>. QED
      BY <2>1, <3>1, <3>2, <3>4 DEF Private
  <2>. QED
    BY <2>4, PrivateInv
<1>17. ASSUME NEW t \in Threads, GiveEntry(t) PROVE SearchInv'
  <2> DEFINE f == job[t].o
             n == find[f].next
  <2>1. /\ UNCHANGED finds /\ job[t].at = "next" /\ Moves(t, Idle) /\ f \in Finds /\ n \in Nat
        /\ UNCHANGED find \/ find' = [find EXCEPT ![f].next = n + 1]
    BY <1>17, GiveEffect DEF registry
  <2>2. n + 1 \in Nat
    BY <2>1
  <2>3. \A x \in Finds : x # f => find'[x] = find[x]
    <3>1. CASE UNCHANGED find
      BY <3>1
    <3>2. CASE find' = [find EXCEPT ![f].next = n + 1]
      BY <2>1, <2>2, <3>2, NextSet
    <3>. QED
      BY <2>1, <3>1, <3>2
  <2>4. ASSUME NEW u \in Threads, Pending(u) PROVE find'[job[u].o] = find[job[u].o]
    <3>1. Private(u) /\ job[u].o \in Finds /\ u # t
      BY <2>1, <2>4, PrivateInv, PendingFacts DEF Pending
    <3>2. f # job[u].o
      BY <2>1, <3>1 DEF Private
    <3>. QED
      BY <2>3, <3>1, <3>2
  <2>. QED
    BY <2>1, <2>4, <1>i, SearchKept
<1>18. ASSUME NEW t \in Threads, NEW p \in program.paths, NEW q \in program.paths,
              \/ PathQuery(t, p) \/ DeleteFileW(t, p) \/ CreateDirectoryW(t, p)
              \/ MoveFileExW(t, p, q)
       PROVE  SearchInv'
  BY <1>18, <1>u, PathEffect DEF registry, searches
<1>19. CASE UNCHANGED vars
  BY <1>19, <1>u DEF vars
<1>. QED
  BY <1>1, <1>3, <1>4, <1>5, <1>6, <1>7, <1>8, <1>9, <1>10, <1>11, <1>12, <1>13, <1>14,
     <1>15, <1>16, <1>17, <1>18, <1>19 DEF Next

-----------------------------------------------------------------------------
(* The inductive invariant *)

Inv ==
  /\ TypeOK /\ StageInv /\ StoreInv /\ OwnerInv /\ EntryInv /\ LockInv /\ SearchInv

LEMMA InitInv == Init => Inv
<1> SUFFICES ASSUME Init PROVE Inv
  OBVIOUS
<1>n. /\ MaxNodes \in Nat /\ MaxOpens \in Nat /\ MaxFinds \in Nat /\ MaxEngines \in Nat
      /\ Limit \in Nat
  BY WinAssumption
<1>j. \A t \in Threads : job[t] = Idle
  BY DEF Init
<1>i. Idle \in Job /\ Idle.at = "idle"
  BY IdleType
<1>1. TypeOK
  <2>1. NoOpen \in [node : 0..MaxNodes, pos : Positions, writable : BOOLEAN, overlapped : BOOLEAN]
    BY <1>n DEF NoOpen, Positions
  <2>2. NoFind \in [entries : Seq(Names), next : Nat] /\ <<>> \in Seq(Names)
    BY DEF NoFind
  <2>3. KernelType
    BY <1>n DEF Init, KernelType, Kinds, Holdings
  <2>4. VolumeType
    BY <1>n DEF Init, VolumeType, Positions
  <2>5. ObjectType
    BY <1>n, <2>1 DEF Init, ObjectType
  <2>6. SearchType
    BY <1>n, <2>2 DEF Init, SearchType
  <2>7. job \in [Threads -> Job]
    BY <1>i DEF Init
  <2>. QED
    BY <2>3, <2>4, <2>5, <2>6, <2>7, TypeParts
<1>2. StageInv
  BY <1>j, StageIdle DEF StageInv
<1>3. StoreInv
  <2>1. \A o \in Opens : ~(o <= 0)
    BY <1>n DEF Opens
  <2>. QED
    BY <2>1 DEF Init, StoreInv
<1>4. OwnerInv
  BY <1>j, <1>i DEF Init, OwnerInv, Owner
<1>5. EntryInv
  BY DEF Init, EntryInv
<1>6. LockInv
  BY <1>j, <1>i DEF Init, LockInv, Locked
<1>7. SearchInv
  BY <1>j, <1>i DEF SearchInv, Pending
<1>. QED
  BY <1>1, <1>2, <1>3, <1>4, <1>5, <1>6, <1>7 DEF Inv

LEMMA NextInv == Inv /\ [Next]_vars => Inv'
<1> SUFFICES ASSUME Inv, [Next]_vars PROVE Inv'
  OBVIOUS
<1>1. TypeOK /\ StageInv /\ StoreInv /\ OwnerInv /\ EntryInv /\ LockInv /\ SearchInv
  BY DEF Inv
<1>2. TypeOK'
  BY <1>1, TypeStep
<1>3. StageInv' /\ StoreInv'
  BY <1>1, <1>2, StageStep, StoreStep
<1>4. OwnerInv' /\ EntryInv' /\ LockInv' /\ SearchInv'
  BY <1>1, <1>2, EntryStep, LockStep, SearchStep
<1>. QED
  BY <1>2, <1>3, <1>4 DEF Inv

LEMMA Invariant == Spec => []Inv
BY InitInv, NextInv, PTL DEF Spec

(* Every variable keeps its type: no handle, node, position or name leaves *)
(* its range, and every call is at a step the shims have.                  *)
THEOREM TypeCorrect == Spec => []TypeOK
<1>1. Inv => TypeOK
  BY DEF Inv
<1>. QED
  BY <1>1, Invariant, PTL

(* An entry of the live registry is a carrier the shims opened and have    *)
(* not closed (insert_file after the carrier, remove_file and remove_find  *)
(* before the close).                                                      *)
THEOREM EntriesBacked == Spec => []CarrierBacked
<1>1. Inv => CarrierBacked
  BY DEF Inv, EntryInv, CarrierBacked
<1>. QED
  BY <1>1, Invariant, PTL

-----------------------------------------------------------------------------
(* The refinement: what a caller knows *)

LEMMA NodesZero == Nodes \cup {0} = 0..MaxNodes
BY WinAssumption DEF Nodes

LEMMA NoRequest ==
  ASSUME NEW j, j.at \notin {"lock", "transfer", "set_len"} \/ j.op = "query"
  PROVE  Request(j) = Files!Nothing
BY DEF Request, Files!Nothing

LEMMA RequestFacts ==
  ASSUME NEW j, j.at \in {"lock", "transfer", "set_len"}, j.op # "query", j.op # "none"
  PROVE  /\ Request(j).op = IF j.op = "seek_halves" THEN "seek" ELSE j.op
         /\ Request(j).o = j.o /\ Request(j).method = j.method /\ Request(j).off = j.off
         /\ Request(j).n = j.n /\ Request(j) # Files!Nothing
<1>1. Request(j) = [op |-> IF j.op = "seek_halves" THEN "seek" ELSE j.op, o |-> j.o,
                    method |-> j.method, off |-> j.off, n |-> j.n]
  BY DEF Request
<1>2. Request(j).op # "none"
  BY <1>1
<1>3. Files!Nothing.op = "none"
  BY DEF Files!Nothing
<1>. QED
  BY <1>1, <1>2, <1>3

LEMMA RequestsMove ==
  ASSUME TypeOK, NEW t \in Threads, NEW k, Moves(t, k)
  PROVE  /\ Requests' = [Requests EXCEPT ![t] = Request(k)]
         /\ Requests'[t] = Request(k) /\ Requests[t] = Request(job[t])
         /\ Request(k) = Request(job[t]) => UNCHANGED Requests
<1>1. /\ \A u \in Threads : u # t => job'[u] = job[u]
      /\ job'[t] = k
  BY DEF Moves
<1>2. /\ Requests = [u \in Threads |-> Request(job[u])]
      /\ Requests' = [u \in Threads |-> Request(job'[u])]
  BY DEF Requests, Request
<1>3. Requests' = [Requests EXCEPT ![t] = Request(k)]
  BY <1>1, <1>2
<1>. QED
  BY <1>1, <1>2, <1>3

(* The pointer a caller sees under a lock is the one before it. *)
LEMMA PointerFacts ==
  ASSUME TypeOK, LockInv, NEW o \in Opens
  PROVE  /\ OpenFiles[o] = [node |-> open[o].node, pos |-> Pointer(o)]
         /\ holder[o] = NoThread => Pointer(o) = open[o].pos
         /\ \A t \in Threads : holder[o] = t => Pointer(o) = job[t].was
BY WinAssumption DEF OpenFiles, Pointer

LEMMA FilesKept ==
  ASSUME TypeOK, LockInv, UNCHANGED <<open, holder>>,
         \/ UNCHANGED job
         \/ \E t \in Threads : \E k : Moves(t, k) /\ ~Locked(t)
  PROVE  UNCHANGED OpenFiles
<1>1. ASSUME NEW o \in Opens PROVE Pointer(o)' = Pointer(o)
  <2>1. CASE holder[o] = NoThread
    BY <2>1 DEF Pointer
  <2>2. CASE holder[o] # NoThread
    <3>1. holder[o] \in Threads /\ Locked(holder[o])
      BY <2>2 DEF TypeOK, LockInv
    <3>2. job'[holder[o]] = job[holder[o]]
      BY <3>1 DEF Moves
    <3>. QED
      BY <2>2, <3>2 DEF Pointer
  <2>. QED
    BY <2>1, <2>2
<1>. QED
  BY <1>1 DEF OpenFiles

LEMMA SearchesKept ==
  ASSUME UNCHANGED <<find, given>>
  PROVE  UNCHANGED Searches
BY DEF Searches, Remaining

(* A step a caller does not see. *)
LEMMA Stutter ==
  ASSUME TypeOK, LockInv, UNCHANGED <<names, size, open, holder, find, given>>,
         \/ UNCHANGED job
         \/ \E t \in Threads : \E k : Moves(t, k) /\ ~Locked(t) /\ Request(k) = Request(job[t])
  PROVE  UNCHANGED Files!vars
<1>1. UNCHANGED OpenFiles
  BY FilesKept
<1>2. UNCHANGED Searches
  BY SearchesKept
<1>3. UNCHANGED Requests
  <2>1. CASE UNCHANGED job
    BY <2>1 DEF Requests
  <2>2. CASE \E t \in Threads : \E k : Moves(t, k) /\ Request(k) = Request(job[t])
    BY <2>2, RequestsMove
  <2>. QED
    BY <2>1, <2>2
<1>. QED
  BY <1>1, <1>2, <1>3 DEF Files!vars

(* A step that binds at most two names anew. *)
LEMMA RenameStep ==
  ASSUME TypeOK, TypeOK', LockInv, UNCHANGED <<size, open, holder, find, given>>,
         \/ UNCHANGED job
         \/ \E t \in Threads : \E k : Moves(t, k) /\ ~Locked(t) /\ Request(k) = Request(job[t]),
         NEW p \in Names, NEW q \in Names, \A a \in Names \ {p, q} : names'[a] = names[a]
  PROVE  Files!Rename \/ UNCHANGED Files!vars
<1>1. UNCHANGED <<OpenFiles, Searches>>
  BY FilesKept, SearchesKept
<1>2. UNCHANGED Requests
  <2>1. CASE UNCHANGED job
    BY <2>1 DEF Requests
  <2>2. CASE \E t \in Threads : \E k : Moves(t, k) /\ Request(k) = Request(job[t])
    BY <2>2, RequestsMove
  <2>. QED
    BY <2>1, <2>2
<1>3. CASE UNCHANGED names
  BY <1>1, <1>2, <1>3 DEF Files!vars
<1>4. CASE names' # names
  <2>1. names' \in [Names -> Nodes \cup {0}]
    BY NodesZero DEF TypeOK
  <2>2. UNCHANGED <<size, OpenFiles, Searches, Requests>>
    BY <1>1, <1>2
  <2>3. Files!Rename
    BY <1>4, <2>1, <2>2 DEF Files!Rename
  <2>. QED
    BY <2>3
<1>. QED
  BY <1>3, <1>4

-----------------------------------------------------------------------------
(* The refinement: calls on open files *)

(* SetFilePointer puts the distance together as the caller split it. *)
LEMMA Halves ==
  ASSUME NEW d \in Int
  PROVE  Combine(HighHalf(d), LowHalf(d)) = d
<1>a. Half \in Nat /\ Half > 1
  BY WinAssumption
<1>1. d % Half \in 0..(Half - 1) /\ d \div Half \in Int
  BY <1>a
<1>2. d - (d % Half) = Half * (d \div Half)
  BY <1>a
<1>3. ASSUME NEW x \in 0..(Half - 1) PROVE x % Half = x
  BY <1>a
<1>4. ASSUME NEW x \in 0..(Half - 1) PROVE (x - Half) % Half = x
  BY <1>a
<1>5. LowHalf(d) % Half = d % Half
  BY <1>1, <1>3, <1>4 DEF LowHalf
<1> DEFINE q == d \div Half
           r == d % Half
<1>6. r \in Int /\ q \in Int /\ d - r = Half * q
  BY <1>1, <1>2
<1>7. Combine(HighHalf(d), LowHalf(d)) = q * Half + r
  BY <1>5 DEF Combine, HighHalf
<1> HIDE DEF q, r
<1>8. q * Half = d - r
  BY <1>6, <1>a
<1>. QED
  BY <1>6, <1>7, <1>8

(* A step about one open file. *)
LEMMA OneFile ==
  ASSUME TypeOK, LockInv, NEW t \in Threads, NEW k, Moves(t, k), NEW o \in Opens,
         Locked(t) => job[t].o = o,
         \A x \in Opens : x # o => open'[x] = open[x] /\ holder'[x] = holder[x]
  PROVE  OpenFiles' = [OpenFiles EXCEPT ![o] = [node |-> open'[o].node, pos |-> Pointer(o)']]
<1>1. ASSUME NEW x \in Opens, x # o PROVE Pointer(x)' = Pointer(x)
  <2>1. CASE holder[x] = NoThread
    BY <1>1, <2>1 DEF Pointer
  <2>2. CASE holder[x] # NoThread
    <3>1. holder[x] \in Threads /\ Locked(holder[x]) /\ job[holder[x]].o = x
      BY <2>2 DEF TypeOK, LockInv
    <3>2. holder[x] # t
      BY <1>1, <3>1
    <3>3. job'[holder[x]] = job[holder[x]]
      BY <3>1, <3>2 DEF Moves
    <3>. QED
      BY <1>1, <2>2, <3>3 DEF Pointer
  <2>. QED
    BY <2>1, <2>2
<1>2. /\ OpenFiles = [x \in Opens |-> [node |-> open[x].node, pos |-> Pointer(x)]]
      /\ OpenFiles' = [x \in Opens |-> [node |-> open'[x].node, pos |-> Pointer(x)']]
  BY DEF OpenFiles
<1>. QED
  BY <1>1, <1>2

LEMMA PointsAt ==
  ASSUME NEW o \in Opens, NEW p, open'[o].node = open[o].node, Pointer(o)' = p,
         OpenFiles' = [OpenFiles EXCEPT ![o] = [node |-> open'[o].node, pos |-> Pointer(o)']]
  PROVE  Files!PointerAt(o, p)
<1>1. OpenFiles = [x \in Opens |-> [node |-> open[x].node, pos |-> Pointer(x)]]
  BY DEF OpenFiles
<1>2. OpenFiles[o] = [node |-> open[o].node, pos |-> Pointer(o)]
  BY <1>1
<1>3. [OpenFiles[o] EXCEPT !.pos = p] = [node |-> open[o].node, pos |-> p]
  BY <1>2
<1>4. [OpenFiles EXCEPT ![o].pos = p] = [OpenFiles EXCEPT ![o] = [OpenFiles[o] EXCEPT !.pos = p]]
  BY <1>1
<1>. QED
  BY <1>3, <1>4 DEF Files!PointerAt

(* TruncateNode opens: the number is new. *)
LEMMA OpenStep ==
  ASSUME TypeOK, StageInv, StoreInv, LockInv, NEW t \in Threads, TruncateNode(t)
  PROVE  Files!Open
<1>0. PICK o, x : o = opened + 1 /\ x = job[t].o
  OBVIOUS
<1>1. /\ UNCHANGED <<names, holder, find, given>> /\ job[t].at = "truncate"
      /\ o \in Opens /\ x \in Nodes /\ size' \in {size, [size EXCEPT ![x] = 0]}
  BY <1>0, TruncateEffect DEF searches
<1>2. PICK r : r.node = x /\ r.pos \in {0, size'[x]} /\ open' = [open EXCEPT ![o] = r]
  BY <1>0, TruncateEffect
<1>3. PICK k : Moves(t, k) /\ Keeps(k, job[t]) /\ k.at = "carrier"
  BY TruncateEffect
<1>4. open'[o] = r /\ \A y \in Opens : y # o => open'[y] = open[y]
  BY <1>1, <1>2 DEF TypeOK
<1>5. holder[o] = NoThread
  <2> SUFFICES ASSUME holder[o] # NoThread PROVE FALSE
    OBVIOUS
  <2>1. holder[o] \in Threads /\ Locked(holder[o]) /\ job[holder[o]].o = o
    BY <1>1 DEF TypeOK, LockInv
  <2>2. job[holder[o]].at \in {"lock", "transfer", "set_len"}
    BY <2>1 DEF Locked
  <2>3. o <= opened /\ opened \in Nat
    BY <2>1, <2>2, OpenedFile DEF TypeOK
  <2>. QED
    BY <1>0, <2>3
<1>6. ~Locked(t)
  BY <1>1 DEF Locked
<1>7. OpenFiles' = [OpenFiles EXCEPT ![o] = [node |-> open'[o].node, pos |-> Pointer(o)']]
  BY <1>1, <1>3, <1>4, <1>6, OneFile
<1>8. Pointer(o)' = r.pos
  BY <1>1, <1>4, <1>5 DEF Pointer
<1>9. OpenFiles[o].node = 0
  <2>1. opened \in Nat /\ open[o] = NoOpen
    BY <1>0, <1>1 DEF TypeOK, StoreInv
  <2>. QED
    BY <1>1, <2>1 DEF OpenFiles, NoOpen
<1>10. UNCHANGED Searches
  BY <1>1, SearchesKept
<1>11. UNCHANGED Requests
  <2>1. Request(k) = Files!Nothing /\ Request(job[t]) = Files!Nothing
    BY <1>1, <1>3, NoRequest
  <2>. QED
    BY <1>3, <2>1, RequestsMove
<1>12. OpenFiles' = [OpenFiles EXCEPT ![o] = [node |-> x, pos |-> r.pos]]
  BY <1>2, <1>4, <1>7, <1>8
<1>. QED
  BY <1>1, <1>2, <1>9, <1>10, <1>11, <1>12 DEF Files!Open

LEMMA AskStep ==
  ASSUME TypeOK, LockInv, NEW t \in Threads, NEW h \in Handles,
         ReadFile(t, h) \/ WriteFile(t, h) \/ SetFilePointerEx(t, h) \/ SetFilePointer(t, h)
           \/ SetEndOfFile(t, h) \/ GetFileSize(t, h) \/ GetFileInformationByHandle(t, h)
           \/ FlushFileBuffers(t, h)
  PROVE  Files!Ask(t) \/ UNCHANGED Files!vars
<1>1. /\ UNCHANGED <<names, size, open, holder, find, given>> /\ job[t] = Idle
  BY CallEffect DEF volume, objects, searches
<1>2. PICK k : /\ Moves(t, k) /\ k.at = "lock"
               /\ k.op \in {"read", "write", "seek", "seek_halves", "query", "end"}
  BY CallEffect
<1>3. ~Locked(t) /\ Request(job[t]) = Files!Nothing
  BY <1>1, IdleType, NoRequest DEF Locked
<1>4. CASE k.op = "query"
  <2>1. Request(k) = Files!Nothing
    BY <1>4, NoRequest
  <2>. QED
    BY <1>1, <1>2, <1>3, <2>1, Stutter
<1>5. CASE k.op # "query"
  <2>1. Request(k) # Files!Nothing
    BY <1>2, <1>5, RequestFacts
  <2>2. /\ Requests' = [Requests EXCEPT ![t] = Requests'[t]] /\ Requests'[t] # Files!Nothing
        /\ Requests[t] = Files!Nothing
    BY <1>2, <1>3, <2>1, RequestsMove
  <2>3. UNCHANGED <<names, size, OpenFiles, Searches>>
    BY <1>1, <1>2, <1>3, FilesKept, SearchesKept
  <2>. QED
    BY <2>2, <2>3 DEF Files!Ask
<1>. QED
  BY <1>4, <1>5

(* The request of a call on the open file o, and the pointer it is about. *)
LEMMA TargetFacts ==
  ASSUME TypeOK, StageInv, LockInv, NEW t \in Threads,
         job[t].at \in {"lock", "transfer", "set_len"}, job[t].op # "query"
  PROVE  LET j == job[t]  r == Requests[t]
         IN  /\ r.op = IF j.op = "seek_halves" THEN "seek" ELSE j.op
             /\ r.o = j.o /\ r.n = j.n /\ r # Files!Nothing
             /\ OpenFiles[r.o].node = open[j.o].node /\ OpenFiles[r.o].pos = Pointer(j.o)
             /\ j.method = 0 => Files!Target(t) = j.off + 0
             /\ j.method = 1 => Files!Target(t) = j.off + Pointer(j.o)
             /\ j.method = 2 => Files!Target(t) = j.off + size[open[j.o].node]
<1> DEFINE j == job[t]
           r == Requests[t]
<1>1. j.o \in Opens
  BY OpenedFile
<1>2. j.op # "none"
  BY DEF StageInv, StageOf
<1>3. r = Request(j)
  BY DEF Requests
<1>4. /\ r.op = IF j.op = "seek_halves" THEN "seek" ELSE j.op
      /\ r.o = j.o /\ r.method = j.method /\ r.off = j.off /\ r.n = j.n /\ r # Files!Nothing
  BY <1>2, <1>3, RequestFacts
<1>5. OpenFiles[j.o] = [node |-> open[j.o].node, pos |-> Pointer(j.o)]
  BY <1>1, PointerFacts
<1>6. OpenFiles[j.o].node = open[j.o].node /\ OpenFiles[j.o].pos = Pointer(j.o)
  BY <1>5
<1> HIDE DEF r
<1>7. /\ r.method = 0 => Files!Target(t) = r.off + 0
      /\ r.method = 1 => Files!Target(t) = r.off + OpenFiles[r.o].pos
      /\ r.method = 2 => Files!Target(t) = r.off + size[OpenFiles[r.o].node]
  BY DEF Files!Target, r
<1>. QED
  BY <1>4, <1>6, <1>7 DEF r

LEMMA AnsweredFacts ==
  ASSUME TypeOK, NEW t \in Threads, Moves(t, Idle)
  PROVE  Files!Answered(t)
<1>1. Request(Idle) = Files!Nothing
  BY IdleType, NoRequest
<1>. QED
  BY <1>1, RequestsMove, IdleType DEF Files!Answered

LEMMA LockFileStep ==
  ASSUME TypeOK, StageInv, StoreInv, LockInv, NEW t \in Threads, LockFile(t)
  PROVE  Files!Fail(t) \/ Files!Seek(t) \/ UNCHANGED Files!vars
<1>0. PICK o : o = job[t].o
  OBVIOUS
<1> DEFINE to == Base(job[t]) + Distance(job[t])
<1>1. /\ UNCHANGED <<names, size, find, given>> /\ job[t].at = "lock" /\ holder[o] = NoThread
      /\ o \in Opens /\ ~Locked(t)
      /\ job[t].op \in {"read", "write", "seek", "seek_halves", "query", "end"}
  BY <1>0, LockEffect DEF volume, searches, Locked
<1>2. UNCHANGED Searches
  BY <1>1, SearchesKept
<1>p. Pointer(o) = open[o].pos
  BY <1>1 DEF Pointer
<1>3. CASE Moves(t, Idle) /\ UNCHANGED <<open, holder>>
  <2>1. CASE job[t].op = "query"
    <3>1. Request(Idle) = Request(job[t])
      BY <2>1, NoRequest, IdleType
    <3>. QED
      BY <1>1, <1>3, <3>1, Stutter
  <2>2. CASE job[t].op # "query"
    <3>1. Files!Answered(t)
      BY <1>3, AnsweredFacts
    <3>2. Requests[t] # Files!Nothing
      BY <1>1, <2>2, TargetFacts
    <3>3. UNCHANGED OpenFiles
      BY <1>1, <1>3, FilesKept
    <3>. QED
      BY <1>1, <1>2, <3>1, <3>2, <3>3 DEF Files!Fail
  <2>. QED
    BY <2>1, <2>2
<1>4. CASE /\ Moves(t, Idle) /\ job[t].op \in {"seek", "seek_halves"}
           /\ to \in Positions /\ open' = [open EXCEPT ![o].pos = to] /\ UNCHANGED holder
  <2>1. /\ open'[o].pos = to /\ open'[o].node = open[o].node
        /\ \A x \in Opens : x # o => open'[x] = open[x]
    BY <1>1, <1>4, PointerMoved
  <2>2. OpenFiles' = [OpenFiles EXCEPT ![o] = [node |-> open'[o].node, pos |-> Pointer(o)']]
    BY <1>1, <1>4, <2>1, OneFile
  <2>3. Pointer(o)' = to
    BY <1>1, <1>4, <2>1 DEF Pointer
  <2>4. PICK p : p = to
    OBVIOUS
  <2>5. Files!PointerAt(o, p)
    BY <1>1, <2>1, <2>2, <2>3, <2>4, PointsAt
  <2>6. job[t] \in Job
    BY DEF TypeOK
  <2>7. job[t].off \in Int /\ job[t].method \in 0..2
    BY <2>6 DEF Job
  <2>8. Distance(job[t]) = job[t].off
    BY <2>7, Halves DEF Distance
  <2>9. Files!Target(t) = p
    <3>1. open[o].pos \in Int
      BY <1>1 DEF TypeOK, Positions
    <3>2. CASE job[t].method = 0
      <4>1. Files!Target(t) = job[t].off + 0
        BY <1>1, <1>4, <3>2, TargetFacts
      <4>2. to = 0 + job[t].off
        BY <2>8, <3>2 DEF Base
      <4>. QED
        BY <2>4, <2>7, <4>1, <4>2
    <3>3. CASE job[t].method = 1
      <4>1. Files!Target(t) = job[t].off + open[o].pos
        BY <1>0, <1>1, <1>4, <1>p, <3>3, TargetFacts
      <4>2. to = open[o].pos + job[t].off
        BY <1>0, <2>8, <3>3 DEF Base
      <4>. QED
        BY <2>4, <2>7, <3>1, <4>1, <4>2
    <3>4. CASE job[t].method = 2
      <4>1. Files!Target(t) = job[t].off + size[open[o].node]
        BY <1>0, <1>1, <1>4, <3>4, TargetFacts
      <4>2. to = size[open[o].node] + job[t].off
        BY <1>0, <2>8, <3>4 DEF Base
      <4>3. size[open[o].node] \in Int
        BY <1>0, <1>1, OpenedFile DEF StoreInv, TypeOK, Positions
      <4>. QED
        BY <2>4, <2>7, <4>1, <4>2, <4>3
    <3>. QED
      BY <2>7, <3>2, <3>3, <3>4
  <2>10. Files!Answered(t)
    BY <1>4, AnsweredFacts
  <2>11. Requests[t].op = "seek" /\ Requests[t].o = o
    BY <1>0, <1>1, <1>4, TargetFacts
  <2>. QED
    BY <1>1, <1>2, <2>5, <2>9, <2>10, <2>11 DEF Files!Seek
<1>5. ASSUME Lock(t, o), NEW k, Moves(t, k), Keeps(k, job[t]),
             k.at \in {"transfer", "set_len"}, k.o = o, k.was = open[o].pos,
             UNCHANGED open \/ (to \in Positions /\ open' = [open EXCEPT ![o].pos = to])
      PROVE  UNCHANGED Files!vars
  <2>1. /\ open'[o].node = open[o].node
        /\ \A x \in Opens : x # o => open'[x] = open[x] /\ holder'[x] = holder[x]
        /\ holder'[o] = t
    <3>1. holder'[o] = t /\ \A x \in Opens : x # o => holder'[x] = holder[x]
      BY <1>1, <1>5 DEF Lock, TypeOK
    <3>2. CASE UNCHANGED open
      BY <3>1, <3>2
    <3>3. CASE to \in Positions /\ open' = [open EXCEPT ![o].pos = to]
      BY <1>1, <3>1, <3>3, PointerMoved
    <3>. QED
      BY <1>5, <3>2, <3>3
  <2>2. OpenFiles' = [OpenFiles EXCEPT ![o] = [node |-> open'[o].node, pos |-> Pointer(o)']]
    BY <1>1, <1>5, <2>1, OneFile
  <2>3. Pointer(o)' = open[o].pos
    BY <1>1, <1>5, <2>1, WinAssumption DEF Pointer, Moves
  <2>4. OpenFiles[o] = [node |-> open[o].node, pos |-> open[o].pos]
    BY <1>1, <1>p, PointerFacts
  <2>5. UNCHANGED OpenFiles
    BY <2>1, <2>2, <2>3, <2>4 DEF OpenFiles
  <2>6. Request(k) = Request(job[t])
    BY <1>0, <1>1, <1>5 DEF Request, Keeps
  <2>7. UNCHANGED Requests
    BY <1>5, <2>6, RequestsMove
  <2>. QED
    BY <1>1, <1>2, <2>5, <2>7 DEF Files!vars
<1>. QED
  BY <1>0, <1>3, <1>4, <1>5, LockEffect

(* The end of a call under the lock: the pointer a caller sees moves from  *)
(* where it was before the lock to where the stream left it.               *)
LEMMA TransferFacts ==
  ASSUME TypeOK, StageInv, StoreInv, LockInv, NEW t \in Threads,
         ReadStream(t) \/ WriteStream(t) \/ SetLen(t), NEW o, o = job[t].o
  PROVE  /\ UNCHANGED <<names, Searches>> /\ Files!Answered(t)
         /\ o \in Opens /\ open[o].node \in Nodes /\ open[o].pos \in Positions
         /\ job[t].n \in {0, 1} /\ size[open[o].node] \in Positions
         /\ Requests[t].op = job[t].op /\ Requests[t].o = o /\ Requests[t].n = job[t].n
         /\ Requests[t] # Files!Nothing
         /\ OpenFiles[o].node = open[o].node /\ OpenFiles[o].pos = job[t].was
         /\ job[t].at = "transfer" => Files!Target(t) = open[o].pos
         /\ UNCHANGED open => Files!PointerAt(o, open[o].pos)
         /\ \A p \in Positions : open' = [open EXCEPT ![o].pos = p] => Files!PointerAt(o, p)
<1>1. /\ UNCHANGED <<names, find, given>> /\ job[t].at \in {"transfer", "set_len"}
      /\ o \in Opens /\ open[o].node \in Nodes /\ Moves(t, Idle)
      /\ holder' = [holder EXCEPT ![o] = NoThread]
  BY TransferEffect DEF searches, Unlock
<1>2. /\ open[o].pos \in Positions /\ job[t].n \in {0, 1} /\ job[t].was \in Positions
      /\ job[t].off \in Int
  BY <1>1, OpenedFile
<1>3. size[open[o].node] \in Positions
  BY <1>1 DEF TypeOK
<1>4. Locked(t) /\ holder[o] = t /\ job[t].op # "query" /\ job[t].op # "seek_halves"
  BY <1>1 DEF Locked, LockInv
<1>5. holder'[o] = NoThread /\ \A x \in Opens : x # o => holder'[x] = holder[x]
  BY <1>1 DEF TypeOK
<1>6. Pointer(o) = job[t].was
  BY <1>1, <1>4, PointerFacts
<1>7. /\ Requests[t].op = job[t].op /\ Requests[t].o = o /\ Requests[t].n = job[t].n
      /\ Requests[t] # Files!Nothing
      /\ OpenFiles[o].node = open[o].node /\ OpenFiles[o].pos = job[t].was
  BY <1>1, <1>4, <1>6, TargetFacts
<1>8. ASSUME job[t].at = "transfer" PROVE Files!Target(t) = open[o].pos
  <2>1. /\ open[o].pos = job[t].off + IF job[t].method = 0 THEN 0 ELSE job[t].was
        /\ job[t].method \in {0, 1}
    BY <1>8, <1>1 DEF LockInv, StageInv, StageOf
  <2>2. CASE job[t].method = 0
    BY <1>1, <1>4, <2>1, <2>2, TargetFacts
  <2>3. CASE job[t].method = 1
    BY <1>1, <1>4, <1>6, <2>1, <2>3, TargetFacts
  <2>. QED
    BY <2>1, <2>2, <2>3
<1>9. Pointer(o)' = open'[o].pos
  BY <1>5 DEF Pointer
<1>10. UNCHANGED Searches /\ Files!Answered(t)
  BY <1>1, SearchesKept, AnsweredFacts
<1>11. ASSUME NEW p, open'[o].node = open[o].node, open'[o].pos = p,
              \A x \in Opens : x # o => open'[x] = open[x]
       PROVE  Files!PointerAt(o, p)
  <2>1. OpenFiles' = [OpenFiles EXCEPT ![o] = [node |-> open'[o].node, pos |-> Pointer(o)']]
    BY <1>1, <1>5, <1>11, OneFile
  <2>. QED
    BY <1>1, <1>9, <1>11, <2>1, PointsAt
<1>12. UNCHANGED open => Files!PointerAt(o, open[o].pos)
  <2>1. PICK p : p = open[o].pos
    OBVIOUS
  <2>. QED
    BY <1>11, <2>1
<1>13. ASSUME NEW p \in Positions, open' = [open EXCEPT ![o].pos = p]
       PROVE  Files!PointerAt(o, p)
  <2>1. /\ open'[o].node = open[o].node /\ open'[o].pos = p
        /\ \A x \in Opens : x # o => open'[x] = open[x]
    BY <1>1, <1>13, PointerMoved
  <2>. QED
    BY <1>11, <2>1
<1>. QED
  BY <1>1, <1>2, <1>3, <1>7, <1>8, <1>10, <1>12, <1>13

LEMMA ReadStep ==
  ASSUME TypeOK, StageInv, StoreInv, LockInv, NEW t \in Threads, ReadStream(t)
  PROVE  Files!ReadAt(t)
<1>0. PICK o, n, x, p : o = job[t].o /\ n = job[t].n /\ x = open[o].node /\ p = open[o].pos
  OBVIOUS
<1>1. /\ UNCHANGED <<names, size, Searches>> /\ Files!Answered(t) /\ o \in Opens
      /\ p \in Positions /\ n \in {0, 1} /\ size[x] \in Positions /\ job[t].at = "transfer"
      /\ Requests[t].op = "read" /\ Requests[t].o = o /\ Requests[t].n = n
      /\ OpenFiles[o].node = x /\ Files!Target(t) = p
  <2>1. job[t].at = "transfer" /\ job[t].op = "read" /\ UNCHANGED size
    BY DEF ReadStream, At, volume
  <2>. QED
    BY <1>0, <2>1, TransferFacts
<1>2. \/ UNCHANGED open
      \/ p + n <= size[x] /\ open' = [open EXCEPT ![o].pos = @ + n]
  BY <1>0 DEF ReadStream
<1>3. p \in Nat /\ size[x] \in Nat /\ Limit \in Nat
  BY <1>1, WinAssumption DEF Positions
<1>4. CASE UNCHANGED open
  <2>1. Files!PointerAt(o, p)
    BY <1>0, <1>4, TransferFacts
  <2>2. 0 \in 0..n /\ p + 0 = p
    BY <1>1, <1>3
  <2>. QED
    BY <1>1, <2>1, <2>2 DEF Files!ReadAt
<1>5. CASE p + n <= size[x] /\ open' = [open EXCEPT ![o].pos = @ + n]
  <2>1. p + n \in Positions
    BY <1>1, <1>3, <1>5 DEF Positions
  <2>2. open' = [open EXCEPT ![o].pos = p + n]
    BY <1>0, <1>5
  <2>3. PICK q \in Positions : q = p + n
    BY <2>1
  <2>4. Files!PointerAt(o, q)
    BY <1>0, <2>2, <2>3, TransferFacts
  <2>5. n \in 0..n
    BY <1>1
  <2>. QED
    BY <1>1, <1>5, <2>3, <2>4, <2>5 DEF Files!ReadAt
<1>. QED
  BY <1>2, <1>4, <1>5

LEMMA WriteStep ==
  ASSUME TypeOK, StageInv, StoreInv, LockInv, NEW t \in Threads, WriteStream(t)
  PROVE  Files!WriteAt(t) \/ Files!Fail(t)
<1>0. PICK o, n, x, p : o = job[t].o /\ n = job[t].n /\ x = open[o].node /\ p = open[o].pos
  OBVIOUS
<1>1. /\ UNCHANGED <<names, Searches>> /\ Files!Answered(t) /\ o \in Opens
      /\ p \in Positions /\ n \in {0, 1} /\ job[t].at = "transfer"
      /\ Requests[t].op = "write" /\ Requests[t].o = o /\ Requests[t].n = n
      /\ Requests[t] # Files!Nothing
      /\ OpenFiles[o].node = x /\ Files!Target(t) = p
  <2>1. job[t].at = "transfer" /\ job[t].op = "write"
    BY DEF WriteStream, At
  <2>. QED
    BY <1>0, <2>1, TransferFacts
<1>2. \/ UNCHANGED <<open, size>>
      \/ /\ n > 0 /\ p + n \in Positions /\ open' = [open EXCEPT ![o].pos = p + n]
         /\ size' = [size EXCEPT ![x] = IF p + n > @ THEN p + n ELSE @]
  BY <1>0 DEF WriteStream
<1>3. CASE UNCHANGED <<open, size>>
  <2>1. Files!PointerAt(o, p)
    BY <1>0, <1>3, TransferFacts
  <2>. QED
    BY <1>1, <1>3, <2>1 DEF Files!Fail
<1>4. CASE /\ n > 0 /\ p + n \in Positions /\ open' = [open EXCEPT ![o].pos = p + n]
           /\ size' = [size EXCEPT ![x] = IF p + n > @ THEN p + n ELSE @]
  <2>1. PICK q \in Positions : q = p + n
    BY <1>4
  <2>2. Files!PointerAt(o, q)
    BY <1>0, <1>4, <2>1, TransferFacts
  <2>3. size' = [size EXCEPT ![x] = IF n > 0 /\ q > @ THEN q ELSE @]
    BY <1>4, <2>1
  <2>. QED
    BY <1>1, <2>1, <2>2, <2>3 DEF Files!WriteAt
<1>. QED
  BY <1>2, <1>3, <1>4

LEMMA SetLenStep ==
  ASSUME TypeOK, StageInv, StoreInv, LockInv, NEW t \in Threads, SetLen(t)
  PROVE  Files!SetEnd(t) \/ Files!Fail(t)
<1>0. PICK o, x, p : o = job[t].o /\ x = open[o].node /\ p = open[o].pos
  OBVIOUS
<1>1. /\ UNCHANGED <<names, Searches, open>> /\ Files!Answered(t) /\ o \in Opens
      /\ job[t].at = "set_len" /\ Files!PointerAt(o, p)
      /\ Requests[t].o = o /\ Requests[t] # Files!Nothing /\ Requests[t].op = job[t].op
      /\ OpenFiles[o].node = x /\ OpenFiles[o].pos = job[t].was
  BY <1>0, TransferFacts DEF SetLen, At
<1>2. job[t].op = "end" /\ p = job[t].was
  BY <1>0, <1>1 DEF LockInv
<1>3. UNCHANGED OpenFiles
  <2>1. OpenFiles' = [OpenFiles EXCEPT ![o].pos = OpenFiles[o].pos]
    BY <1>1, <1>2 DEF Files!PointerAt
  <2>2. OpenFiles = [y \in Opens |-> [node |-> open[y].node, pos |-> Pointer(y)]]
    BY DEF OpenFiles
  <2>3. [OpenFiles[o] EXCEPT !.pos = OpenFiles[o].pos] = OpenFiles[o]
    BY <1>1, <2>2
  <2>4. [OpenFiles EXCEPT ![o].pos = OpenFiles[o].pos]
          = [OpenFiles EXCEPT ![o] = [OpenFiles[o] EXCEPT !.pos = OpenFiles[o].pos]]
    BY <1>1, <2>2
  <2>5. [OpenFiles EXCEPT ![o] = OpenFiles[o]] = OpenFiles
    BY <1>1, <2>2
  <2>. QED
    BY <2>1, <2>3, <2>4, <2>5
<1>4. CASE UNCHANGED size
  BY <1>1, <1>3, <1>4 DEF Files!Fail
<1>5. CASE size' = [size EXCEPT ![x] = job[t].was]
  BY <1>1, <1>2, <1>3, <1>5 DEF Files!SetEnd
<1>. QED
  BY <1>0, <1>4, <1>5 DEF SetLen

-----------------------------------------------------------------------------
(* The refinement: searches *)

LEMMA OneSearch ==
  ASSUME NEW f \in Finds, \A x \in Finds : x # f => find'[x] = find[x] /\ given'[x] = given[x]
  PROVE  /\ Searches' = [Searches EXCEPT ![f] = [left |-> Remaining(f)', given |-> given'[f]]]
         /\ Searches'[f] = [left |-> Remaining(f)', given |-> given'[f]]
         /\ Searches[f] = [left |-> Remaining(f), given |-> given[f]]
<1>1. \A x \in Finds : x # f => Remaining(x)' = Remaining(x)
  BY DEF Remaining
<1>2. /\ Searches = [x \in Finds |-> [left |-> Remaining(x), given |-> given[x]]]
      /\ Searches' = [x \in Finds |-> [left |-> Remaining(x)', given |-> given'[x]]]
  BY DEF Searches
<1>. QED
  BY <1>1, <1>2

(* A step that a caller sees only in the searches. *)
LEMMA OnlySearches ==
  ASSUME TypeOK, LockInv, UNCHANGED <<names, size, open, holder>>, NEW t \in Threads, NEW k,
         Moves(t, k), job[t].at \notin {"lock", "transfer", "set_len"},
         k.at \notin {"lock", "transfer", "set_len"}
  PROVE  UNCHANGED <<names, size, OpenFiles, Requests>>
<1>1. ~Locked(t)
  BY DEF Locked
<1>2. Request(k) = Files!Nothing /\ Request(job[t]) = Files!Nothing
  BY NoRequest
<1>3. UNCHANGED OpenFiles
  BY <1>1, FilesKept
<1>4. UNCHANGED Requests
  BY <1>2, RequestsMove
<1>. QED
  BY <1>3, <1>4

LEMMA ListStep ==
  ASSUME TypeOK, StageInv, StoreInv, LockInv, NEW t \in Threads, NEW at \in {"list", "exact"},
         find_matches(t, at)
  PROVE  (\E f \in Finds : Files!Snapshot(f)) \/ UNCHANGED Files!vars
<1>0. PICK f, s, p : f = found + 1 /\ s = Matches(p) /\ p = job[t].path
  OBVIOUS
<1>1. /\ UNCHANGED <<names, size, open, holder, given>> /\ job[t].at \in {"list", "exact"}
      /\ p \in Names \cup {Star}
  BY <1>0, ListEffect DEF volume, objects
<1>2. ASSUME UNCHANGED find, NEW k, Moves(t, k), k.at \in {"idle", "exact"}
      PROVE  UNCHANGED Files!vars
  <2>1. UNCHANGED <<names, size, OpenFiles, Requests>>
    BY <1>1, <1>2, OnlySearches
  <2>2. UNCHANGED Searches
    BY <1>1, <1>2, SearchesKept
  <2>. QED
    BY <2>1, <2>2 DEF Files!vars
<1>3. ASSUME s # <<>>, f \in Finds, find' = [find EXCEPT ![f].entries = s],
             NEW k, Moves(t, k), k.at = "carrier"
      PROVE  Files!Snapshot(f)
  <2>1. s \in Seq(Names)
    BY <1>0, MatchesFacts
  <2>2. found \in Nat /\ f > found
    BY <1>0, WinAssumption DEF TypeOK
  <2>3. find[f].entries = <<>> /\ find[f].next = 0 /\ given[f] = <<>>
    BY <1>3, <2>2 DEF StoreInv, NoFind
  <2>4. /\ find'[f].entries = s /\ find'[f].next = 0
        /\ \A x \in Finds : x # f => find'[x] = find[x]
    BY <1>3, <2>1, <2>3, EntriesSet
  <2>5. Remaining(f) = <<>>
    <3>1. SubSeq(<<>>, 1, 0) = <<>>
      BY SubSeqEmpty
    <3>. QED
      BY <2>3, <3>1 DEF Remaining
  <2>6. Remaining(f)' = s
    <3>1. SubSeq(s, 1, Len(s)) = s
      BY <2>1, SubSeqFull
    <3>. QED
      BY <2>4, <3>1 DEF Remaining
  <2>7. /\ Searches' = [Searches EXCEPT ![f] = Searches'[f]]
        /\ Searches'[f] = [left |-> s, given |-> <<>>]
        /\ Searches[f] = [left |-> <<>>, given |-> <<>>]
    BY <1>1, <1>3, <2>3, <2>4, <2>5, <2>6, OneSearch
  <2>8. Searches'[f].left = s /\ Searches'[f].given = <<>>
    BY <2>7
  <2>9. Files!NoRepeat(Searches'[f].left)
    BY <1>0, <2>8, MatchesFacts DEF Files!NoRepeat
  <2>10. Files!Elements(s) = Matching(p)
    BY <1>0, MatchesFacts DEF Files!Elements
  <2>11. \/ Files!Elements(Searches'[f].left) = Files!Live
         \/ \E a \in Files!Live : Searches'[f].left = <<a>>
    <3>1. CASE p = Star
      BY <2>8, <2>10, <3>1 DEF Matching, Files!Live
    <3>2. CASE p \in Names
      <4>0. p # Star
        BY <3>2, WinAssumption
      <4>1. Matching(p) \subseteq {p}
        BY <4>0 DEF Matching
      <4>2. Matching(p) = {p} /\ p \in Files!Live
        BY <1>0, <1>3, <4>1, MatchesFacts DEF Matching, Files!Live
      <4>3. DOMAIN s = 1..Len(s) /\ Len(s) \in Nat
        BY <2>1
      <4>4. \A i \in DOMAIN s : s[i] = p
        BY <2>10, <4>2 DEF Files!Elements
      <4>5. \A i, j \in DOMAIN s : i = j
        BY <1>0, <4>4, MatchesFacts
      <4>6. Len(s) # 0
        BY <1>3, <2>1, EmptySeq
      <4>7. Len(s) = 1
        <5> SUFFICES ASSUME Len(s) # 1 PROVE FALSE
          OBVIOUS
        <5>1. 1 \in DOMAIN s /\ 2 \in DOMAIN s
          BY <4>3, <4>6
        <5>. QED
          BY <4>5, <5>1
      <4>8. s = <<p>>
        BY <2>1, <4>3, <4>4, <4>7
      <4>. QED
        BY <2>8, <4>2, <4>8
    <3>. QED
      BY <1>1, <3>1, <3>2
  <2>12. UNCHANGED <<names, size, OpenFiles, Requests>>
    BY <1>1, <1>3, OnlySearches
  <2>. QED
    BY <2>7, <2>8, <2>9, <2>11, <2>12 DEF Files!Snapshot
<1>4. Idle.at = "idle"
  BY IdleType
<1>. QED
  BY <1>0, <1>2, <1>3, <1>4, ListEffect

(* What is left of a search loses its first name, and the caller gets it. *)
LEMMA Given ==
  ASSUME NEW f \in Finds, \A x \in Finds : x # f => find'[x] = find[x] /\ given'[x] = given[x],
         Remaining(f) # <<>>, Remaining(f)' = Tail(Remaining(f)),
         given'[f] = Append(given[f], Head(Remaining(f))),
         UNCHANGED <<names, size, OpenFiles, Requests>>
  PROVE  Files!Give(f)
<1>1. /\ Searches' = [Searches EXCEPT ![f] = [left |-> Remaining(f)', given |-> given'[f]]]
      /\ Searches[f] = [left |-> Remaining(f), given |-> given[f]]
  BY OneSearch
<1>2. Searches[f].left = Remaining(f) /\ Searches[f].given = given[f]
  BY <1>1
<1>3. Searches' = [Searches EXCEPT ![f] =
                     [left |-> Tail(Searches[f].left),
                      given |-> Append(Searches[f].given, Head(Searches[f].left))]]
  BY <1>1, <1>2
<1>. QED
  BY <1>2, <1>3 DEF Files!Give

LEMMA FirstStep ==
  ASSUME TypeOK, StageInv, LockInv, SearchInv, NEW t \in Threads, insert_find(t)
  PROVE  \E f \in Finds : Files!Give(f)
<1>0. PICK f, s : f = job[t].o /\ s = find[f].entries
  OBVIOUS
<1>1. /\ UNCHANGED <<names, size, open, holder>> /\ job[t].at = "insert" /\ Moves(t, Idle)
      /\ f \in Finds /\ s \in Seq(Names) /\ s # <<>> /\ find[f].next = 0
      /\ Tail(s) \in Seq(Names)
      /\ given' = [given EXCEPT ![f] = Append(given[f], Head(s))]
      /\ find' = [find EXCEPT ![f].entries = Tail(s)]
  BY <1>0, InsertFindEffect DEF volume, objects
<1>2. /\ find'[f].entries = Tail(s) /\ find'[f].next = 0
      /\ \A x \in Finds : x # f => find'[x] = find[x]
  BY <1>1, EntriesSet
<1>3. /\ given'[f] = Append(given[f], Head(s))
      /\ \A x \in Finds : x # f => given'[x] = given[x]
  BY <1>1 DEF TypeOK
<1>4. Remaining(f) = s
  <2>1. SubSeq(s, 1, Len(s)) = s
    BY <1>1, SubSeqFull
  <2>. QED
    BY <1>0, <1>1, <2>1 DEF Remaining
<1>5. Remaining(f)' = Tail(s)
  <2>1. SubSeq(Tail(s), 1, Len(Tail(s))) = Tail(s)
    BY <1>1, SubSeqFull
  <2>. QED
    BY <1>2, <2>1 DEF Remaining
<1>6. UNCHANGED <<names, size, OpenFiles, Requests>>
  BY <1>1, IdleType, OnlySearches
<1>. QED
  BY <1>1, <1>2, <1>3, <1>4, <1>5, <1>6, Given

LEMMA GiveStep ==
  ASSUME TypeOK, StageInv, LockInv, NEW t \in Threads, GiveEntry(t)
  PROVE  (\E f \in Finds : Files!Give(f)) \/ UNCHANGED Files!vars
<1>0. PICK f, s, n : f = job[t].o /\ s = find[f].entries /\ n = find[f].next
  OBVIOUS
<1>1. /\ UNCHANGED <<names, size, open, holder>> /\ job[t].at = "next" /\ Moves(t, Idle)
      /\ f \in Finds /\ s \in Seq(Names) /\ n \in Nat
      /\ \/ UNCHANGED <<given, find>>
         \/ /\ n < Len(s)
            /\ given' = [given EXCEPT ![f] = Append(given[f], s[n + 1])]
            /\ find' = [find EXCEPT ![f].next = n + 1]
  BY <1>0, GiveEffect DEF volume, objects
<1>2. UNCHANGED <<names, size, OpenFiles, Requests>>
  BY <1>1, IdleType, OnlySearches
<1>3. CASE UNCHANGED <<given, find>>
  BY <1>2, <1>3, SearchesKept DEF Files!vars
<1>4. CASE /\ n < Len(s) /\ given' = [given EXCEPT ![f] = Append(given[f], s[n + 1])]
           /\ find' = [find EXCEPT ![f].next = n + 1]
  <2>1. n + 1 \in Nat /\ n + 1 \in 1..Len(s) /\ Len(s) \in (n + 1)..Len(s) /\ Len(s) \in Nat
    BY <1>1, <1>4
  <2>2. /\ find'[f].entries = s /\ find'[f].next = n + 1
        /\ \A x \in Finds : x # f => find'[x] = find[x]
    BY <1>0, <1>1, <1>4, <2>1, NextSet
  <2>3. /\ given'[f] = Append(given[f], s[n + 1])
        /\ \A x \in Finds : x # f => given'[x] = given[x]
    BY <1>1, <1>4 DEF TypeOK
  <2>4. Remaining(f) = SubSeq(s, n + 1, Len(s)) /\ Remaining(f)' = SubSeq(s, (n + 1) + 1, Len(s))
    BY <1>0, <2>2 DEF Remaining
  <2>5. /\ Head(SubSeq(s, n + 1, Len(s))) = s[n + 1]
        /\ Tail(SubSeq(s, n + 1, Len(s))) = SubSeq(s, (n + 1) + 1, Len(s))
    BY <1>1, <2>1, HeadTailOfSubSeq
  <2>6. SubSeq(s, n + 1, Len(s)) # <<>>
    <3>1. Len(SubSeq(s, n + 1, Len(s))) # 0
      BY <1>1, <2>1
    <3>2. Len(<<>>) = 0
      OBVIOUS
    <3>. QED
      BY <3>1, <3>2, Zenon
  <2>7. Files!Give(f)
    BY <1>1, <1>2, <2>2, <2>3, <2>4, <2>5, <2>6, Given
  <2>. QED
    BY <1>1, <2>7
<1>. QED
  BY <1>1, <1>3, <1>4

-----------------------------------------------------------------------------
(* The refinement: the whole *)

LEMMA FilesInit == Init => Files!Init
<1> SUFFICES ASSUME Init PROVE Files!Init
  OBVIOUS
<1>1. names = [a \in Names |-> 0] /\ size = [x \in Nodes |-> 0]
  BY DEF Init
<1>2. OpenFiles = [o \in Opens |-> [node |-> 0, pos |-> 0]]
  <2>1. \A o \in Opens : open[o].node = 0 /\ open[o].pos = 0 /\ holder[o] = NoThread
    BY DEF Init, NoOpen
  <2>2. \A o \in Opens : Pointer(o) = 0
    BY <2>1 DEF Pointer
  <2>. QED
    BY <2>1, <2>2 DEF OpenFiles
<1>3. Searches = [f \in Finds |-> [left |-> <<>>, given |-> <<>>]]
  <2>1. \A f \in Finds : find[f].entries = <<>> /\ find[f].next = 0 /\ given[f] = <<>>
    BY DEF Init, NoFind
  <2>2. SubSeq(<<>>, 1, 0) = <<>>
    BY SubSeqEmpty
  <2>3. \A f \in Finds : Remaining(f) = <<>>
    BY <2>1, <2>2 DEF Remaining
  <2>. QED
    BY <2>1, <2>3 DEF Searches
<1>4. Requests = [t \in Threads |-> Files!Nothing]
  <2>1. Request(Idle) = Files!Nothing
    BY IdleType, NoRequest
  <2>. QED
    BY <2>1 DEF Init, Requests
<1>. QED
  BY <1>1, <1>2, <1>3, <1>4 DEF Files!Init

LEMMA FilesNext == Inv /\ Inv' /\ [Next]_vars => [Files!Next]_(Files!vars)
<1> SUFFICES ASSUME Inv, Inv', [Next]_vars PROVE Files!Next \/ UNCHANGED Files!vars
  OBVIOUS
<1> DEFINE Done == Files!Next \/ UNCHANGED Files!vars
           Away == {"lock", "transfer", "set_len"}
<1>0. /\ TypeOK /\ StageInv /\ StoreInv /\ LockInv /\ SearchInv /\ TypeOK'
      /\ Idle.at \notin Away
  BY IdleType DEF Inv
<1>m. ASSUME NEW t \in Threads, NEW k, job[t].at \notin Away, k.at \notin Away
      PROVE  ~Locked(t) /\ Request(k) = Request(job[t])
  <2>1. Request(k) = Files!Nothing /\ Request(job[t]) = Files!Nothing
    BY <1>m, NoRequest
  <2>. QED
    BY <1>m, <2>1 DEF Locked
<1>s. ASSUME UNCHANGED <<names, size, open, holder, find, given>>,
             \/ UNCHANGED job
             \/ \E t \in Threads : \E k : Moves(t, k) /\ job[t].at \notin Away /\ k.at \notin Away
      PROVE  Done
  <2>1. \/ UNCHANGED job
        \/ \E t \in Threads : \E k : Moves(t, k) /\ ~Locked(t) /\ Request(k) = Request(job[t])
    BY <1>m, <1>s
  <2>. QED
    BY <1>0, <1>s, <2>1, Stutter
<1>r. ASSUME UNCHANGED <<size, open, holder, find, given>>,
             \/ UNCHANGED job
             \/ \E t \in Threads : \E k : Moves(t, k) /\ job[t].at \notin Away /\ k.at \notin Away,
             NEW p \in Names, NEW q \in Names, \A a \in Names \ {p, q} : names'[a] = names[a]
      PROVE  Done
  <2>1. \/ UNCHANGED job
        \/ \E t \in Threads : \E k : Moves(t, k) /\ ~Locked(t) /\ Request(k) = Request(job[t])
    BY <1>m, <1>r
  <2>2. Files!Rename \/ UNCHANGED Files!vars
    BY <1>0, <1>r, <2>1, RenameStep
  <2>. QED
    BY <2>2 DEF Files!Next
<1>1. CASE try_activate \/ deactivate
  BY <1>1, <1>s DEF try_activate, deactivate, volume, objects, searches
<1>2. ASSUME NEW t \in Threads, NEW p \in program.paths, NEW access, NEW disposition,
             NEW overlapped, CreateFileW(t, p, access, disposition, overlapped)
      PROVE  Done
  <2>1. /\ UNCHANGED <<names, size, open, holder, find, given>> /\ job[t] = Idle
        /\ UNCHANGED job \/ \E k : Moves(t, k) /\ k.at = "vfs"
    BY <1>0, <1>2, CreateEffect DEF volume, objects, searches
  <2>2. UNCHANGED job \/ \E k : Moves(t, k) /\ job[t].at \notin Away /\ k.at \notin Away
    BY <1>0, <2>1
  <2>. QED
    BY <2>1, <2>2, <1>s
<1>3. ASSUME NEW t \in Threads, OpenStream(t) PROVE Done
  <2>0. PICK p : p = job[t].path
    OBVIOUS
  <2>1. /\ UNCHANGED <<size, open, holder, find, given>> /\ job[t].at = "vfs" /\ p \in Names
        /\ Moves(t, Idle) \/ \E k : Moves(t, k) /\ k.at = "truncate"
        /\ UNCHANGED names \/ names' = [names EXCEPT ![p] = nodes + 1]
    BY <1>0, <1>3, <2>0, OpenEffect DEF objects, searches
  <2>2. \E k : Moves(t, k) /\ job[t].at \notin Away /\ k.at \notin Away
    BY <1>0, <2>1
  <2>3. \A a \in Names \ {p, p} : names'[a] = names[a]
    BY <1>0, <2>1 DEF TypeOK
  <2>. QED
    BY <2>1, <2>2, <2>3, <1>r
<1>4. ASSUME NEW t \in Threads, TruncateNode(t) PROVE Done
  <2>1. Files!Open
    BY <1>0, <1>4, OpenStep
  <2>. QED
    BY <2>1 DEF Files!Next
<1>5. ASSUME NEW t \in Threads, carrier_open(t) \/ carrier_find(t) PROVE Done
  <2>1. /\ UNCHANGED <<names, size, open, holder, find, given>> /\ job[t].at = "carrier"
        /\ Moves(t, Idle) \/ \E k : Moves(t, k) /\ k.at = "insert"
    BY <1>0, <1>5, CarrierEffect DEF volume, objects, searches
  <2>2. \E k : Moves(t, k) /\ job[t].at \notin Away /\ k.at \notin Away
    BY <1>0, <2>1
  <2>. QED
    BY <2>1, <2>2, <1>s
<1>6. ASSUME NEW t \in Threads, insert_file(t) PROVE Done
  <2>1. UNCHANGED <<names, size, open, holder, find, given>> /\ job[t].at = "insert"
    BY <1>6 DEF insert_file, At, volume, objects, searches
  <2>2. Moves(t, Idle)
    BY <1>0, <1>6, MovesIdle DEF insert_file
  <2>3. \E k : Moves(t, k) /\ job[t].at \notin Away /\ k.at \notin Away
    BY <1>0, <2>1, <2>2
  <2>. QED
    BY <2>1, <2>3, <1>s
<1>7. ASSUME NEW t \in Threads, NEW h \in Handles,
             ReadFile(t, h) \/ WriteFile(t, h) \/ SetFilePointerEx(t, h) \/ SetFilePointer(t, h)
               \/ SetEndOfFile(t, h) \/ GetFileSize(t, h) \/ GetFileInformationByHandle(t, h)
               \/ FlushFileBuffers(t, h)
      PROVE  Done
  <2>1. Files!Ask(t) \/ UNCHANGED Files!vars
    BY <1>0, <1>7, AskStep
  <2>. QED
    BY <2>1 DEF Files!Next
<1>8. ASSUME NEW t \in Threads, LockFile(t) PROVE Done
  <2>1. Files!Fail(t) \/ Files!Seek(t) \/ UNCHANGED Files!vars
    BY <1>0, <1>8, LockFileStep
  <2>. QED
    BY <2>1 DEF Files!Next
<1>9. ASSUME NEW t \in Threads, ReadStream(t) \/ WriteStream(t) \/ SetLen(t) PROVE Done
  <2>1. Files!ReadAt(t) \/ Files!WriteAt(t) \/ Files!SetEnd(t) \/ Files!Fail(t)
    BY <1>0, <1>9, ReadStep, WriteStep, SetLenStep
  <2>. QED
    BY <2>1 DEF Files!Next
<1>10. ASSUME NEW t \in Threads, NEW h \in Handles, CloseHandle(t, h) \/ FindClose(t, h)
       PROVE  Done
  <2>1. /\ UNCHANGED <<names, size, open, holder, find, given>> /\ job[t] = Idle
        /\ UNCHANGED job \/ \E k : Moves(t, k) /\ k.at = "close"
    BY <1>0, <1>10, CloseEffect DEF volume, objects, searches
  <2>2. UNCHANGED job \/ \E k : Moves(t, k) /\ job[t].at \notin Away /\ k.at \notin Away
    BY <1>0, <2>1
  <2>. QED
    BY <2>1, <2>2, <1>s
<1>11. ASSUME NEW t \in Threads, CloseCarrier(t) PROVE Done
  <2>1. /\ UNCHANGED <<names, size, open, holder, find, given>> /\ job[t].at = "close"
        /\ Moves(t, Idle)
    BY <1>0, <1>11, CloseCarrierEffect DEF volume, objects, searches
  <2>2. \E k : Moves(t, k) /\ job[t].at \notin Away /\ k.at \notin Away
    BY <1>0, <2>1
  <2>. QED
    BY <2>1, <2>2, <1>s
<1>12. ASSUME NEW t \in Threads, NEW p \in program.paths \cup {Star}, FindFirstFile(t, p)
       PROVE  Done
  <2>1. /\ UNCHANGED <<names, size, open, holder, find, given>> /\ job[t] = Idle
        /\ UNCHANGED job \/ \E k : Moves(t, k) /\ k.at = "list"
    BY <1>0, <1>12, FindEffect DEF volume, objects, searches
  <2>2. UNCHANGED job \/ \E k : Moves(t, k) /\ job[t].at \notin Away /\ k.at \notin Away
    BY <1>0, <2>1
  <2>. QED
    BY <2>1, <2>2, <1>s
<1>13. ASSUME NEW t \in Threads, NEW at \in {"list", "exact"}, find_matches(t, at) PROVE Done
  <2>1. (\E f \in Finds : Files!Snapshot(f)) \/ UNCHANGED Files!vars
    BY <1>0, <1>13, ListStep
  <2>. QED
    BY <2>1 DEF Files!Next
<1>14. ASSUME NEW t \in Threads, insert_find(t) \/ GiveEntry(t) PROVE Done
  <2>1. (\E f \in Finds : Files!Give(f)) \/ UNCHANGED Files!vars
    BY <1>0, <1>14, FirstStep, GiveStep
  <2>. QED
    BY <2>1 DEF Files!Next
<1>15. ASSUME NEW t \in Threads, NEW h \in Handles, FindNextFileW(t, h) PROVE Done
  <2>1. /\ UNCHANGED <<names, size, open, holder, find, given>> /\ job[t] = Idle
        /\ \E k : Moves(t, k) /\ k.at = "next"
    BY <1>0, <1>15, NextEffect DEF volume, objects, searches
  <2>2. \E k : Moves(t, k) /\ job[t].at \notin Away /\ k.at \notin Away
    BY <1>0, <2>1
  <2>. QED
    BY <2>1, <2>2, <1>s
<1>16. ASSUME NEW t \in Threads, NEW p \in program.paths, NEW q \in program.paths,
              \/ PathQuery(t, p) \/ DeleteFileW(t, p) \/ CreateDirectoryW(t, p)
              \/ MoveFileExW(t, p, q)
       PROVE  Done
  <2>1. /\ UNCHANGED <<size, open, holder, find, given, job>>
        /\ \/ UNCHANGED names
           \/ p \in Names /\ \E x : names' = [names EXCEPT ![p] = x]
           \/ p \in Names /\ q \in Names /\ names' = [names EXCEPT ![q] = names[p], ![p] = 0]
    BY <1>0, <1>16, PathEffect DEF objects, searches
  <2>2. CASE UNCHANGED names
    BY <2>1, <2>2, <1>s
  <2>3. CASE p \in Names /\ \E x : names' = [names EXCEPT ![p] = x]
    <3>1. \A a \in Names \ {p, p} : names'[a] = names[a]
      BY <1>0, <2>3 DEF TypeOK
    <3>. QED
      BY <2>1, <2>3, <3>1, <1>r
  <2>4. CASE p \in Names /\ q \in Names /\ names' = [names EXCEPT ![q] = names[p], ![p] = 0]
    <3>1. \A a \in Names \ {p, q} : names'[a] = names[a]
      BY <1>0, <2>4 DEF TypeOK
    <3>. QED
      BY <2>1, <2>4, <3>1, <1>r
  <2>. QED
    BY <2>1, <2>2, <2>3, <2>4
<1>17. CASE UNCHANGED vars
  BY <1>17, <1>s DEF vars
<1>. QED
  BY <1>1, <1>2, <1>3, <1>4, <1>5, <1>6, <1>7, <1>8, <1>9, <1>10, <1>11, <1>12, <1>13, <1>14,
     <1>15, <1>16, <1>17 DEF Next

(* The shims implement Win32Files: whatever the threads do between the     *)
(* lock, the move of the pointer and the call of the provider, each        *)
(* ReadFile, WriteFile, SetFilePointer, SetEndOfFile and FindNextFile      *)
(* takes effect at one instant, and a search gives one snapshot.           *)
THEOREM CallsAreAtomic == Spec => ServedAtomically
BY FilesInit, FilesNext, Invariant, PTL DEF Spec, ServedAtomically, Files!Spec

=============================================================================
