---------------------------- MODULE ImportsProofs ----------------------------
(***************************************************************************)
(* What Module::imports hands to install(), for every image the loader can *)
(* have mapped, whatever its tables say.                                   *)
(*                                                                         *)
(* The parsers are loops that push, so the first part is about sequences:  *)
(* flattening, and folds whose accumulator stays in a set.  Then the three *)
(* formats, each down to its own slot_address; then the module.            *)
(***************************************************************************)
EXTENDS ModuleImports, FiniteSetTheorems, NaturalsInduction, WellFoundedInduction, TLAPS

-----------------------------------------------------------------------------
(* Numbers. *)

LEMMA Least ==
  ASSUME NEW T, T \subseteq Nat, T # {}
  PROVE  \E x \in T : \A y \in T : x <= y
<1> DEFINE R == OpToRel(<, Nat)
<1>1. \E x \in T : \A y \in T : ~ (<<y, x>> \in R)
  <2>1. IsWellFoundedOn(R, Nat)
    BY NatLessThanWellFounded
  <2> HIDE DEF R
  <2> QED
    BY <2>1, WFMin
<1>2. \A x, y \in Nat : <<y, x>> \in R <=> y < x
  BY DEF OpToRel
<1> HIDE DEF R
<1>3. PICK x \in T : \A y \in T : ~ (<<y, x>> \in R)
  BY <1>1
<1>4. ASSUME NEW y \in T PROVE x <= y
  <2>1. x \in Nat /\ y \in Nat
    OBVIOUS
  <2>2. ~ (y < x)
    BY <1>2, <1>3, <2>1
  <2> QED
    BY <2>1, <2>2
<1> QED
  BY <1>4

LEMMA MinIs ==
  ASSUME NEW T, T \subseteq Nat, T # {}
  PROVE  Min(T) \in T /\ \A y \in T : Min(T) <= y
BY Least DEF Min

(* The greatest of some numbers up to n is n less the least distance. *)
LEMMA MaxIs ==
  ASSUME NEW n \in Nat, NEW T \in SUBSET (1..n), T # {}
  PROVE  Max(T) \in T /\ \A y \in T : y <= Max(T)
<1> DEFINE D == {n - y : y \in T}
<1>1. D \subseteq Nat /\ D # {}
  <2>1. \A y \in T : n - y \in Nat
    OBVIOUS
  <2>2. \E y \in T : n - y \in D
    OBVIOUS
  <2> QED
    BY <2>1, <2>2
<1>2. PICK d \in D : \A e \in D : d <= e
  <2> HIDE DEF D
  <2> QED
    BY <1>1, Least
<1>3. PICK x \in T : d = n - x
  OBVIOUS
<1>4. \A y \in T : y <= x
  <2> TAKE y \in T
  <2>1. n - y \in D
    OBVIOUS
  <2> HIDE DEF D
  <2> QED
    BY <1>2, <1>3, <2>1
<1> QED
  BY <1>4 DEF Max

-----------------------------------------------------------------------------
(* Sequences of imports. *)

(* A listing whose slots are all among the cells C. *)
Lists(s, C) == IsSequence(s) /\ \A i \in DOMAIN s : s[i].slot \in C

(* The result of a walk that pushes such imports or fails. *)
Yields(s, C) == s = Malformed \/ Lists(s, C)

LEMMA SequenceIs ==
  ASSUME NEW s, IsSequence(s)
  PROVE  /\ Len(s) \in Nat /\ DOMAIN s = 1..Len(s)
         /\ s = [i \in 1..Len(s) |-> s[i]]
         /\ s \in Seq(ToSet(s))
BY DEF IsSequence

LEMMA SequenceOf ==
  ASSUME NEW S, NEW s \in Seq(S)
  PROVE  IsSequence(s)
<1>1. s \in [1..Len(s) -> S]
  OBVIOUS
<1>2. s \in [1..Len(s) -> ToSet(s)]
  BY <1>1 DEF ToSet
<1> QED
  BY <1>2 DEF IsSequence

LEMMA ListsIn ==
  ASSUME NEW C, NEW S, \A r \in S : r.slot \in C, NEW s \in Seq(S)
  PROVE  Lists(s, C)
BY SequenceOf DEF Lists

LEMMA ListsEmpty ==
  ASSUME NEW C
  PROVE  Lists(<<>>, C)
<1>1. <<>> \in Seq({})
  OBVIOUS
<1> QED
  BY <1>1, ListsIn

LEMMA ListsOne ==
  ASSUME NEW C, NEW r, r.slot \in C
  PROVE  Lists(<<r>>, C)
<1>1. <<r>> \in Seq({r})
  OBVIOUS
<1> QED
  BY <1>1, ListsIn

LEMMA ListsJoin ==
  ASSUME NEW C, NEW s, Lists(s, C), NEW t, Lists(t, C)
  PROVE  Lists(s \o t, C)
<1> DEFINE S == ToSet(s) \cup ToSet(t)
<1>1. s \in Seq(S) /\ t \in Seq(S)
  BY DEF Lists, IsSequence, ToSet
<1>2. \A r \in S : r.slot \in C
  BY DEF Lists, ToSet
<1>3. s \o t \in Seq(S)
  BY <1>1
<1> HIDE DEF S
<1> QED
  BY <1>2, <1>3, ListsIn

(* FlattenSeq: the function behind it, on the first k of the sequences. *)
Flattens(f, seqs, k) ==
  f = [i \in 1..k |-> IF i = 1 THEN seqs[i] ELSE f[i - 1] \o seqs[i]]

LEMMA FlattensExists ==
  ASSUME NEW seqs, NEW n \in Nat
  PROVE  \E f : Flattens(f, seqs, n)
<1> DEFINE Bad == {k \in Nat : ~ \E f : Flattens(f, seqs, k)}
<1>1. SUFFICES ASSUME Bad # {} PROVE FALSE
  OBVIOUS
<1>2. PICK k \in Bad : \A j \in Bad : k <= j
  <2>1. Bad \subseteq Nat
    OBVIOUS
  <2> HIDE DEF Bad
  <2> QED
    BY <1>1, <2>1, Least
<1>3. CASE k = 0
  <2> DEFINE f == [i \in 1..0 |-> <<>>]
  <2>1. f = [i \in 1..0 |-> IF i = 1 THEN seqs[i] ELSE f[i - 1] \o seqs[i]]
    <3>1. \A i \in 1..0 : FALSE
      OBVIOUS
    <3>2. f = [i \in 1..0 |-> f[i]]
      OBVIOUS
    <3> HIDE DEF f
    <3> QED
      BY <3>1, <3>2
  <2> HIDE DEF f
  <2>2. Flattens(f, seqs, 0)
    BY <2>1 DEF Flattens
  <2> QED
    BY <1>3, <2>2
<1>4. CASE k # 0
  <2>1. k - 1 \in Nat /\ k - 1 \notin Bad
    BY <1>2, <1>4
  <2>2. PICK g : Flattens(g, seqs, k - 1)
    BY <2>1
  <2> DEFINE f == [i \in 1..k |-> IF i = k THEN IF k = 1 THEN seqs[k] ELSE g[k - 1] \o seqs[k]
                                  ELSE g[i]]
  <2>3. \A i \in 1..(k - 1) : f[i] = g[i] /\ g[i] = IF i = 1 THEN seqs[i] ELSE g[i - 1] \o seqs[i]
    <3>1. \A i \in 1..(k - 1) : f[i] = g[i]
      <4>1. \A i \in 1..(k - 1) : i \in 1..k /\ i # k
        BY <2>1
      <4> QED
        BY <4>1
    <3>2. \A i \in 1..(k - 1) : g[i] = IF i = 1 THEN seqs[i] ELSE g[i - 1] \o seqs[i]
      BY <2>2 DEF Flattens
    <3> QED
      BY <3>1, <3>2
  <2>4. f[k] = IF k = 1 THEN seqs[k] ELSE g[k - 1] \o seqs[k]
    BY <1>4
  <2>5. f = [i \in 1..k |-> f[i]]
    OBVIOUS
  <2> HIDE DEF f
  <2>6. \A i \in 1..k : f[i] = IF i = 1 THEN seqs[i] ELSE f[i - 1] \o seqs[i]
    <3> SUFFICES ASSUME NEW i \in 1..k
                 PROVE  f[i] = IF i = 1 THEN seqs[i] ELSE f[i - 1] \o seqs[i]
      OBVIOUS
    <3>1. CASE i = k
      <4>1. k # 1 => f[k - 1] = g[k - 1]
        BY <2>3, <1>4
      <4> QED
        BY <2>4, <3>1, <4>1
    <3>2. CASE i # k
      <4>1. i \in 1..(k - 1) /\ (i # 1 => i - 1 \in 1..(k - 1))
        BY <3>2
      <4> QED
        BY <2>3, <4>1
    <3> QED
      BY <3>1, <3>2
  <2>7. Flattens(f, seqs, k)
    BY <2>5, <2>6 DEF Flattens
  <2> QED
    BY <1>2, <2>7
<1> QED
  BY <1>3, <1>4

LEMMA FlattenIs ==
  ASSUME NEW seqs, IsSequence(seqs), Len(seqs) # 0
  PROVE  \E f : Flattens(f, seqs, Len(seqs)) /\ FlattenSeq(seqs) = f[Len(seqs)]
<1> DEFINE f == CHOOSE f : f = [i \in 1..Len(seqs) |->
                  IF i = 1 THEN seqs[i] ELSE f[i - 1] \o seqs[i]]
<1>1. FlattenSeq(seqs) = f[Len(seqs)]
  BY DEF FlattenSeq
<1>2. Flattens(f, seqs, Len(seqs))
  <2>1. \E h : Flattens(h, seqs, Len(seqs))
    BY FlattensExists, SequenceIs
  <2> QED
    BY <2>1, Zenon DEF Flattens
<1> HIDE DEF f
<1> QED
  BY <1>1, <1>2

(* What a loop pushes in each of its turns is what it has pushed. *)
LEMMA ListsFlatten ==
  ASSUME NEW C, NEW seqs, IsSequence(seqs), \A i \in DOMAIN seqs : Lists(seqs[i], C)
  PROVE  Lists(FlattenSeq(seqs), C)
<1>1. Len(seqs) \in Nat /\ DOMAIN seqs = 1..Len(seqs)
  BY SequenceIs
<1>2. CASE Len(seqs) = 0
  BY <1>1, <1>2 DEF FlattenSeq, Lists
<1>3. CASE Len(seqs) # 0
  <2>1. PICK f : Flattens(f, seqs, Len(seqs)) /\ FlattenSeq(seqs) = f[Len(seqs)]
    BY <1>3, FlattenIs
  <2> DEFINE Bad == {i \in 1..Len(seqs) : ~ Lists(f[i], C)}
  <2>2. Bad = {}
    <3>1. SUFFICES ASSUME Bad # {} PROVE FALSE
      OBVIOUS
    <3>2. PICK i \in Bad : \A j \in Bad : i <= j
      <4>1. Bad \subseteq Nat
        BY <1>1
      <4> HIDE DEF Bad
      <4> QED
        BY <3>1, <4>1, Least
    <3>3. f[i] = IF i = 1 THEN seqs[i] ELSE f[i - 1] \o seqs[i]
      BY <2>1 DEF Flattens
    <3>4. i # 1 => i - 1 \in 1..Len(seqs) /\ i - 1 \notin Bad
      BY <1>1, <3>2
    <3> QED
      BY <1>1, <3>2, <3>3, <3>4, ListsJoin
  <2> QED
    BY <1>1, <1>3, <2>1, <2>2
<1> QED
  BY <1>2, <1>3
-----------------------------------------------------------------------------
(* Folds over a sequence.  FoldLeft is a function on all sets of indices,  *)
(* which takes the greatest index out first.                               *)

(* Induction over the subsets of a finite set. *)
LEMMA SmallestSubset ==
  ASSUME NEW S, IsFiniteSet(S), NEW Bad, Bad \subseteq SUBSET S, Bad # {}
  PROVE  \E T \in Bad : \A U \in SUBSET T : U # T => U \notin Bad
<1>1. IsWellFoundedOn(StrictSubsetOrdering(S), SUBSET S)
  BY FS_StrictSubsetOrderingWellFounded, FS_FiniteSubsetsOfFinite
<1>2. PICK T \in Bad : \A U \in Bad : ~ (<<U, T>> \in StrictSubsetOrdering(S))
  BY <1>1, WFMin
<1>3. ASSUME NEW U \in SUBSET T, U # T, U \in Bad PROVE FALSE
  BY <1>2, <1>3 DEF StrictSubsetOrdering
<1> QED
  BY <1>3

(* S are indices of a sequence. *)
Indices(S) == \E n \in Nat : S \subseteq 1..n

LEMMA IndicesHaveMax ==
  ASSUME NEW S, Indices(S)
  PROVE  IsFiniteSet(S) /\ \A s \in SUBSET S : s # {} => Max(s) \in s
<1>1. PICK n \in Nat : S \subseteq 1..n
  BY DEF Indices
<1>2. IsFiniteSet(S)
  <2>1. IsFiniteSet(1..n)
    BY FS_Interval
  <2> QED
    BY <1>1, <2>1, FS_Subset
<1> QED
  BY <1>1, <1>2, MaxIs

(* g folds step over the sets of indices in T. *)
IsFold(g, base, step, T) ==
  g = [s \in SUBSET T |-> IF s = {} THEN base ELSE step[<<g[s \ {Max(s)}], Max(s)>>]]

LEMMA FoldsAgree ==
  ASSUME NEW S, Indices(S), NEW T, T \subseteq S, NEW base, NEW step,
         NEW g, IsFold(g, base, step, S), NEW h, IsFold(h, base, step, T)
  PROVE  g[T] = h[T]
<1> DEFINE Bad == {s \in SUBSET T : g[s] # h[s]}
<1>1. SUFFICES ASSUME Bad # {} PROVE FALSE
  OBVIOUS
<1>2. PICK s \in Bad : \A u \in SUBSET s : u # s => u \notin Bad
  <2>1. Bad \subseteq SUBSET T /\ IsFiniteSet(T)
    BY IndicesHaveMax, FS_Subset
  <2> HIDE DEF Bad
  <2> QED
    BY <1>1, <2>1, SmallestSubset
<1>3. g[s] = IF s = {} THEN base ELSE step[<<g[s \ {Max(s)}], Max(s)>>]
  BY DEF IsFold
<1>4. h[s] = IF s = {} THEN base ELSE step[<<h[s \ {Max(s)}], Max(s)>>]
  BY DEF IsFold
<1>5. s # {} => g[s \ {Max(s)}] = h[s \ {Max(s)}]
  <2>1. s # {} => Max(s) \in s
    BY IndicesHaveMax
  <2> QED
    BY <1>2, <2>1
<1> QED
  BY <1>3, <1>4, <1>5

LEMMA FoldsExist ==
  ASSUME NEW n \in Nat, NEW base, NEW step
  PROVE  \E g : IsFold(g, base, step, 1..n)
<1> DEFINE Bad == {T \in SUBSET (1..n) : ~ \E g : IsFold(g, base, step, T)}
<1>1. SUFFICES ASSUME Bad # {} PROVE FALSE
  OBVIOUS
<1>2. PICK T \in Bad : \A u \in SUBSET T : u # T => u \notin Bad
  <2>1. Bad \subseteq SUBSET (1..n) /\ IsFiniteSet(1..n)
    BY FS_Interval
  <2> HIDE DEF Bad
  <2> QED
    BY <1>1, <2>1, SmallestSubset
<1> DEFINE Of(u) == CHOOSE h : IsFold(h, base, step, u)
           Less(s) == s \ {Max(s)}
           g == [s \in SUBSET T |-> IF s = {} THEN base
                                    ELSE step[<<Of(Less(s))[Less(s)], Max(s)>>]]
<1>3. \A u \in SUBSET T : u # T => IsFold(Of(u), base, step, u)
  BY <1>2
<1>4. ASSUME NEW s \in SUBSET T, s # {} PROVE g[Less(s)] = Of(Less(s))[Less(s)]
  <2> DEFINE u == Less(s)
             r == Less(u)
  <2>1. u \in SUBSET T /\ u # T /\ IsFold(Of(u), base, step, u)
    BY <1>3, <1>4, MaxIs
  <2>2. Of(u)[u] = IF u = {} THEN base ELSE step[<<Of(u)[r], Max(u)>>]
    BY <2>1 DEF IsFold
  <2>3. g[u] = IF u = {} THEN base ELSE step[<<Of(r)[r], Max(u)>>]
    BY <2>1
  <2>4. u # {} => Of(u)[r] = Of(r)[r]
    <3> SUFFICES ASSUME u # {} PROVE Of(u)[r] = Of(r)[r]
      OBVIOUS
    <3>1. u \in SUBSET (1..n)
      BY <2>1
    <3>2. Max(u) \in u
      BY <3>1, MaxIs
    <3>3. r \subseteq u /\ Indices(u) /\ r \in SUBSET T /\ r # T
      BY <2>1, <3>1, <3>2 DEF Indices
    <3>4. IsFold(Of(r), base, step, r) /\ IsFold(Of(u), base, step, u)
      BY <1>3, <2>1, <3>3
    <3> HIDE DEF Of, u, r, g, Less, Bad
    <3> QED
      BY <3>3, <3>4, FoldsAgree
  <2> HIDE DEF Of, g
  <2> QED
    BY <2>2, <2>3, <2>4
<1>5. IsFold(g, base, step, T)
  <2>1. g = [s \in SUBSET T |-> IF s = {} THEN base ELSE step[<<g[Less(s)], Max(s)>>]]
    <3>1. \A s \in SUBSET T :
            g[s] = IF s = {} THEN base ELSE step[<<Of(Less(s))[Less(s)], Max(s)>>]
      OBVIOUS
    <3>2. g = [s \in SUBSET T |-> g[s]]
      OBVIOUS
    <3> HIDE DEF g, Of, Less
    <3> QED
      BY <1>4, <3>1, <3>2
  <2> HIDE DEF g
  <2> QED
    BY <2>1 DEF IsFold
<1> QED
  BY <1>2, <1>5

(* A fold stays in any set that its base is in and its steps keep to. *)
LEMMA FoldsIn ==
  ASSUME NEW n \in Nat, NEW A, NEW base \in A, NEW step \in [A \X (1..n) -> A]
  PROVE  \E g : IsFold(g, base, step, 1..n) /\ \A s \in SUBSET (1..n) : g[s] \in A
<1>1. PICK g : IsFold(g, base, step, 1..n)
  BY FoldsExist
<1> DEFINE Bad == {s \in SUBSET (1..n) : g[s] \notin A}
<1>2. SUFFICES ASSUME Bad # {} PROVE FALSE
  BY <1>1
<1>3. PICK s \in Bad : \A u \in SUBSET s : u # s => u \notin Bad
  <2>1. Bad \subseteq SUBSET (1..n) /\ IsFiniteSet(1..n)
    BY FS_Interval
  <2> HIDE DEF Bad
  <2> QED
    BY <1>2, <2>1, SmallestSubset
<1>4. g[s] = IF s = {} THEN base ELSE step[<<g[s \ {Max(s)}], Max(s)>>]
  BY <1>1 DEF IsFold
<1>5. s # {} => Max(s) \in s /\ g[s \ {Max(s)}] \in A
  BY <1>3, MaxIs
<1> QED
  BY <1>4, <1>5

LEMMA FirstOnes ==
  ASSUME NEW n \in Nat, NEW k \in 1..n
  PROVE  /\ 1..k \in SUBSET (1..n) /\ 1..k # {} /\ Max(1..k) = k
         /\ (1..k) \ {k} = 1..(k - 1)
<1>1. 1..k \in SUBSET (1..n) /\ k \in 1..k
  OBVIOUS
<1>2. Max(1..k) \in 1..k /\ k <= Max(1..k)
  BY <1>1, MaxIs
<1> QED
  BY <1>1, <1>2
(* f takes the steps of a fold wherever it is in A. *)
TakesSteps(f, base, step, A, n) ==
  /\ f[{}] = base
  /\ \A s \in SUBSET (1..n) : s # {} /\ f[s \ {Max(s)}] \in A =>
       f[s] = step[<<f[s \ {Max(s)}], Max(s)>>]

(* F are the states of a fold, one after the other. *)
Traces(F, base, step, A, n) ==
  /\ F \in [0..n -> A] /\ F[0] = base
  /\ \A k \in 1..n : F[k] = step[<<F[k - 1], k>>]

LEMMA FoldTrace ==
  ASSUME NEW n \in Nat, NEW A, NEW base \in A, NEW step \in [A \X (1..n) -> A],
         NEW f, TakesSteps(f, base, step, A, n)
  PROVE  \E F : Traces(F, base, step, A, n) /\ F[n] = f[1..n]
<1> USE DEF TakesSteps, Traces
<1> DEFINE F == [k \in 0..n |-> f[1..k]]
           Bad == {k \in 0..n : f[1..k] \notin A}
<1>1. f[1..0] = base
  <2>1. 1..0 = {}
    OBVIOUS
  <2> QED
    BY <2>1
<1>2. ASSUME NEW k \in 1..n, f[1..(k - 1)] \in A
      PROVE  f[1..k] = step[<<f[1..(k - 1)], k>>] /\ f[1..k] \in A
  <2>1. 1..k \in SUBSET (1..n) /\ 1..k # {} /\ Max(1..k) = k /\ (1..k) \ {k} = 1..(k - 1)
    BY FirstOnes
  <2>2. f[1..k] = step[<<f[1..(k - 1)], k>>]
    BY <1>2, <2>1
  <2> QED
    BY <1>2, <2>2
<1>3. Bad = {}
  <2>1. SUFFICES ASSUME Bad # {} PROVE FALSE
    OBVIOUS
  <2>2. PICK k \in Bad : \A j \in Bad : k <= j
    <3>1. Bad \subseteq Nat
      OBVIOUS
    <3> HIDE DEF Bad
    <3> QED
      BY <2>1, <3>1, Least
  <2>3. k # 0
    BY <1>1
  <2>4. k \in 1..n /\ k - 1 \in 0..n /\ k - 1 \notin Bad
    BY <2>2, <2>3
  <2> QED
    BY <1>2, <2>4
<1>4. \A k \in 0..n : F[k] = f[1..k] /\ F[k] \in A
  BY <1>3
<1>5. F \in [0..n -> A]
  BY <1>4
<1>6. \A k \in 1..n : F[k] = step[<<F[k - 1], k>>]
  <2> TAKE k \in 1..n
  <2>1. k \in 0..n /\ k - 1 \in 0..n
    OBVIOUS
  <2> HIDE DEF F
  <2> QED
    BY <1>2, <1>4, <2>1
<1>7. F[0] = base /\ F[n] = f[1..n]
  BY <1>1, <1>4
<1> HIDE DEF F
<1> QED
  BY <1>5, <1>6, <1>7

LEMMA FoldEnds ==
  ASSUME NEW n \in Nat, NEW A, NEW base \in A, NEW step \in [A \X (1..n) -> A],
         NEW f, TakesSteps(f, base, step, A, n)
  PROVE  f[1..n] \in A
<1>1. PICK F : Traces(F, base, step, A, n) /\ F[n] = f[1..n]
  BY FoldTrace
<1> QED
  BY <1>1 DEF Traces

-----------------------------------------------------------------------------
(* Mach-O: where its slots are, and what a listing of it is made of. *)

MachSegment == {s \in [vmaddr : Nat, vmsize : Nat, fileoff : Nat, filesize : Nat] :
                  s.filesize <= s.vmsize}

MachCells(slide, segments) ==
  {a \in Int : /\ a % 8 = 0
               /\ \E i \in DOMAIN segments :
                    /\ segments[i].vmaddr + slide <= a
                    /\ a + 8 <= segments[i].vmaddr + slide + segments[i].vmsize}

MachImport(slide, segments) ==
  [library : {""} \cup STRING, symbol : Seq(STRING), version : {None},
   slot : MachCells(slide, segments), kind : {"Standard"}, authenticated : BOOLEAN]

(* What the load commands of a typed image come to. *)
MachInfo == [cursor : Int, segments : Seq(MachSegment), pointer_sections : Seq(MachO!Section),
             symtab : {None} \cup Seq(MachO!Symbol), indirect : {None} \cup Seq(Nat \cup {-1}),
             binds : Seq(Seq(MachO!Opcode)), chained : {None} \cup MachO!Fixups,
             dylibs : Seq(STRING)]

LEMMA FlattenIn ==
  ASSUME NEW R, NEW seqs, IsSequence(seqs), \A i \in DOMAIN seqs : seqs[i] \in Seq(R)
  PROVE  FlattenSeq(seqs) \in Seq(R)
<1>1. Len(seqs) \in Nat /\ DOMAIN seqs = 1..Len(seqs)
  BY SequenceIs
<1>2. CASE Len(seqs) = 0
  <2>1. seqs = <<>>
    BY <1>2, SequenceIs
  <2> QED
    BY <1>2, <2>1 DEF FlattenSeq
<1>3. CASE Len(seqs) # 0
  <2>1. PICK f : Flattens(f, seqs, Len(seqs)) /\ FlattenSeq(seqs) = f[Len(seqs)]
    BY <1>3, FlattenIs
  <2> DEFINE Bad == {i \in 1..Len(seqs) : f[i] \notin Seq(R)}
  <2>2. Bad = {}
    <3>1. SUFFICES ASSUME Bad # {} PROVE FALSE
      OBVIOUS
    <3>2. PICK i \in Bad : \A j \in Bad : i <= j
      <4>1. Bad \subseteq Nat
        BY <1>1
      <4> HIDE DEF Bad
      <4> QED
        BY <3>1, <4>1, Least
    <3>3. f[i] = IF i = 1 THEN seqs[i] ELSE f[i - 1] \o seqs[i]
      BY <2>1 DEF Flattens
    <3>4. i # 1 => i - 1 \in 1..Len(seqs) /\ i - 1 \notin Bad
      BY <1>1, <3>2
    <3>5. seqs[i] \in Seq(R) /\ (i # 1 => f[i - 1] \in Seq(R))
      BY <1>1, <3>4
    <3>6. f[i] \in Seq(R)
      BY <3>3, <3>5
    <3> QED
      BY <3>6
  <2> QED
    BY <1>1, <1>3, <2>1, <2>2
<1> QED
  BY <1>2, <1>3

(* A loop whose turns push elements of R or fail. *)
LEMMA AllOfIn ==
  ASSUME NEW R, NEW n \in Nat, NEW turns, turns = [i \in 1..n |-> turns[i]],
         \A i \in 1..n : turns[i] \in {Malformed} \cup Seq(R)
  PROVE  AllOf(turns) \in {Malformed} \cup Seq(R)
<1>1. CASE \E i \in DOMAIN turns : turns[i] = Malformed
  BY <1>1 DEF AllOf
<1>2. CASE ~ \E i \in DOMAIN turns : turns[i] = Malformed
  <2>1. turns \in [1..n -> Seq(R)]
    BY <1>2
  <2>2. turns \in Seq(Seq(R))
    BY <2>1
  <2>3. IsSequence(turns)
    BY <2>2, SequenceOf
  <2>4. FlattenSeq(turns) \in Seq(R)
    BY <2>1, <2>3, FlattenIn
  <2> QED
    BY <1>2, <2>4 DEF AllOf
<1> QED
  BY <1>1, <1>2

LEMMA MachAllOf == \A turns : MachO!AllOf(turns) = AllOf(turns)
BY DEF MachO!AllOf, AllOf, MachO!FlattenSeq, FlattenSeq

(* The first element that passes a test: I are the indices of those that do. *)
LEMMA FirstIndex ==
  ASSUME NEW n \in Nat, NEW I \in SUBSET (1..n), I # {}
  PROVE  Min(I) \in I /\ Min(I) \in 1..n /\ \A i \in I : Min(I) <= i
<1>1. I \subseteq Nat
  OBVIOUS
<1>2. Min(I) \in I /\ \A i \in I : Min(I) <= i
  BY <1>1, MinIs
<1> QED
  BY <1>2

LEMMA MachOLocate ==
  ASSUME NEW segments \in Seq(MachSegment), NEW slide \in Int, NEW off \in Int,
         NEW a, a = MachO!locate(segments, slide, off, 8), a # Malformed
  PROVE  /\ a \in Int
         /\ \E i \in DOMAIN segments :
              /\ segments[i].vmaddr + slide <= a
              /\ a + 8 <= segments[i].vmaddr + slide + segments[i].vmsize
<1> DEFINE I == {i \in 1..Len(segments) : /\ off >= segments[i].fileoff
                                          /\ off < segments[i].fileoff + segments[i].filesize}
           at == IF I # {} THEN Min(I) ELSE 0
<1>1. a = IF at = 0 THEN Malformed ELSE MachO!LocateIn(segments[at], slide, off, 8)
  BY DEF MachO!locate, MachO!SelectInSeq, MachO!Min, Min
<1>2. at # 0 /\ at \in I
  <2>1. at # 0
    BY <1>1
  <2>2. Len(segments) \in Nat /\ I \in SUBSET (1..Len(segments))
    OBVIOUS
  <2> HIDE DEF I
  <2> QED
    BY <2>1, <2>2, FirstIndex
<1> HIDE DEF at
<1>3. PICK s \in MachSegment : s = segments[at] /\ at \in DOMAIN segments
  BY <1>2
<1>4. a = MachO!LocateIn(s, slide, off, 8) /\ off >= s.fileoff
  BY <1>1, <1>2, <1>3
<1>5. /\ off + 8 <= s.fileoff + s.filesize
      /\ a = s.vmaddr + (off - s.fileoff) + slide
  BY <1>4 DEF MachO!LocateIn, MachSegment
<1>6. /\ s.vmaddr \in Nat /\ s.vmsize \in Nat /\ s.fileoff \in Nat /\ s.filesize \in Nat
      /\ s.filesize <= s.vmsize
  BY DEF MachSegment
<1>7. a \in Int /\ s.vmaddr + slide <= a /\ a + 8 <= s.vmaddr + slide + s.vmsize
  <2> HIDE DEF I
  <2>1. PICK v \in Nat : v = s.vmaddr
    BY <1>6
  <2>2. PICK z \in Nat : z = s.vmsize
    BY <1>6
  <2>3. PICK f \in Nat : f = s.fileoff
    BY <1>6
  <2>4. PICK l \in Nat : l = s.filesize
    BY <1>6
  <2>5. off >= f /\ off + 8 <= f + l /\ l <= z /\ a = v + (off - f) + slide
    BY <1>4, <1>5, <1>6, <2>1, <2>2, <2>3, <2>4
  <2>6. a \in Int /\ v + slide <= a /\ a + 8 <= v + slide + z
    BY <2>5
  <2> QED
    BY <2>1, <2>2, <2>6
<1> QED
  BY <1>3, <1>7

LEMMA MachOSlot ==
  ASSUME NEW image, image.slide \in Int, NEW info \in MachInfo, NEW off \in Int
  PROVE  MachO!slot_address(image, info, off)
           \in {Malformed} \cup MachCells(image.slide, info.segments)
<1> DEFINE a == MachO!locate(info.segments, image.slide, off, 8)
<1>1. MachO!slot_address(image, info, off) =
        IF a = Malformed THEN Malformed ELSE IF a % 8 # 0 THEN Malformed ELSE a
  BY DEF MachO!slot_address, MachO!Try, MachO!PTR_SIZE
<1>2. info.segments \in Seq(MachSegment)
  BY DEF MachInfo
<1> HIDE DEF a
<1>3. a # Malformed =>
        /\ a \in Int
        /\ \E i \in DOMAIN info.segments :
             /\ info.segments[i].vmaddr + image.slide <= a
             /\ a + 8 <= info.segments[i].vmaddr + image.slide + info.segments[i].vmsize
  BY <1>2, MachOLocate DEF a
<1> QED
  BY <1>1, <1>3 DEF MachCells

(* What a walk over a Mach-O image pushes, or its failure. *)
MachYield(image, info) == {Malformed} \cup Seq(MachImport(image.slide, info.segments))

(* The image and its load commands. *)
MachOf(image, info) == image.slide \in Int /\ info \in MachInfo

LEMMA NormalizeIn ==
  ASSUME NEW raw \in Seq(STRING)
  PROVE  MachO!normalize_symbol_name(raw) \in Seq(STRING)
<1> DEFINE name == IF raw # <<>> /\ Head(raw) = "_" THEN Tail(raw) ELSE raw
           I == {i \in 1..Len(name) : name[i] = "$"}
           at == IF I # {} THEN Min(I) ELSE 0
<1>1. name \in Seq(STRING)
  <2>1. raw # <<>> => Tail(raw) \in Seq(STRING)
    OBVIOUS
  <2> QED
    BY <2>1
<1> HIDE DEF name
<1>2. at # 0 => at \in 1..Len(name)
  <2>1. Len(name) \in Nat /\ I \in SUBSET (1..Len(name))
    BY <1>1
  <2> HIDE DEF I
  <2> QED
    BY <2>1, FirstIndex
<1>3. MachO!normalize_symbol_name(raw) = IF at = 0 THEN name ELSE SubSeq(name, 1, at - 1)
  BY DEF MachO!normalize_symbol_name, MachO!Unsuffixed, MachO!Before, MachO!SelectInSeq,
         MachO!Min, Min, name
<1> HIDE DEF at
<1>4. at # 0 => SubSeq(name, 1, at - 1) \in Seq(STRING)
  <2> SUFFICES ASSUME at # 0 PROVE SubSeq(name, 1, at - 1) \in Seq(STRING)
    OBVIOUS
  <2>1. \A i \in 1..(at - 1) : i \in 1..Len(name)
    BY <1>1, <1>2
  <2> QED
    BY <1>1, <1>2, <2>1
<1> QED
  BY <1>1, <1>3, <1>4

LEMMA MachOPush ==
  ASSUME NEW image, NEW info, MachOf(image, info), NEW off \in Int,
         NEW name \in Seq(STRING), NEW ordinal, NEW authenticated \in BOOLEAN
  PROVE  MachO!Push(image, info, name, ordinal, off, authenticated) \in MachYield(image, info)
<1> DEFINE slot == MachO!slot_address(image, info, off)
           library == MachO!library_of(ordinal, info.dylibs)
           import == [library |-> library, symbol |-> name, version |-> None, slot |-> slot,
                      kind |-> "Standard", authenticated |-> authenticated]
<1>1. slot \in {Malformed} \cup MachCells(image.slide, info.segments)
  BY MachOSlot DEF MachOf
<1>2. library \in {""} \cup STRING
  <2>1. info.dylibs \in Seq(STRING)
    BY DEF MachOf, MachInfo
  <2>2. ordinal \in DOMAIN info.dylibs => info.dylibs[ordinal] \in STRING
    BY <2>1
  <2> QED
    BY <2>2 DEF MachO!library_of
<1>3. MachO!Push(image, info, name, ordinal, off, authenticated) =
        IF slot = Malformed THEN Malformed ELSE <<import>>
  BY DEF MachO!Push, MachO!PushAt, MachO!RawImport
<1> HIDE DEF slot, library
<1>4. slot # Malformed => import \in MachImport(image.slide, info.segments)
  BY <1>1, <1>2 DEF MachImport
<1> HIDE DEF import
<1> QED
  BY <1>3, <1>4 DEF MachYield

LEMMA MachOCollect ==
  ASSUME NEW image, NEW info, NEW n \in Nat, NEW turns, turns = [i \in 1..n |-> turns[i]],
         \A i \in 1..n : turns[i] \in MachYield(image, info)
  PROVE  MachO!AllOf(turns) \in MachYield(image, info)
BY AllOfIn, MachAllOf DEF MachYield

LEMMA MachOEmpty ==
  ASSUME NEW image, NEW info
  PROVE  <<>> \in MachYield(image, info) /\ Malformed \in MachYield(image, info)
BY DEF MachYield

(* Source 1. *)
LEMMA SymbolSlotIn ==
  ASSUME NEW image, NEW info, MachOf(image, info), NEW symbol \in MachO!Symbol, NEW off \in Int
  PROVE  MachO!SymbolSlot(image, info, symbol, off) \in MachYield(image, info)
<1> DEFINE name == MachO!normalize_symbol_name(symbol.name)
           push == MachO!Push(image, info, name, symbol.ordinal, off, MachO!is_arm64e(image))
<1>1. MachO!SymbolSlot(image, info, symbol, off) =
        IF ~symbol.import THEN <<>> ELSE IF symbol.name = Malformed THEN Malformed
        ELSE IF name \in {<<>>, MachO!TLV_BOOTSTRAP} THEN <<>> ELSE push
  BY DEF MachO!SymbolSlot, MachO!Try
<1>2. symbol.name # Malformed => name \in Seq(STRING)
  BY NormalizeIn DEF MachO!Symbol, MachO!Name
<1>3. MachO!is_arm64e(image) \in BOOLEAN
  BY DEF MachO!is_arm64e
<1> HIDE DEF name
<1>4. symbol.name # Malformed => push \in MachYield(image, info)
  BY <1>2, <1>3, MachOPush
<1> HIDE DEF push
<1> QED
  BY <1>1, <1>4, MachOEmpty

LEMMA IndirectSlotIn ==
  ASSUME NEW image, NEW info, MachOf(image, info), NEW section \in MachO!Section, NEW i \in Nat,
         info.symtab # None, info.indirect # None
  PROVE  MachO!IndirectSlot(image, info, section, i) \in MachYield(image, info)
<1> DEFINE index == section.indirect_index + i
           sym == info.indirect[index + 1]
           slot == MachO!SymbolSlot(image, info, info.symtab[sym + 1], section.fileoff + i * 8)
<1>1. MachO!IndirectSlot(image, info, section, i) =
        IF index >= Len(info.indirect) THEN Malformed
        ELSE IF sym = -1 THEN <<>>
        ELSE IF sym >= Len(info.symtab) THEN Malformed ELSE slot
  BY DEF MachO!IndirectSlot, MachO!PTR_SIZE
<1>2. /\ section.indirect_index \in Nat /\ section.fileoff \in Nat
      /\ info.indirect \in Seq(Nat \cup {-1}) /\ info.symtab \in Seq(MachO!Symbol)
  BY DEF MachO!Section, MachOf, MachInfo
<1>3. index < Len(info.indirect) => sym \in Nat \cup {-1}
  <2>1. index < Len(info.indirect) => index + 1 \in 1..Len(info.indirect)
    BY <1>2
  <2> QED
    BY <1>2, <2>1
<1> HIDE DEF index, sym
<1>4. sym \in Nat /\ sym < Len(info.symtab) => slot \in MachYield(image, info)
  <2>1. sym \in Nat /\ sym < Len(info.symtab) => info.symtab[sym + 1] \in MachO!Symbol
    BY <1>2
  <2>2. section.fileoff + i * 8 \in Int
    BY <1>2
  <2> QED
    BY <2>1, <2>2, SymbolSlotIn
<1> HIDE DEF slot
<1>5. index \in Nat
  BY <1>2 DEF index
<1> QED
  BY <1>1, <1>2, <1>3, <1>4, <1>5, MachOEmpty

LEMMA IndirectIn ==
  ASSUME NEW image, NEW info, MachOf(image, info)
  PROVE  MachO!parse_indirect(image, info) \in MachYield(image, info)
<1>1. CASE info.symtab = None \/ info.indirect = None
  BY <1>1, MachOEmpty DEF MachO!parse_indirect
<1>2. CASE info.symtab # None /\ info.indirect # None
  <2> DEFINE Of(k) == info.pointer_sections[k]
             Slots(k) == [i \in 1..(Of(k).size \div 8) |->
                            MachO!IndirectSlot(image, info, Of(k), i - 1)]
             turns == [k \in 1..Len(info.pointer_sections) |-> MachO!AllOf(Slots(k))]
  <2>1. MachO!parse_indirect(image, info) = MachO!AllOf(turns)
    BY <1>2 DEF MachO!parse_indirect, MachO!Collect, MachO!PTR_SIZE
  <2>2. info.pointer_sections \in Seq(MachO!Section)
    BY DEF MachOf, MachInfo
  <2>3. ASSUME NEW k \in 1..Len(info.pointer_sections)
        PROVE  MachO!AllOf(Slots(k)) \in MachYield(image, info)
    <3>1. Of(k) \in MachO!Section
      BY <2>2
    <3>2. PICK n \in Nat : n = Of(k).size \div 8
      BY <3>1 DEF MachO!Section
    <3>3. \A i \in 1..n : i - 1 \in Nat
      OBVIOUS
    <3> HIDE DEF Of
    <3>4. \A i \in 1..n : Slots(k)[i] \in MachYield(image, info)
      BY <1>2, <3>1, <3>2, <3>3, IndirectSlotIn
    <3>5. Slots(k) = [i \in 1..n |-> Slots(k)[i]]
      BY <3>2
    <3> HIDE DEF Slots
    <3> QED
      BY <3>4, <3>5, MachOCollect
  <2>4. Len(info.pointer_sections) \in Nat /\ turns = [k \in 1..Len(info.pointer_sections) |-> turns[k]]
    BY <2>2
  <2>5. \A k \in 1..Len(info.pointer_sections) : turns[k] \in MachYield(image, info)
    BY <2>3
  <2> HIDE DEF turns
  <2> QED
    BY <2>1, <2>4, <2>5, MachOCollect
<1> QED
  BY <1>1, <1>2

(* Source 2. *)
Binder(image, info) ==
  [seg_index : Nat, seg_offset : Nat, library_ordinal : Int, symbol : {None} \cup Seq(STRING),
   out : Seq(MachImport(image.slide, info.segments))]

LEMMA WrapsIn ==
  ASSUME NEW a \in Nat, NEW i \in Nat, NEW skip \in Nat
  PROVE  (a + i * (skip + 8)) % Word \in Nat
<1>1. PICK p \in Nat : p = i * (skip + 8)
  OBVIOUS
<1>2. (a + p) % Word \in Nat
  BY CapsAssumption
<1> QED
  BY <1>1, <1>2

LEMMA EmitIn ==
  ASSUME NEW image, NEW info, MachOf(image, info), NEW state \in Binder(image, info), NEW off \in Nat
  PROVE  MachO!emit_bind(image, info, state, off) \in MachYield(image, info)
<1> DEFINE at == info.segments[state.seg_index + 1].fileoff + off
           push == MachO!Push(image, info, state.symbol, state.library_ordinal, at, FALSE)
<1>1. MachO!emit_bind(image, info, state, off) =
        IF state.symbol \in {None, <<>>} THEN Malformed
        ELSE IF state.symbol = MachO!TLV_BOOTSTRAP THEN <<>>
        ELSE IF state.seg_index + 1 \notin DOMAIN info.segments THEN Malformed
        ELSE IF at >= Word THEN Malformed ELSE push
  BY DEF MachO!emit_bind
<1>2. state.seg_index + 1 \in DOMAIN info.segments => at \in Int
  <2>1. info.segments \in Seq(MachSegment)
    BY DEF MachOf, MachInfo
  <2>2. state.seg_index + 1 \in DOMAIN info.segments =>
          info.segments[state.seg_index + 1].fileoff \in Nat
    BY <2>1, SMTT(30) DEF MachSegment
  <2> QED
    BY <2>2
<1>3. state.symbol # None => state.symbol \in Seq(STRING)
  BY DEF Binder
<1> HIDE DEF at
<1>4. state.symbol # None /\ at \in Int => push \in MachYield(image, info)
  BY <1>3, MachOPush
<1> HIDE DEF push
<1> QED
  BY <1>1, <1>2, <1>4, MachOEmpty

LEMMA DoBindIn ==
  ASSUME NEW image, NEW info, MachOf(image, info), NEW state \in Binder(image, info),
         NEW count \in Nat, NEW skip \in Nat
  PROVE  MachO!DoBind(image, info, state, count, skip) \in {Malformed} \cup Binder(image, info)
<1> DEFINE At(i) == (state.seg_offset + (i - 1) * (skip + 8)) % Word
           turns == [i \in 1..count |-> MachO!emit_bind(image, info, state, At(i))]
           out == MachO!AllOf(turns)
           end == (state.seg_offset + count * (skip + 8)) % Word
<1>1. MachO!DoBind(image, info, state, count, skip) =
        IF out = Malformed THEN Malformed
        ELSE [state EXCEPT !.seg_offset = end, !.out = @ \o out]
  BY DEF MachO!DoBind, MachO!Collect, MachO!Try, MachO!PTR_SIZE
<1>2. state.seg_offset \in Nat
  BY DEF Binder
<1>3. end \in Nat
  BY <1>2, WrapsIn
<1>4. \A i \in 1..count : At(i) \in Nat
  <2> TAKE i \in 1..count
  <2>1. i - 1 \in Nat
    OBVIOUS
  <2> QED
    BY <1>2, <2>1, WrapsIn
<1> HIDE DEF At, end
<1>5. \A i \in 1..count : turns[i] \in MachYield(image, info)
  BY <1>4, EmitIn
<1>6. turns = [i \in 1..count |-> turns[i]]
  OBVIOUS
<1> HIDE DEF turns
<1>7. out \in MachYield(image, info)
  BY <1>5, <1>6, MachOCollect
<1> HIDE DEF out
<1>8. out # Malformed => state.out \o out \in Seq(MachImport(image.slide, info.segments))
  BY <1>7 DEF MachYield, Binder
<1> QED
  BY <1>1, <1>3, <1>8 DEF Binder

LEMMA BindOpcodeIn ==
  ASSUME NEW image, NEW info, MachOf(image, info), NEW state \in Binder(image, info),
         NEW o \in MachO!Opcode
  PROVE  MachO!BindOpcode(image, info, state, o) \in {Malformed} \cup Binder(image, info)
<1> DEFINE Rec(c, k) == [count |-> c, skip |-> k]
           Many(count, skip) == IF count > MaxChainSteps THEN Malformed
                                ELSE MachO!DoBind(image, info, state, count, skip)
           result == MachO!BindOpcode(image, info, state, o)
<1>1. /\ o.imm \in Nat /\ o.uleb \in Nat /\ o.imm * 8 \in Nat
      /\ MachO!normalize_symbol_name(o.name) \in Seq(STRING)
  BY NormalizeIn DEF MachO!Opcode
<1>2. \A count, skip \in Nat : Many(count, skip) \in {Malformed} \cup Binder(image, info)
  BY DoBindIn, SMTT(30)
<1>3. \/ result = state
      \/ result = [state EXCEPT !.library_ordinal = o.imm]
      \/ result = [state EXCEPT !.library_ordinal = IF o.imm = 0 THEN 0 ELSE o.imm - 16]
      \/ result = [state EXCEPT !.symbol = MachO!normalize_symbol_name(o.name)]
      \/ result = [state EXCEPT !.seg_index = o.imm, !.seg_offset = o.uleb]
      \/ result = [state EXCEPT !.seg_offset = (@ + o.uleb) % Word]
      \/ \E count \in {1, o.imm}, skip \in {0, o.uleb, o.imm * 8} : result = Many(count, skip)
      \/ result = Malformed
  BY DEF MachO!BindOpcode, MachO!Binding, MachO!PTR_SIZE
<1>4. (state.seg_offset + o.uleb) % Word \in Nat
  <2>1. PICK a \in Nat, b \in Nat : a = state.seg_offset /\ b = o.uleb
    BY <1>1 DEF Binder
  <2>2. (a + b) % Word \in Nat
    BY CapsAssumption
  <2> QED
    BY <2>1, <2>2
<1> HIDE DEF result, Many
<1>5. ASSUME NEW count \in {1, o.imm}, NEW skip \in {0, o.uleb, o.imm * 8}, result = Many(count, skip)
      PROVE  result \in {Malformed} \cup Binder(image, info)
  <2>1. count \in Nat /\ skip \in Nat
    BY <1>1
  <2> QED
    BY <1>2, <1>5, <2>1
<1>6. PICK k \in Int : k = IF o.imm = 0 THEN 0 ELSE o.imm - 16
  <2>1. (IF o.imm = 0 THEN 0 ELSE o.imm - 16) \in Int
    BY <1>1
  <2> QED
    BY <2>1
<1>7. PICK at \in Nat : at = (state.seg_offset + o.uleb) % Word
  BY <1>4
<1>8. /\ [state EXCEPT !.library_ordinal = o.imm] \in Binder(image, info)
      /\ [state EXCEPT !.library_ordinal = k] \in Binder(image, info)
      /\ [state EXCEPT !.symbol = MachO!normalize_symbol_name(o.name)] \in Binder(image, info)
      /\ [state EXCEPT !.seg_index = o.imm, !.seg_offset = o.uleb] \in Binder(image, info)
      /\ [state EXCEPT !.seg_offset = at] \in Binder(image, info)
  <2>1. PICK name \in Seq(STRING) : name = MachO!normalize_symbol_name(o.name)
    BY <1>1
  <2>2. PICK imm \in Nat, uleb \in Nat : imm = o.imm /\ uleb = o.uleb
    BY <1>1
  <2>3. [state EXCEPT !.library_ordinal = imm] \in Binder(image, info)
    BY SMTT(30) DEF Binder
  <2>4. [state EXCEPT !.library_ordinal = k] \in Binder(image, info)
    BY DEF Binder
  <2>5. [state EXCEPT !.symbol = name] \in Binder(image, info)
    BY DEF Binder
  <2>6. [state EXCEPT !.seg_index = imm, !.seg_offset = uleb] \in Binder(image, info)
    BY DEF Binder
  <2>7. [state EXCEPT !.seg_offset = at] \in Binder(image, info)
    BY DEF Binder
  <2> QED
    BY <2>1, <2>2, <2>3, <2>4, <2>5, <2>6, <2>7
<1>9. \/ result \in {Malformed, state}
      \/ result = [state EXCEPT !.library_ordinal = o.imm]
      \/ result = [state EXCEPT !.library_ordinal = k]
      \/ result = [state EXCEPT !.symbol = MachO!normalize_symbol_name(o.name)]
      \/ result = [state EXCEPT !.seg_index = o.imm, !.seg_offset = o.uleb]
      \/ result = [state EXCEPT !.seg_offset = at]
      \/ \E count \in {1, o.imm}, skip \in {0, o.uleb, o.imm * 8} : result = Many(count, skip)
  BY <1>3, <1>6, <1>7
<1>10. result \in {Malformed} \cup Binder(image, info)
  BY <1>5, <1>8, <1>9, Zenon
<1> QED
  BY <1>10 DEF result

BindTurn(image, info, state, o) ==
  MachO!Try(state, LAMBDA s : MachO!BindOpcode(image, info, s, o))

(* The loop over the opcodes of a stream. *)
BindLoop(image, info, base, seq) ==
  MachO!FoldLeft(LAMBDA state, o : BindTurn(image, info, state, o), base, seq)

BindLoopKeeps(image, info, A, seq) == \A a \in A, i \in DOMAIN seq : BindTurn(image, info, a, seq[i]) \in A

LEMMA BindFold ==
  ASSUME NEW image, NEW info, NEW A, NEW base \in A,
         NEW seq, IsSequence(seq), BindLoopKeeps(image, info, A, seq)
  PROVE  BindLoop(image, info, base, seq) \in A
<1> DEFINE n == Len(seq)
           Op(a, i) == BindTurn(image, info, a, seq[i])
           Good(h) == h = [s \in SUBSET (1..n) |->
                             IF s = {} THEN base ELSE Op(h[s \ {Max(s)}], Max(s))]
           f == CHOOSE h : Good(h)
           step == [p \in A \X (1..n) |-> Op(p[1], p[2])]
<1>1. n \in Nat /\ DOMAIN seq = 1..n
  BY SequenceIs
<1>2. BindLoop(image, info, base, seq) = f[1..n]
  BY <1>1 DEF BindLoop, MachO!FoldLeft, MachO!MapThenFoldSet, Max, MachO!Max
<1> HIDE DEF n, f
<1>3. step \in [A \X (1..n) -> A] /\ \A a \in A, i \in 1..n : step[<<a, i>>] = Op(a, i)
  BY <1>1 DEF BindLoopKeeps
<1> HIDE DEF step, Op
<1>4. PICK g : IsFold(g, base, step, 1..n) /\ \A s \in SUBSET (1..n) : g[s] \in A
  BY <1>1, <1>3, FoldsIn
<1>5. \A s \in SUBSET (1..n) : s # {} => Max(s) \in 1..n /\ s \ {Max(s)} \in SUBSET (1..n)
  BY <1>1, MaxIs
<1>6. Good(g)
  <2>1. \A s \in SUBSET (1..n) : s # {} =>
          step[<<g[s \ {Max(s)}], Max(s)>>] = Op(g[s \ {Max(s)}], Max(s))
    BY <1>3, <1>4, <1>5
  <2> QED
    BY <1>4, <2>1 DEF IsFold
<1>7. Good(f)
  BY <1>6, Zenon DEF f
<1>8. TakesSteps(f, base, step, A, n)
  BY <1>3, <1>5, <1>7 DEF TakesSteps
<1>9. f[1..n] \in A
  BY <1>1, <1>3, <1>8, FoldEnds
<1> QED
  BY <1>2, <1>9

LEMMA BindStreamIn ==
  ASSUME NEW image, NEW info, MachOf(image, info), NEW stream \in Seq(MachO!Opcode)
  PROVE  MachO!parse_bind_stream(image, info, stream) \in MachYield(image, info)
<1> DEFINE A == {Malformed} \cup Binder(image, info)
           end == BindLoop(image, info, MachO!BindState, stream)
<1>1. MachO!BindState \in A
  <2>1. <<>> \in Seq(MachImport(image.slide, info.segments))
    OBVIOUS
  <2> QED
    BY <2>1 DEF MachO!BindState, Binder
<1>2. BindLoopKeeps(image, info, A, stream)
  <2> SUFFICES ASSUME NEW a \in A, NEW i \in DOMAIN stream
               PROVE  BindTurn(image, info, a, stream[i]) \in A
    BY DEF BindLoopKeeps
  <2>1. stream[i] \in MachO!Opcode
    OBVIOUS
  <2>2. a # Malformed => MachO!BindOpcode(image, info, a, stream[i]) \in A
    BY <2>1, BindOpcodeIn
  <2> QED
    BY <2>2 DEF BindTurn, MachO!Try
<1>3. IsSequence(stream)
  BY SequenceOf
<1>4. MachO!parse_bind_stream(image, info, stream) =
        IF end = Malformed THEN Malformed ELSE end.out
  BY DEF MachO!parse_bind_stream, BindLoop, BindTurn, MachO!Try
<1>5. end \in A
  <2> HIDE DEF A
  <2> QED
    BY <1>1, <1>2, <1>3, BindFold
<1> HIDE DEF end
<1> QED
  BY <1>4, <1>5 DEF Binder, MachYield

(* Source 3. *)
Chainer(image, info) ==
  [off : {None} \cup Int, out : Seq(MachImport(image.slide, info.segments))]

LEMMA DecodeIn ==
  ASSUME NEW raw \in MachO!ChainWord, NEW format, NEW entry,
         entry = MachO!decode_chain(raw, format), entry # Malformed
  PROVE  entry.ordinal \in Nat /\ entry.next \in Nat /\ entry.authenticated \in BOOLEAN
<1>1. /\ raw.ordinal \in Nat /\ raw.next \in Nat /\ raw.b63 \in BOOLEAN
      /\ raw.ordinal % 65536 \in Nat /\ raw.next * 4 \in Nat /\ raw.next * 8 \in Nat
  BY DEF MachO!ChainWord
<1>2. CASE format \in {"PTR_64", "PTR_64_OFFSET"}
  <2>1. format \notin DOMAIN MachO!Arm64eStride
    BY <1>2 DEF MachO!Arm64eStride
  <2>2. entry.ordinal = raw.ordinal /\ entry.next = raw.next * 4
    BY <1>2, <2>1 DEF MachO!decode_chain
  <2>3. entry.authenticated = FALSE
    BY <1>2, <2>1 DEF MachO!decode_chain
  <2>4. entry.authenticated \in BOOLEAN
    BY <2>3, Zenon
  <2>5. entry.ordinal \in Nat /\ entry.next \in Nat
    BY <1>1, <2>2
  <2> QED
    BY <2>4, <2>5
<1>3. CASE format \notin {"PTR_64", "PTR_64_OFFSET"} /\ format \in DOMAIN MachO!Arm64eStride
  <2>1. entry.authenticated = raw.b63 /\ entry.next = raw.next * MachO!Arm64eStride[format]
    BY <1>3 DEF MachO!decode_chain
  <2>2. entry.ordinal = raw.ordinal \/ entry.ordinal = raw.ordinal % 65536
    BY <1>3 DEF MachO!decode_chain
  <2>3. MachO!Arm64eStride[format] \in {4, 8}
    BY <1>3 DEF MachO!Arm64eStride
  <2> QED
    BY <1>1, <2>1, <2>2, <2>3
<1>4. CASE format \notin {"PTR_64", "PTR_64_OFFSET"} /\ format \notin DOMAIN MachO!Arm64eStride
  BY <1>4 DEF MachO!decode_chain
<1> QED
  BY <1>2, <1>3, <1>4

LEMMA ElementIn ==
  ASSUME NEW S, NEW s \in Seq(S), NEW k \in Nat, k < Len(s)
  PROVE  s[k + 1] \in S
OBVIOUS

LEMMA ChainStepIn ==
  ASSUME NEW image, NEW info, MachOf(image, info), NEW file, MachO!TypedSlice(file),
         NEW fixups \in MachO!Fixups, NEW format, NEW state \in Chainer(image, info)
  PROVE  MachO!ChainStep(image, file, info, fixups, format, state)
           \in {Malformed} \cup Chainer(image, info)
<1> DEFINE entry == MachO!decode_chain(file[state.off], format)
           target == MachO!resolve(info, fixups, entry.ordinal)
           push == MachO!Push(image, info, target.name, target.library, state.off,
                              entry.authenticated)
           found == IF ~entry.is_bind THEN <<>>
                    ELSE IF target = Malformed THEN Malformed
                    ELSE IF target.name \in {<<>>, MachO!TLV_BOOTSTRAP} THEN <<>> ELSE push
           next == [off |-> IF entry.next = 0 THEN None ELSE state.off + entry.next,
                    out |-> state.out \o found]
<1>1. MachO!ChainStep(image, file, info, fixups, format, state) =
        IF state.off = None THEN state
        ELSE IF state.off \notin DOMAIN file THEN Malformed
        ELSE IF entry = Malformed THEN Malformed
        ELSE IF found = Malformed THEN Malformed ELSE next
  BY DEF MachO!ChainStep, MachO!ChainImport, MachO!Try
<1> SUFFICES ASSUME state.off # None, state.off \in DOMAIN file, entry # Malformed,
                    found # Malformed
             PROVE  next \in Chainer(image, info)
  BY <1>1, Zenon
<1>2. state.off \in Nat /\ file[state.off] \in MachO!ChainWord
  BY DEF MachO!TypedSlice
<1>3. entry.ordinal \in Nat /\ entry.next \in Nat /\ entry.authenticated \in BOOLEAN
  <2>1. entry = MachO!decode_chain(file[state.off], format)
    OBVIOUS
  <2> HIDE DEF entry
  <2> QED
    BY <1>2, <2>1, DecodeIn
<1> HIDE DEF entry
<1>4. target # Malformed => target.name \in Seq(STRING)
  <2> DEFINE import == fixups.imports[entry.ordinal + 1]
  <2>1. fixups.imports \in Seq([lib : Nat, name : MachO!Name])
    BY DEF MachO!Fixups
  <2>2. entry.ordinal < Len(fixups.imports) => import \in [lib : Nat, name : MachO!Name]
    BY <1>3, <2>1, ElementIn
  <2>3. target # Malformed =>
          /\ entry.ordinal < Len(fixups.imports) /\ import.name # Malformed
          /\ target.name = MachO!normalize_symbol_name(import.name)
    BY <1>3, <2>1 DEF MachO!resolve
  <2> HIDE DEF import, target
  <2>4. target # Malformed => import.name \in Seq(STRING)
    BY <2>2, <2>3 DEF MachO!Name
  <2> QED
    BY <2>3, <2>4, NormalizeIn
<1> HIDE DEF target
<1>5. target # Malformed => push \in MachYield(image, info)
  BY <1>2, <1>3, <1>4, MachOPush
<1> HIDE DEF push
<1>6. found \in Seq(MachImport(image.slide, info.segments))
  <2>1. found = <<>> \/ (target # Malformed /\ found = push)
    OBVIOUS
  <2> HIDE DEF found
  <2> QED
    BY <1>5, <2>1, MachOEmpty DEF MachYield
<1> HIDE DEF found
<1>7. state.out \o found \in Seq(MachImport(image.slide, info.segments))
  BY <1>6 DEF Chainer
<1>8. (IF entry.next = 0 THEN None ELSE state.off + entry.next) \in {None} \cup Int
  BY <1>2, <1>3
<1> QED
  BY <1>7, <1>8 DEF Chainer

ChainTurn(image, file, info, fixups, format, state) ==
  MachO!Try(state, LAMBDA s : MachO!ChainStep(image, file, info, fixups, format, s))

(* The loop along a chain. *)
ChainLoop(image, file, info, fixups, format, base, seq) ==
  MachO!FoldLeft(LAMBDA state, i : ChainTurn(image, file, info, fixups, format, state), base, seq)

ChainLoopKeeps(image, file, info, fixups, format, A, seq) == \A a \in A, i \in DOMAIN seq : ChainTurn(image, file, info, fixups, format, a) \in A

LEMMA ChainFold ==
  ASSUME NEW image, NEW file, NEW info, NEW fixups, NEW format, NEW A, NEW base \in A,
         NEW seq, IsSequence(seq), ChainLoopKeeps(image, file, info, fixups, format, A, seq)
  PROVE  ChainLoop(image, file, info, fixups, format, base, seq) \in A
<1> DEFINE n == Len(seq)
           Op(a, i) == ChainTurn(image, file, info, fixups, format, a)
           Good(h) == h = [s \in SUBSET (1..n) |->
                             IF s = {} THEN base ELSE Op(h[s \ {Max(s)}], Max(s))]
           f == CHOOSE h : Good(h)
           step == [p \in A \X (1..n) |-> Op(p[1], p[2])]
<1>1. n \in Nat /\ DOMAIN seq = 1..n
  BY SequenceIs
<1>2. ChainLoop(image, file, info, fixups, format, base, seq) = f[1..n]
  BY <1>1 DEF ChainLoop, MachO!FoldLeft, MachO!MapThenFoldSet, Max, MachO!Max
<1> HIDE DEF n, f
<1>3. step \in [A \X (1..n) -> A] /\ \A a \in A, i \in 1..n : step[<<a, i>>] = Op(a, i)
  BY <1>1 DEF ChainLoopKeeps
<1> HIDE DEF step, Op
<1>4. PICK g : IsFold(g, base, step, 1..n) /\ \A s \in SUBSET (1..n) : g[s] \in A
  BY <1>1, <1>3, FoldsIn
<1>5. \A s \in SUBSET (1..n) : s # {} => Max(s) \in 1..n /\ s \ {Max(s)} \in SUBSET (1..n)
  BY <1>1, MaxIs
<1>6. Good(g)
  <2>1. \A s \in SUBSET (1..n) : s # {} =>
          step[<<g[s \ {Max(s)}], Max(s)>>] = Op(g[s \ {Max(s)}], Max(s))
    BY <1>3, <1>4, <1>5
  <2> QED
    BY <1>4, <2>1 DEF IsFold
<1>7. Good(f)
  BY <1>6, Zenon DEF f
<1>8. TakesSteps(f, base, step, A, n)
  BY <1>3, <1>5, <1>7 DEF TakesSteps
<1>9. f[1..n] \in A
  BY <1>1, <1>3, <1>8, FoldEnds
<1> QED
  BY <1>2, <1>9

LEMMA FollowIn ==
  ASSUME NEW image, NEW info, MachOf(image, info), NEW file, MachO!TypedSlice(file),
         NEW fixups \in MachO!Fixups, NEW format, NEW first \in Int
  PROVE  MachO!FollowChain(image, file, info, fixups, format, first) \in MachYield(image, info)
<1> DEFINE A == {Malformed} \cup Chainer(image, info)
           base == [off |-> first, out |-> <<>>]
           turns == [i \in 1..MaxChainSteps |-> i]
           end == ChainLoop(image, file, info, fixups, format, base, turns)
<1>1. base \in A
  <2>1. <<>> \in Seq(MachImport(image.slide, info.segments))
    OBVIOUS
  <2> QED
    BY <2>1 DEF Chainer
<1>2. ChainLoopKeeps(image, file, info, fixups, format, A, turns)
  <2> SUFFICES ASSUME NEW a \in A
               PROVE  ChainTurn(image, file, info, fixups, format, a) \in A
    BY DEF ChainLoopKeeps
  <2>1. a # Malformed => MachO!ChainStep(image, file, info, fixups, format, a) \in A
    BY ChainStepIn
  <2> QED
    BY <2>1 DEF ChainTurn, MachO!Try
<1>3. IsSequence(turns)
  <2>1. turns \in Seq(Nat)
    BY CapsAssumption
  <2> HIDE DEF turns
  <2> QED
    BY <2>1, SequenceOf
<1>4. MachO!FollowChain(image, file, info, fixups, format, first) =
        IF end = Malformed THEN Malformed ELSE end.out
  BY DEF MachO!FollowChain, ChainLoop, ChainTurn, MachO!Try
<1>5. end \in A
  <2> HIDE DEF A, base, turns
  <2> QED
    BY <1>1, <1>2, <1>3, ChainFold
<1> HIDE DEF end
<1> QED
  BY <1>4, <1>5 DEF Chainer, MachYield

LEMMA WalkIn ==
  ASSUME NEW image, NEW info, MachOf(image, info), NEW file, MachO!TypedSlice(file),
         NEW fixups \in MachO!Fixups, NEW starts \in MachO!PageStarts
  PROVE  MachO!walk_segment_chains(image, file, info, fixups, starts) \in MachYield(image, info)
<1> DEFINE First(j) == starts.segment_offset + (j - 1) * starts.page_size + starts.page_start[j]
           Turn(j) == IF starts.page_start[j] = -1 THEN <<>>
                      ELSE MachO!FollowChain(image, file, info, fixups, starts.pointer_format,
                                             First(j))
           turns == [j \in 1..Len(starts.page_start) |-> Turn(j)]
<1>1. MachO!walk_segment_chains(image, file, info, fixups, starts) =
        IF starts.page_size = 0 THEN Malformed ELSE MachO!AllOf(turns)
  BY DEF MachO!walk_segment_chains, MachO!Collect
<1>2. /\ starts.segment_offset \in Nat /\ starts.page_size \in Nat
      /\ starts.page_start \in Seq(Int)
  BY DEF MachO!PageStarts
<1>3. PICK n \in Nat : n = Len(starts.page_start)
  BY <1>2
<1>4. ASSUME NEW j \in 1..n PROVE Turn(j) \in MachYield(image, info)
  <2>1. First(j) \in Int
    <3>1. PICK a \in Nat, b \in Nat, c \in Int :
             a = starts.segment_offset /\ b = starts.page_size /\ c = starts.page_start[j]
      <4>1. starts.page_start[j] \in Int
        BY <1>2, <1>3
      <4> QED
        BY <1>2, <4>1
    <3>2. (j - 1) * b \in Int
      OBVIOUS
    <3> QED
      BY <3>1, <3>2
  <2> HIDE DEF First
  <2> QED
    BY <2>1, FollowIn, MachOEmpty
<1> HIDE DEF Turn
<1>5. turns = [j \in 1..n |-> turns[j]] /\ \A j \in 1..n : turns[j] \in MachYield(image, info)
  BY <1>3, <1>4
<1> HIDE DEF turns
<1>6. MachO!AllOf(turns) \in MachYield(image, info)
  BY <1>5, MachOCollect
<1> QED
  BY <1>1, <1>6, MachOEmpty

LEMMA ChainedIn ==
  ASSUME NEW image, NEW info, MachOf(image, info), NEW file, file = None \/ MachO!TypedSlice(file),
         NEW fixups \in MachO!Fixups
  PROVE  MachO!parse_chained_fixups(image, file, info, fixups) \in MachYield(image, info)
<1> DEFINE Turn(i) == IF fixups.segments[i] = None THEN <<>>
                      ELSE MachO!walk_segment_chains(image, file, info, fixups, fixups.segments[i])
           turns == [i \in 1..Len(fixups.segments) |-> Turn(i)]
<1>1. MachO!parse_chained_fixups(image, file, info, fixups) =
        CASE file = None -> <<>>
          [] file # None /\ (fixups.datasize < 28 \/ fixups.version # 0) -> Malformed
          [] OTHER -> MachO!AllOf(turns)
  BY DEF MachO!parse_chained_fixups, MachO!Collect
<1>2. fixups.segments \in Seq({None} \cup MachO!PageStarts)
  BY DEF MachO!Fixups
<1>3. PICK n \in Nat : n = Len(fixups.segments)
  BY <1>2
<1>4. file # None => \A i \in 1..n : Turn(i) \in MachYield(image, info)
  <2> SUFFICES ASSUME file # None, NEW i \in 1..n PROVE Turn(i) \in MachYield(image, info)
    OBVIOUS
  <2>1. fixups.segments[i] \in {None} \cup MachO!PageStarts
    BY <1>2, <1>3
  <2> QED
    BY <2>1, WalkIn, MachOEmpty
<1> HIDE DEF Turn
<1>5. /\ turns = [i \in 1..n |-> turns[i]]
      /\ file # None => \A i \in 1..n : turns[i] \in MachYield(image, info)
  BY <1>3, <1>4
<1> HIDE DEF turns
<1>6. file # None => MachO!AllOf(turns) \in MachYield(image, info)
  BY <1>5, MachOCollect
<1> QED
  BY <1>1, <1>6, MachOEmpty

LEMMA ComplementIn ==
  ASSUME NEW image, NEW info, MachOf(image, info), NEW file, file = None \/ MachO!TypedSlice(file)
  PROVE  MachO!Complement(image, file, info) \in MachYield(image, info)
<1>1. CASE info.chained # None
  <2>1. info.chained \in MachO!Fixups
    BY <1>1 DEF MachOf, MachInfo
  <2> QED
    BY <1>1, <2>1, ChainedIn DEF MachO!Complement
<1>2. CASE info.chained = None
  <2> DEFINE turns == [i \in 1..Len(info.binds) |->
                         MachO!parse_bind_stream(image, info, info.binds[i])]
  <2>1. MachO!Complement(image, file, info) = MachO!AllOf(turns)
    BY <1>2 DEF MachO!Complement, MachO!Collect
  <2>2. info.binds \in Seq(Seq(MachO!Opcode))
    BY DEF MachOf, MachInfo
  <2>3. PICK n \in Nat : n = Len(info.binds)
    BY <2>2
  <2>4. \A i \in 1..n : info.binds[i] \in Seq(MachO!Opcode)
    BY <2>2, <2>3
  <2>5. /\ turns = [i \in 1..n |-> turns[i]]
        /\ \A i \in 1..n : turns[i] \in MachYield(image, info)
    BY <2>3, <2>4, BindStreamIn
  <2> HIDE DEF turns
  <2> QED
    BY <2>1, <2>5, MachOCollect
<1> QED
  BY <1>1, <1>2

-----------------------------------------------------------------------------
(* The load commands. *)

(* What a loop that keeps or drops its elements pushes. *)
LEMMA FilterIn ==
  ASSUME NEW S, NEW s \in Seq(S), NEW turns, turns = [i \in 1..Len(s) |-> turns[i]],
         \A i \in 1..Len(s) : turns[i] \in {<<>>, <<s[i]>>}
  PROVE  MachO!FlattenSeq(turns) \in Seq(S)
<1>1. turns \in [1..Len(s) -> Seq(S)]
  <2>1. \A i \in 1..Len(s) : s[i] \in S
    OBVIOUS
  <2>2. \A x \in S : <<x>> \in Seq(S)
    OBVIOUS
  <2>3. \A i \in 1..Len(s) : turns[i] \in Seq(S)
    <3> TAKE i \in 1..Len(s)
    <3>1. PICK x \in S : x = s[i]
      BY <2>1
    <3>2. turns[i] = <<>> \/ turns[i] = <<x>>
      BY <3>1
    <3>3. <<>> \in Seq(S) /\ <<x>> \in Seq(S)
      OBVIOUS
    <3> QED
      BY <3>2, <3>3
  <2> QED
    BY <2>3
<1>2. turns \in Seq(Seq(S))
  BY <1>1
<1>3. IsSequence(turns) /\ \A i \in DOMAIN turns : turns[i] \in Seq(S)
  BY <1>1, <1>2, SequenceOf
<1>4. MachO!FlattenSeq(turns) = FlattenSeq(turns)
  BY DEF MachO!FlattenSeq, FlattenSeq
<1> QED
  BY <1>3, <1>4, FlattenIn

LEMMA PointerSectionsIn ==
  ASSUME NEW c, c.sections \in Seq(MachO!Section)
  PROVE  MachO!PointerSections(c) \in Seq(MachO!Section)
<1> DEFINE s == c.sections
           turns == [i \in 1..Len(s) |->
                       IF s[i].flags \in {"S_NON_LAZY_SYMBOL_POINTERS", "S_LAZY_SYMBOL_POINTERS"}
                       THEN <<s[i]>> ELSE <<>>]
<1>1. MachO!PointerSections(c) = MachO!FlattenSeq(turns)
  BY DEF MachO!PointerSections, MachO!Filter
<1> HIDE DEF s
<1>2. turns = [i \in 1..Len(s) |-> turns[i]] /\ \A i \in 1..Len(s) : turns[i] \in {<<>>, <<s[i]>>}
  OBVIOUS
<1> HIDE DEF turns
<1>3. s \in Seq(MachO!Section)
  BY DEF s
<1> QED
  BY <1>1, <1>2, <1>3, FilterIn

(* The streams of a command that are not empty. *)
Streams(c) == MachO!Filter(c.streams, LAMBDA s : s # <<>>)

LEMMA StreamsIn ==
  ASSUME NEW c, c.streams \in Seq(Seq(MachO!Opcode))
  PROVE  Streams(c) \in Seq(Seq(MachO!Opcode))
<1> DEFINE s == c.streams
           turns == [i \in 1..Len(s) |-> IF s[i] # <<>> THEN <<s[i]>> ELSE <<>>]
<1>1. Streams(c) = MachO!FlattenSeq(turns)
  BY DEF Streams, MachO!Filter
<1> HIDE DEF s
<1>2. turns = [i \in 1..Len(s) |-> turns[i]] /\ \A i \in 1..Len(s) : turns[i] \in {<<>>, <<s[i]>>}
  OBVIOUS
<1> HIDE DEF turns
<1>3. s \in Seq(Seq(MachO!Opcode))
  BY DEF s
<1> QED
  BY <1>1, <1>2, <1>3, FilterIn

LEMMA SegmentIn ==
  ASSUME NEW info \in MachInfo, NEW c, MachO!TypedCommand(c), c.cmd = "LC_SEGMENT_64"
  PROVE  MachO!read_segment(info, c) \in MachInfo
<1> DEFINE segment == [vmaddr |-> c.vmaddr, vmsize |-> c.vmsize, fileoff |-> c.fileoff,
                       filesize |-> c.filesize]
           segments == Append(info.segments, segment)
           sections == info.pointer_sections \o MachO!PointerSections(c)
<1>1. MachO!read_segment(info, c) =
        [info EXCEPT !.segments = segments, !.pointer_sections = sections]
  BY DEF MachO!read_segment
<1>2. /\ {c.vmaddr, c.vmsize, c.fileoff} \subseteq Nat /\ c.filesize \in 0..c.vmsize
      /\ c.sections \in Seq(MachO!Section)
  BY DEF MachO!TypedCommand
<1>3. segment \in MachSegment
  <2>1. PICK a \in Nat, z \in Nat, f \in Nat, l \in Nat :
          a = c.vmaddr /\ z = c.vmsize /\ f = c.fileoff /\ l = c.filesize /\ l <= z
    BY <1>2
  <2> QED
    BY <2>1 DEF MachSegment
<1> HIDE DEF segment
<1>4. segments \in Seq(MachSegment)
  BY <1>3 DEF MachInfo
<1>5. sections \in Seq(MachO!Section)
  BY <1>2, PointerSectionsIn DEF MachInfo
<1> HIDE DEF segments, sections
<1> QED
  BY <1>1, <1>4, <1>5 DEF MachInfo

LEMMA CommandIn ==
  ASSUME NEW info \in MachInfo, NEW c, MachO!TypedCommand(c)
  PROVE  MachO!parse_one_command(info, c) \in MachInfo
<1> DEFINE result == MachO!parse_one_command(info, c)
<1>1. CASE c.cmd = "LC_SEGMENT_64"
  <2>1. result = MachO!read_segment(info, c)
    BY <1>1 DEF MachO!parse_one_command
  <2> QED
    BY <1>1, <2>1, SegmentIn
<1>2. CASE c.cmd = "LC_SYMTAB"
  <2>1. result = [info EXCEPT !.symtab = c.symbols]
    BY <1>2 DEF MachO!parse_one_command
  <2>2. PICK symbols \in Seq(MachO!Symbol) : symbols = c.symbols
    BY <1>2 DEF MachO!TypedCommand
  <2> HIDE DEF result
  <2>3. [info EXCEPT !.symtab = symbols] \in MachInfo
    BY DEF MachInfo
  <2> QED
    BY <2>1, <2>2, <2>3 DEF result
<1>3. CASE c.cmd = "LC_DYSYMTAB"
  <2>1. result = [info EXCEPT !.indirect = c.indirect]
    BY <1>3 DEF MachO!parse_one_command
  <2>2. PICK indirect \in Seq(Nat \cup {-1}) : indirect = c.indirect
    BY <1>3 DEF MachO!TypedCommand
  <2> HIDE DEF result
  <2>3. [info EXCEPT !.indirect = indirect] \in MachInfo
    BY DEF MachInfo
  <2> QED
    BY <2>1, <2>2, <2>3 DEF result
<1>4. CASE c.cmd = "LC_DYLD_INFO"
  <2>1. result = [info EXCEPT !.binds = @ \o Streams(c)]
    BY <1>4 DEF MachO!parse_one_command, Streams
  <2>2. Streams(c) \in Seq(Seq(MachO!Opcode))
    BY <1>4, StreamsIn DEF MachO!TypedCommand
  <2>3. PICK binds \in Seq(Seq(MachO!Opcode)) : binds = info.binds \o Streams(c)
    <3>1. info.binds \in Seq(Seq(MachO!Opcode))
      BY DEF MachInfo
    <3>2. info.binds \o Streams(c) \in Seq(Seq(MachO!Opcode))
      BY <2>2, <3>1
    <3> QED
      BY <3>2, Zenon
  <2> HIDE DEF result
  <2>4. [info EXCEPT !.binds = binds] \in MachInfo
    BY DEF MachInfo
  <2> QED
    BY <2>1, <2>3, <2>4 DEF result
<1>5. CASE c.cmd = "LC_DYLD_CHAINED_FIXUPS"
  <2>1. result = [info EXCEPT !.chained = c.fixups]
    BY <1>5 DEF MachO!parse_one_command
  <2>2. PICK fixups \in MachO!Fixups : fixups = c.fixups
    BY <1>5 DEF MachO!TypedCommand
  <2> HIDE DEF result
  <2>3. [info EXCEPT !.chained = fixups] \in MachInfo
    BY DEF MachInfo
  <2> QED
    BY <2>1, <2>2, <2>3 DEF result
<1>6. CASE c.cmd = "LC_LOAD_DYLIB"
  <2>1. result = [info EXCEPT !.dylibs = Append(@, c.name)]
    BY <1>6 DEF MachO!parse_one_command
  <2>2. c.name \in STRING /\ info.dylibs \in Seq(STRING)
    BY <1>6 DEF MachO!TypedCommand, MachInfo
  <2>3. PICK dylibs \in Seq(STRING) : dylibs = Append(info.dylibs, c.name)
    <3>1. Append(info.dylibs, c.name) \in Seq(STRING)
      BY <2>2
    <3> QED
      BY <3>1, Zenon
  <2> HIDE DEF result
  <2>4. [info EXCEPT !.dylibs = dylibs] \in MachInfo
    BY DEF MachInfo
  <2> QED
    BY <2>1, <2>3, <2>4 DEF result
<1>7. CASE c.cmd \notin {"LC_SEGMENT_64", "LC_SYMTAB", "LC_DYSYMTAB", "LC_DYLD_INFO",
                         "LC_DYLD_CHAINED_FIXUPS", "LC_LOAD_DYLIB"}
  BY <1>7 DEF MachO!parse_one_command
<1> QED
  BY <1>1, <1>2, <1>3, <1>4, <1>5, <1>6, <1>7

LEMMA LoadCommandIn ==
  ASSUME NEW image, NEW info \in {Malformed} \cup MachInfo, NEW c, MachO!TypedCommand(c)
  PROVE  MachO!LoadCommand(image, info, c) \in {Malformed} \cup MachInfo
<1> DEFINE next == MachO!parse_one_command(info, c)
           result == MachO!LoadCommand(image, info, c)
<1>1. /\ info = Malformed => result = Malformed
      /\ result = Malformed \/ result = [next EXCEPT !.cursor = @ + c.cmdsize]
  BY DEF MachO!LoadCommand
<1> HIDE DEF result
<1>2. info # Malformed => next \in MachInfo
  BY CommandIn
<1> HIDE DEF next
<1>3. info # Malformed => [next EXCEPT !.cursor = @ + c.cmdsize] \in MachInfo
  <2> SUFFICES ASSUME info # Malformed
               PROVE  [next EXCEPT !.cursor = @ + c.cmdsize] \in MachInfo
    OBVIOUS
  <2>1. c.cmdsize \in Nat /\ next.cursor \in Int
    BY <1>2 DEF MachO!TypedCommand, MachInfo
  <2>2. PICK cursor \in Int : cursor = next.cursor + c.cmdsize
    BY <2>1
  <2>3. [next EXCEPT !.cursor = cursor] \in MachInfo
    BY <1>2 DEF MachInfo
  <2> QED
    BY <2>2, <2>3
<1> QED
  BY <1>1, <1>3 DEF result

(* The loop over the load commands. *)
LoadLoop(image, base, seq) ==
  MachO!FoldLeft(LAMBDA info, c : MachO!LoadCommand(image, info, c), base, seq)

LoadLoopKeeps(image, A, seq) == \A a \in A, i \in DOMAIN seq : MachO!LoadCommand(image, a, seq[i]) \in A

(* F are the states of the loop. *)
LoadLoopTrace(image, F, A, base, seq) ==
  /\ F \in [0..Len(seq) -> A] /\ F[0] = base
  /\ \A k \in 1..Len(seq) : F[k] = MachO!LoadCommand(image, F[k - 1], seq[k])

LEMMA LoadFold ==
  ASSUME NEW image, NEW A, NEW base \in A,
         NEW seq, IsSequence(seq), LoadLoopKeeps(image, A, seq)
  PROVE  \E F : LoadLoopTrace(image, F, A, base, seq) /\ F[Len(seq)] = LoadLoop(image, base, seq)
<1> DEFINE n == Len(seq)
           Op(a, i) == MachO!LoadCommand(image, a, seq[i])
           Good(h) == h = [s \in SUBSET (1..n) |->
                             IF s = {} THEN base ELSE Op(h[s \ {Max(s)}], Max(s))]
           f == CHOOSE h : Good(h)
           step == [p \in A \X (1..n) |-> Op(p[1], p[2])]
<1>1. n \in Nat /\ DOMAIN seq = 1..n
  BY SequenceIs
<1>2. LoadLoop(image, base, seq) = f[1..n]
  BY <1>1 DEF LoadLoop, MachO!FoldLeft, MachO!MapThenFoldSet, Max, MachO!Max
<1> HIDE DEF n, f
<1>3. step \in [A \X (1..n) -> A] /\ \A a \in A, i \in 1..n : step[<<a, i>>] = Op(a, i)
  BY <1>1 DEF LoadLoopKeeps
<1> HIDE DEF step, Op
<1>4. PICK g : IsFold(g, base, step, 1..n) /\ \A s \in SUBSET (1..n) : g[s] \in A
  BY <1>1, <1>3, FoldsIn
<1>5. \A s \in SUBSET (1..n) : s # {} => Max(s) \in 1..n /\ s \ {Max(s)} \in SUBSET (1..n)
  BY <1>1, MaxIs
<1>6. Good(g)
  <2>1. \A s \in SUBSET (1..n) : s # {} =>
          step[<<g[s \ {Max(s)}], Max(s)>>] = Op(g[s \ {Max(s)}], Max(s))
    BY <1>3, <1>4, <1>5
  <2> QED
    BY <1>4, <2>1 DEF IsFold
<1>7. Good(f)
  BY <1>6, Zenon DEF f
<1>8. TakesSteps(f, base, step, A, n)
  BY <1>3, <1>5, <1>7 DEF TakesSteps
<1>9. PICK F : Traces(F, base, step, A, n) /\ F[n] = f[1..n]
  BY <1>1, <1>3, <1>8, FoldTrace
<1>10. \A k \in 1..n : F[k] = Op(F[k - 1], k)
  <2> TAKE k \in 1..n
  <2>1. F[k - 1] \in A
    BY <1>1, <1>9 DEF Traces
  <2> QED
    BY <1>3, <1>9, <2>1 DEF Traces
<1>11. LoadLoopTrace(image, F, A, base, seq)
  BY <1>9, <1>10 DEF Op, n, Traces, LoadLoopTrace
<1> QED
  BY <1>2, <1>9, <1>11 DEF n

LEMMA LoadFoldIn ==
  ASSUME NEW image, NEW A, NEW base \in A,
         NEW seq, IsSequence(seq), LoadLoopKeeps(image, A, seq)
  PROVE  LoadLoop(image, base, seq) \in A
<1>1. PICK F : LoadLoopTrace(image, F, A, base, seq) /\ F[Len(seq)] = LoadLoop(image, base, seq)
  BY LoadFold
<1>2. Len(seq) \in 0..Len(seq)
  BY SequenceIs
<1> QED
  BY <1>1, <1>2 DEF LoadLoopTrace

LEMMA LoadCommandsIn ==
  ASSUME NEW image, MachO!TypedImage(image)
  PROVE  MachO!read_load_commands(image) \in {Malformed} \cup MachInfo
<1> DEFINE A == {Malformed} \cup MachInfo
           info == LoadLoop(image, MachO!LoadInfo, image.cmds)
<1>1. MachO!read_load_commands(image) = IF image.magic THEN info ELSE Malformed
  BY DEF MachO!read_load_commands, LoadLoop
<1>2. MachO!LoadInfo \in A
  <2>1. /\ <<>> \in Seq(MachSegment) /\ <<>> \in Seq(MachO!Section)
        /\ <<>> \in Seq(Seq(MachO!Opcode)) /\ <<>> \in Seq(STRING)
    OBVIOUS
  <2> QED
    BY <2>1 DEF MachO!LoadInfo, MachInfo
<1>3. IsSequence(image.cmds) /\ \A i \in DOMAIN image.cmds : MachO!TypedCommand(image.cmds[i])
  BY DEF MachO!TypedImage, MachO!IsSequence, IsSequence, MachO!ToSet, ToSet
<1>4. LoadLoopKeeps(image, A, image.cmds)
  BY <1>3, LoadCommandIn DEF LoadLoopKeeps
<1> HIDE DEF A
<1>5. info \in A
  BY <1>2, <1>3, <1>4, LoadFoldIn
<1> HIDE DEF info
<1> QED
  BY <1>1, <1>5 DEF A

-----------------------------------------------------------------------------
(* The merge of the three sources. *)

(* The merge of the complement. *)
MergeLoop(base, seq) ==
  MachO!FoldLeft(MachO!MergeOne, base, seq)

MergeLoopKeeps(A, seq) == \A a \in A, i \in DOMAIN seq : MachO!MergeOne(a, seq[i]) \in A

LEMMA MergeFold ==
  ASSUME NEW A, NEW base \in A,
         NEW seq, IsSequence(seq), MergeLoopKeeps(A, seq)
  PROVE  MergeLoop(base, seq) \in A
<1> DEFINE n == Len(seq)
           Op(a, i) == MachO!MergeOne(a, seq[i])
           Good(h) == h = [s \in SUBSET (1..n) |->
                             IF s = {} THEN base ELSE Op(h[s \ {Max(s)}], Max(s))]
           f == CHOOSE h : Good(h)
           step == [p \in A \X (1..n) |-> Op(p[1], p[2])]
<1>1. n \in Nat /\ DOMAIN seq = 1..n
  BY SequenceIs
<1>2. MergeLoop(base, seq) = f[1..n]
  BY <1>1 DEF MergeLoop, MachO!FoldLeft, MachO!MapThenFoldSet, Max, MachO!Max
<1> HIDE DEF n, f
<1>3. step \in [A \X (1..n) -> A] /\ \A a \in A, i \in 1..n : step[<<a, i>>] = Op(a, i)
  BY <1>1 DEF MergeLoopKeeps
<1> HIDE DEF step, Op
<1>4. PICK g : IsFold(g, base, step, 1..n) /\ \A s \in SUBSET (1..n) : g[s] \in A
  BY <1>1, <1>3, FoldsIn
<1>5. \A s \in SUBSET (1..n) : s # {} => Max(s) \in 1..n /\ s \ {Max(s)} \in SUBSET (1..n)
  BY <1>1, MaxIs
<1>6. Good(g)
  <2>1. \A s \in SUBSET (1..n) : s # {} =>
          step[<<g[s \ {Max(s)}], Max(s)>>] = Op(g[s \ {Max(s)}], Max(s))
    BY <1>3, <1>4, <1>5
  <2> QED
    BY <1>4, <2>1 DEF IsFold
<1>7. Good(f)
  BY <1>6, Zenon DEF f
<1>8. TakesSteps(f, base, step, A, n)
  BY <1>3, <1>5, <1>7 DEF TakesSteps
<1>9. f[1..n] \in A
  BY <1>1, <1>3, <1>8, FoldEnds
<1> QED
  BY <1>2, <1>9

LEMMA MergeOneIn ==
  ASSUME NEW slide, NEW segments, NEW out \in Seq(MachImport(slide, segments)),
         NEW import \in MachImport(slide, segments)
  PROVE  MachO!MergeOne(out, import) \in Seq(MachImport(slide, segments))
<1> DEFINE I == {i \in 1..Len(out) : out[i].slot = import.slot}
           at == IF I # {} THEN Min(I) ELSE 0
           new == [out[at] EXCEPT !.authenticated = import.authenticated]
<1>1. MachO!MergeOne(out, import) =
        IF at = 0 THEN Append(out, import) ELSE [out EXCEPT ![at] = new]
  BY DEF MachO!MergeOne, MachO!SelectInSeq, MachO!Min, Min
<1>2. at # 0 => at \in 1..Len(out)
  <2>1. Len(out) \in Nat /\ I \in SUBSET (1..Len(out))
    OBVIOUS
  <2> HIDE DEF I
  <2> QED
    BY <2>1, FirstIndex
<1> HIDE DEF at
<1>3. at # 0 => new \in MachImport(slide, segments)
  <2> SUFFICES ASSUME at # 0 PROVE new \in MachImport(slide, segments)
    OBVIOUS
  <2>1. PICK r \in MachImport(slide, segments) : r = out[at]
    BY <1>2
  <2>2. import.authenticated \in BOOLEAN
    BY DEF MachImport
  <2>3. [r EXCEPT !.authenticated = import.authenticated] \in MachImport(slide, segments)
    BY <2>2 DEF MachImport
  <2> QED
    BY <2>1, <2>3
<1> HIDE DEF new
<1>4. at # 0 => [out EXCEPT ![at] = new] \in Seq(MachImport(slide, segments))
  BY <1>2, <1>3
<1> QED
  BY <1>1, <1>4

LEMMA MergeIn ==
  ASSUME NEW slide, NEW segments, NEW out \in Seq(MachImport(slide, segments)),
         NEW complement \in Seq(MachImport(slide, segments))
  PROVE  MachO!merge_complement(out, complement) \in Seq(MachImport(slide, segments))
<1> DEFINE A == Seq(MachImport(slide, segments))
<1>1. MachO!merge_complement(out, complement) = MergeLoop(out, complement)
  BY DEF MachO!merge_complement, MergeLoop
<1>2. IsSequence(complement)
  BY SequenceOf
<1>3. MergeLoopKeeps(A, complement)
  <2> SUFFICES ASSUME NEW a \in A, NEW i \in DOMAIN complement
               PROVE  MachO!MergeOne(a, complement[i]) \in A
    BY DEF MergeLoopKeeps
  <2>1. complement[i] \in MachImport(slide, segments)
    OBVIOUS
  <2> QED
    BY <2>1, MergeOneIn
<1> QED
  BY <1>1, <1>2, <1>3, MergeFold

(* No slot is listed twice. *)
Unrepeated(s) == \A i, j \in DOMAIN s : s[i].slot = s[j].slot => i = j

(* The duplicates left out. *)
KeepFirstLoop(base, seq) ==
  MachO!FoldLeft(MachO!KeepFirst, base, seq)

KeepFirstLoopKeeps(A, seq) == \A a \in A, i \in DOMAIN seq : MachO!KeepFirst(a, seq[i]) \in A

(* F are the states of the loop. *)
KeepFirstLoopTrace(F, A, base, seq) ==
  /\ F \in [0..Len(seq) -> A] /\ F[0] = base
  /\ \A k \in 1..Len(seq) : F[k] = MachO!KeepFirst(F[k - 1], seq[k])

LEMMA KeepFirstFold ==
  ASSUME NEW A, NEW base \in A,
         NEW seq, IsSequence(seq), KeepFirstLoopKeeps(A, seq)
  PROVE  \E F : KeepFirstLoopTrace(F, A, base, seq) /\ F[Len(seq)] = KeepFirstLoop(base, seq)
<1> DEFINE n == Len(seq)
           Op(a, i) == MachO!KeepFirst(a, seq[i])
           Good(h) == h = [s \in SUBSET (1..n) |->
                             IF s = {} THEN base ELSE Op(h[s \ {Max(s)}], Max(s))]
           f == CHOOSE h : Good(h)
           step == [p \in A \X (1..n) |-> Op(p[1], p[2])]
<1>1. n \in Nat /\ DOMAIN seq = 1..n
  BY SequenceIs
<1>2. KeepFirstLoop(base, seq) = f[1..n]
  BY <1>1 DEF KeepFirstLoop, MachO!FoldLeft, MachO!MapThenFoldSet, Max, MachO!Max
<1> HIDE DEF n, f
<1>3. step \in [A \X (1..n) -> A] /\ \A a \in A, i \in 1..n : step[<<a, i>>] = Op(a, i)
  BY <1>1 DEF KeepFirstLoopKeeps
<1> HIDE DEF step, Op
<1>4. PICK g : IsFold(g, base, step, 1..n) /\ \A s \in SUBSET (1..n) : g[s] \in A
  BY <1>1, <1>3, FoldsIn
<1>5. \A s \in SUBSET (1..n) : s # {} => Max(s) \in 1..n /\ s \ {Max(s)} \in SUBSET (1..n)
  BY <1>1, MaxIs
<1>6. Good(g)
  <2>1. \A s \in SUBSET (1..n) : s # {} =>
          step[<<g[s \ {Max(s)}], Max(s)>>] = Op(g[s \ {Max(s)}], Max(s))
    BY <1>3, <1>4, <1>5
  <2> QED
    BY <1>4, <2>1 DEF IsFold
<1>7. Good(f)
  BY <1>6, Zenon DEF f
<1>8. TakesSteps(f, base, step, A, n)
  BY <1>3, <1>5, <1>7 DEF TakesSteps
<1>9. PICK F : Traces(F, base, step, A, n) /\ F[n] = f[1..n]
  BY <1>1, <1>3, <1>8, FoldTrace
<1>10. \A k \in 1..n : F[k] = Op(F[k - 1], k)
  <2> TAKE k \in 1..n
  <2>1. F[k - 1] \in A
    BY <1>1, <1>9 DEF Traces
  <2> QED
    BY <1>3, <1>9, <2>1 DEF Traces
<1>11. KeepFirstLoopTrace(F, A, base, seq)
  BY <1>9, <1>10 DEF Op, n, Traces, KeepFirstLoopTrace
<1> QED
  BY <1>2, <1>9, <1>11 DEF n

LEMMA KeepFirstFoldIn ==
  ASSUME NEW A, NEW base \in A,
         NEW seq, IsSequence(seq), KeepFirstLoopKeeps(A, seq)
  PROVE  KeepFirstLoop(base, seq) \in A
<1>1. PICK F : KeepFirstLoopTrace(F, A, base, seq) /\ F[Len(seq)] = KeepFirstLoop(base, seq)
  BY KeepFirstFold
<1>2. Len(seq) \in 0..Len(seq)
  BY SequenceIs
<1> QED
  BY <1>1, <1>2 DEF KeepFirstLoopTrace

LEMMA KeepFirstIn ==
  ASSUME NEW R, NEW out \in Seq(R), Unrepeated(out), NEW import \in R
  PROVE  /\ MachO!KeepFirst(out, import) \in Seq(R)
         /\ Unrepeated(MachO!KeepFirst(out, import))
<1>1. CASE \E i \in DOMAIN out : out[i].slot = import.slot
  BY <1>1 DEF MachO!KeepFirst
<1>2. CASE ~ \E i \in DOMAIN out : out[i].slot = import.slot
  <2> DEFINE new == Append(out, import)
  <2>1. MachO!KeepFirst(out, import) = new
    BY <1>2 DEF MachO!KeepFirst
  <2>2. /\ new \in Seq(R) /\ DOMAIN new = 1..(Len(out) + 1) /\ DOMAIN out = 1..Len(out)
        /\ Len(out) \in Nat
        /\ new[Len(out) + 1] = import /\ \A i \in 1..Len(out) : new[i] = out[i]
    OBVIOUS
  <2> HIDE DEF new
  <2>3. ASSUME NEW i \in DOMAIN new, NEW j \in DOMAIN new, new[i].slot = new[j].slot
        PROVE  i = j
    <3>1. CASE i \in 1..Len(out) /\ j \in 1..Len(out)
      BY <2>2, <2>3, <3>1 DEF Unrepeated
    <3>2. CASE i = Len(out) + 1 /\ j = Len(out) + 1
      BY <3>2
    <3>3. CASE i = Len(out) + 1 /\ j \in 1..Len(out)
      BY <1>2, <2>2, <2>3, <3>3
    <3>4. CASE i \in 1..Len(out) /\ j = Len(out) + 1
      BY <1>2, <2>2, <2>3, <3>4
    <3> QED
      BY <2>2, <3>1, <3>2, <3>3, <3>4
  <2> QED
    BY <2>1, <2>2, <2>3 DEF Unrepeated
<1> QED
  BY <1>1, <1>2

LEMMA MergedIn ==
  ASSUME NEW slide, NEW segments, NEW primary \in Seq(MachImport(slide, segments)),
         NEW complement \in {Malformed} \cup Seq(MachImport(slide, segments))
  PROVE  /\ MachO!Merged(primary, complement) \in Seq(MachImport(slide, segments))
         /\ Unrepeated(MachO!Merged(primary, complement))
<1> DEFINE R == MachImport(slide, segments)
           A == {s \in Seq(R) : Unrepeated(s)}
           all == IF complement = Malformed THEN primary
                  ELSE MachO!merge_complement(primary, complement)
<1>1. MachO!Merged(primary, complement) = KeepFirstLoop(<<>>, all)
  BY DEF MachO!Merged, KeepFirstLoop
<1>2. all \in Seq(R)
  BY MergeIn
<1> HIDE DEF all, R
<1>3. <<>> \in A
  BY DEF Unrepeated
<1>4. KeepFirstLoopKeeps(A, all)
  <2> SUFFICES ASSUME NEW a \in A, NEW i \in DOMAIN all
               PROVE  MachO!KeepFirst(a, all[i]) \in A
    BY DEF KeepFirstLoopKeeps
  <2>1. all[i] \in R
    BY <1>2
  <2> QED
    BY <2>1, KeepFirstIn
<1>5. IsSequence(all)
  BY <1>2, SequenceOf
<1> HIDE DEF A
<1>6. KeepFirstLoop(<<>>, all) \in A
  BY <1>3, <1>4, <1>5, KeepFirstFoldIn
<1> QED
  BY <1>1, <1>6 DEF A, R

(* Every slot of a Mach-O listing is a cell of the image, and is listed once. *)
LEMMA MachOListing ==
  ASSUME NEW image, MachO!TypedImage(image), NEW file, file = None \/ MachO!TypedSlice(file),
         NEW listing, listing = MachO!parse_imports(image, file), listing # Malformed,
         NEW info, info = MachO!read_load_commands(image)
  PROVE  /\ info \in MachInfo
         /\ listing \in Seq(MachImport(image.slide, info.segments))
         /\ Unrepeated(listing)
<1> DEFINE primary == MachO!parse_indirect(image, info)
           complement == MachO!Complement(image, file, info)
<1>1. /\ info # Malformed /\ primary # Malformed
      /\ listing = MachO!Merged(primary, complement)
  BY DEF MachO!parse_imports, MachO!Try
<1>2. info \in MachInfo
  BY <1>1, LoadCommandsIn
<1>3. MachOf(image, info)
  BY <1>2 DEF MachOf, MachO!TypedImage
<1>4. primary \in Seq(MachImport(image.slide, info.segments))
  BY <1>1, <1>3, IndirectIn DEF MachYield
<1>5. complement \in {Malformed} \cup Seq(MachImport(image.slide, info.segments))
  BY <1>3, ComplementIn DEF MachYield
<1> HIDE DEF primary, complement
<1> QED
  BY <1>1, <1>2, <1>4, <1>5, MergedIn

-----------------------------------------------------------------------------
(* ELF. *)

(* A loop whose turns push imports of the cells or fail. *)
LEMMA YieldsAllOf ==
  ASSUME NEW C, NEW n \in Nat, NEW turns, turns = [i \in 1..n |-> turns[i]],
         \A i \in 1..n : Yields(turns[i], C)
  PROVE  Yields(AllOf(turns), C)
<1>1. CASE \E i \in DOMAIN turns : turns[i] = Malformed
  BY <1>1 DEF AllOf, Yields
<1>2. CASE ~ \E i \in DOMAIN turns : turns[i] = Malformed
  <2>1. DOMAIN turns = 1..n /\ \A i \in 1..n : Lists(turns[i], C)
    BY <1>2 DEF Yields
  <2>2. turns \in [1..n -> ToSet(turns)]
    BY <2>1 DEF ToSet
  <2>3. turns \in Seq(ToSet(turns))
    BY <2>2
  <2>4. IsSequence(turns)
    BY <2>3 DEF IsSequence
  <2>5. Lists(FlattenSeq(turns), C)
    BY <2>1, <2>4, ListsFlatten
  <2> QED
    BY <1>2, <2>5 DEF AllOf, Yields
<1> QED
  BY <1>1, <1>2

LEMMA YieldsEmpty ==
  ASSUME NEW C
  PROVE  Yields(<<>>, C) /\ Yields(Malformed, C)
BY ListsEmpty DEF Yields

ElfCells(obj) ==
  {a \in Int : /\ a % 8 = 0
               /\ \E p \in Elf!Loads(obj) :
                    /\ p.vaddr + obj.base <= a
                    /\ a + 8 <= p.vaddr + obj.base + p.memsz}

LEMMA ElfLoads ==
  ASSUME NEW obj, Elf!TypedObject(obj), NEW p \in Elf!Loads(obj)
  PROVE  p.vaddr \in Nat /\ p.memsz \in Nat
<1>1. PICK i \in DOMAIN obj.phdrs : p = obj.phdrs[i]
  BY DEF Elf!Loads, Elf!ToSet
<1> QED
  BY <1>1 DEF Elf!TypedObject

LEMMA ElfSlot ==
  ASSUME NEW obj, Elf!TypedObject(obj), NEW offset \in Nat,
         NEW a, a = Elf!slot_address(obj, offset), a # Malformed
  PROVE  a \in ElfCells(obj)
<1>1. /\ a = obj.base + offset /\ a % 8 = 0
      /\ \E p \in Elf!Loads(obj) : offset >= p.vaddr /\ offset + 8 <= p.vaddr + p.memsz
  BY DEF Elf!slot_address, Elf!vaddr_in_load, Elf!PTR_SIZE
<1>2. PICK p \in Elf!Loads(obj) : offset >= p.vaddr /\ offset + 8 <= p.vaddr + p.memsz
  BY <1>1
<1>3. PICK v \in Nat, z \in Nat, b \in Nat : v = p.vaddr /\ z = p.memsz /\ b = obj.base
  BY ElfLoads DEF Elf!TypedObject
<1>4. a \in Int /\ v + b <= a /\ a + 8 <= v + b + z
  <2>1. offset >= v /\ offset + 8 <= v + z /\ a = b + offset
    BY <1>1, <1>2, <1>3
  <2> QED
    BY <2>1
<1> QED
  BY <1>1, <1>3, <1>4 DEF ElfCells

LEMMA RelocationYields ==
  ASSUME NEW t, Elf!TypedObject(t.obj), NEW want_type, NEW entry
  PROVE  Yields(Elf!Relocation(t, want_type, entry), ElfCells(t.obj))
<1> DEFINE rela == Elf!ReadIn(t.obj, t.obj.relas, entry, 24)
           symbol == Elf!read_live(t.obj, t.symtab + 24 * rela.sym, 24)
           name == Elf!read_str(t.strtab, t.strsz, symbol.name)
           ver == Elf!version_of(t.obj, t.versions, t.versym, rela.sym)
           slot == Elf!slot_address(t.obj, rela.offset)
           import == [library |-> ver[2], symbol |-> name, version |-> ver[1], slot |-> slot,
                      kind |-> "Standard", authenticated |-> FALSE]
           result == Elf!Relocation(t, want_type, entry)
<1>1. \/ result \in {Malformed, <<>>}
      \/ rela # Malformed /\ slot # Malformed /\ result = <<import>>
  BY DEF Elf!Relocation, Elf!Try, Elf!PushAt, Elf!RawImport, Elf!RELA_SIZE, Elf!SYM_SIZE
<1>2. rela # Malformed => rela.offset \in Nat
  <2>1. rela # Malformed => \E a \in DOMAIN t.obj.relas : rela = t.obj.relas[a]
    BY DEF Elf!ReadIn
  <2> HIDE DEF rela
  <2> QED
    BY <2>1 DEF Elf!TypedObject
<1> HIDE DEF result, symbol, name, ver, rela
<1>3. rela # Malformed /\ slot # Malformed => import.slot \in ElfCells(t.obj)
  BY <1>2, ElfSlot
<1> HIDE DEF slot, import
<1>4. rela # Malformed /\ slot # Malformed => Yields(<<import>>, ElfCells(t.obj))
  BY <1>3, ListsOne DEF Yields
<1> QED
  BY <1>1, <1>4, YieldsEmpty, SMTT(30) DEF result

LEMMA WalkRelaYields ==
  ASSUME NEW t, Elf!TypedObject(t.obj), NEW want_type, NEW table, NEW size \in Nat,
         NEW entsize \in Nat
  PROVE  Yields(Elf!walk_rela(t, want_type, table, size, entsize), ElfCells(t.obj))
<1>1. CASE entsize = 0
  BY <1>1, YieldsEmpty DEF Elf!walk_rela
<1>2. CASE entsize # 0
  <2>1. PICK n \in Nat : n = size \div entsize
    BY <1>2
  <2> DEFINE turns == [i \in 1..n |-> Elf!Relocation(t, want_type, table + (i - 1) * entsize)]
  <2>2. Elf!walk_rela(t, want_type, table, size, entsize) =
          IF n > MaxRelocs THEN Malformed ELSE Elf!AllOf(turns)
    BY <1>2, <2>1 DEF Elf!walk_rela, Elf!Collect
  <2>3. turns = [i \in 1..n |-> turns[i]] /\ \A i \in 1..n : Yields(turns[i], ElfCells(t.obj))
    BY RelocationYields
  <2> HIDE DEF turns
  <2>4. Elf!AllOf(turns) = AllOf(turns)
    BY DEF Elf!AllOf, AllOf, Elf!FlattenSeq, FlattenSeq
  <2>5. Yields(AllOf(turns), ElfCells(t.obj))
    BY <2>3, YieldsAllOf
  <2> QED
    BY <2>2, <2>4, <2>5, YieldsEmpty
<1> QED
  BY <1>1, <1>2

(* The values of the dynamic array are words. *)
Words(dynamic) == \A tag \in DOMAIN dynamic : dynamic[tag] \in Nat

LEMMA DynamicWords ==
  ASSUME NEW obj, Elf!TypedObject(obj), NEW dynamic, dynamic = Elf!read_dynamic(obj),
         dynamic # Malformed
  PROVE  Words(dynamic)
<1> DEFINE At(i) == obj.base + Elf!DynamicVaddr(obj) + 16 * (i - 1)
           entries == [i \in 1..MaxDyn |-> Elf!ReadIn(obj, obj.dynamic, At(i), 16)]
           Stop(e) == IF e = Malformed THEN TRUE ELSE e.tag = "DT_NULL"
           I == {i \in 1..MaxDyn : Stop(entries[i])}
           end == IF I # {} THEN Min(I) ELSE 0
           Of(tag) == {i \in 1..(end - 1) : entries[i].tag = tag}
           last(tag) == IF Of(tag) # {} THEN Max(Of(tag)) ELSE 0
<1>1. MaxDyn \in Nat /\ Len(entries) = MaxDyn
  BY CapsAssumption
<1>2. dynamic = Elf!UpTo(entries, end)
  BY <1>1 DEF Elf!read_dynamic, Elf!UpToNull, Elf!SelectInSeq, Elf!Min, Min
<1>3. end # 0
  BY <1>2, Zenon DEF Elf!UpTo
<1>4. end \in 1..MaxDyn /\ \A i \in I : end <= i
  <2>1. I \in SUBSET (1..MaxDyn)
    OBVIOUS
  <2> HIDE DEF I
  <2> QED
    BY <1>1, <1>3, <2>1, FirstIndex
<1>5. \A i \in 1..(end - 1) : i \in 1..MaxDyn /\ entries[i] # Malformed
  <2> TAKE i \in 1..(end - 1)
  <2>1. i \in 1..MaxDyn /\ ~ (end <= i)
    BY <1>1, <1>4
  <2>2. i \notin I
    BY <1>4, <2>1
  <2> QED
    BY <2>1, <2>2
<1>6. \A i \in 1..(end - 1) : entries[i].val \in Nat
  <2> TAKE i \in 1..(end - 1)
  <2>1. \E a \in DOMAIN obj.dynamic : entries[i] = obj.dynamic[a]
    BY <1>5 DEF Elf!ReadIn
  <2> HIDE DEF entries
  <2> QED
    BY <2>1 DEF Elf!TypedObject
<1> HIDE DEF end, entries
<1>7. dynamic = [tag \in {entries[i].tag : i \in 1..(end - 1)} |-> entries[last(tag)].val]
  BY <1>2, <1>3, <1>4 DEF Elf!UpTo, Elf!SelectLastInSubSeq, Elf!Max, Max
<1>8. \A tag \in {entries[i].tag : i \in 1..(end - 1)} : last(tag) \in 1..(end - 1)
  <2> TAKE tag \in {entries[i].tag : i \in 1..(end - 1)}
  <2>1. Of(tag) # {} /\ Of(tag) \in SUBSET (1..(end - 1)) /\ end - 1 \in Nat
    BY <1>1, <1>4
  <2> HIDE DEF Of
  <2> QED
    BY <2>1, MaxIs
<1> HIDE DEF last
<1> QED
  BY <1>6, <1>7, <1>8 DEF Words

LEMMA ElfTables ==
  ASSUME NEW t, Elf!TypedObject(t.obj), NEW dynamic, Words(dynamic), NEW kinds
  PROVE  /\ Yields(Elf!Plt(t, dynamic, kinds), ElfCells(t.obj))
         /\ Yields(Elf!Got(t, dynamic, kinds), ElfCells(t.obj))
<1>1. Yields(Elf!Plt(t, dynamic, kinds), ElfCells(t.obj))
  <2> DEFINE table == Elf!dynptr_cursor(t.obj, dynamic["DT_JMPREL"])
             walk == Elf!walk_rela(t, kinds.jump_slot, table, dynamic["DT_PLTRELSZ"], 24)
             result == Elf!Plt(t, dynamic, kinds)
  <2>1. \/ result \in {Malformed, <<>>}
        \/ Elf!Has(dynamic, {"DT_PLTRELSZ"}) /\ result = walk
    BY DEF Elf!Plt, Elf!Has, Elf!Try, Elf!RELA_SIZE
  <2>2. Elf!Has(dynamic, {"DT_PLTRELSZ"}) => dynamic["DT_PLTRELSZ"] \in Nat
    BY DEF Elf!Has, Words
  <2> HIDE DEF table, result
  <2>3. Elf!Has(dynamic, {"DT_PLTRELSZ"}) => Yields(walk, ElfCells(t.obj))
    BY <2>2, WalkRelaYields
  <2> HIDE DEF walk
  <2> QED
    BY <2>1, <2>3, YieldsEmpty DEF result
<1>2. Yields(Elf!Got(t, dynamic, kinds), ElfCells(t.obj))
  <2> DEFINE table == Elf!dynptr_cursor(t.obj, dynamic["DT_RELA"])
             entsize == IF Elf!Has(dynamic, {"DT_RELAENT"}) THEN dynamic["DT_RELAENT"] ELSE 24
             walk == Elf!walk_rela(t, kinds.glob_dat, table, dynamic["DT_RELASZ"], entsize)
             result == Elf!Got(t, dynamic, kinds)
  <2>1. \/ result \in {Malformed, <<>>}
        \/ Elf!Has(dynamic, {"DT_RELASZ"}) /\ result = walk
    BY DEF Elf!Got, Elf!Try, Elf!RELA_SIZE
  <2>2. Elf!Has(dynamic, {"DT_RELASZ"}) => dynamic["DT_RELASZ"] \in Nat
    BY DEF Elf!Has, Words
  <2>3. entsize \in Nat
    BY DEF Elf!Has, Words
  <2> HIDE DEF table, entsize, result
  <2>4. Elf!Has(dynamic, {"DT_RELASZ"}) => Yields(walk, ElfCells(t.obj))
    BY <2>2, <2>3, WalkRelaYields
  <2> HIDE DEF walk
  <2> QED
    BY <2>1, <2>4, YieldsEmpty DEF result
<1> QED
  BY <1>1, <1>2

(* Every slot of an ELF listing is a cell of the object. *)
LEMMA ElfListing ==
  ASSUME NEW obj, Elf!TypedObject(obj)
  PROVE  Yields(Elf!parse_imports(obj), ElfCells(obj))
<1> DEFINE dynamic == Elf!read_dynamic(obj)
           kinds == Elf!elf_reloc_kinds(obj.mem[Elf!EhdrVaddr(obj)].machine)
           tables == Elf!ParseTables(obj, kinds, dynamic)
<1>1. Elf!parse_imports(obj) = IF dynamic = Malformed THEN Malformed ELSE tables
  BY DEF Elf!parse_imports, Elf!Try
<1>2. dynamic # Malformed => Words(dynamic)
  BY DynamicWords
<1> HIDE DEF dynamic, kinds
<1>3. \/ tables = Malformed
      \/ \E t : t.obj = obj /\ tables = Elf!Join(Elf!Plt(t, dynamic, kinds), Elf!Got(t, dynamic, kinds))
  <2> DEFINE symtab == Elf!dynptr_cursor(obj, dynamic["DT_SYMTAB"])
             strings == Elf!dynptr_cursor(obj, dynamic["DT_STRTAB"])
             versym == IF Elf!Has(dynamic, {"DT_VERSYM"})
                       THEN Elf!dynptr_cursor(obj, dynamic["DT_VERSYM"]) ELSE None
             strtab == Elf!read_live(obj, strings, 1)
             strsz == dynamic["DT_STRSZ"]
             versions == Elf!build_version_map(obj, dynamic, strtab, strsz)
             t == [obj |-> obj, symtab |-> symtab, strtab |-> strtab, strsz |-> strsz,
                   versym |-> versym, versions |-> versions]
  <2>1. \/ tables = Malformed
        \/ tables = Elf!Join(Elf!Plt(t, dynamic, kinds), Elf!Got(t, dynamic, kinds))
    BY DEF Elf!ParseTables, Elf!Try
  <2> HIDE DEF tables
  <2>2. t.obj = obj
    OBVIOUS
  <2> HIDE DEF t
  <2> QED
    BY <2>1, <2>2
<1> HIDE DEF tables
<1>4. dynamic # Malformed => Yields(tables, ElfCells(obj))
  <2> SUFFICES ASSUME dynamic # Malformed, tables # Malformed PROVE Yields(tables, ElfCells(obj))
    BY YieldsEmpty
  <2>1. PICK t : t.obj = obj /\ tables = Elf!Join(Elf!Plt(t, dynamic, kinds), Elf!Got(t, dynamic, kinds))
    BY <1>3
  <2> DEFINE plt == Elf!Plt(t, dynamic, kinds)
             got == Elf!Got(t, dynamic, kinds)
  <2>2. Yields(plt, ElfCells(obj)) /\ Yields(got, ElfCells(obj))
    BY <1>2, <2>1, ElfTables
  <2>3. tables = IF Malformed \in {plt, got} THEN Malformed ELSE plt \o got
    BY <2>1 DEF Elf!Join
  <2> HIDE DEF plt, got
  <2> QED
    BY <2>2, <2>3, ListsJoin DEF Yields
<1> QED
  BY <1>1, <1>4, YieldsEmpty

-----------------------------------------------------------------------------
(* PE. *)

PeCells(image) ==
  {a \in Int : a % 8 = 0 /\ image.base <= a /\ a + 8 <= image.base + image.size}

LEMMA PeSlot ==
  ASSUME NEW image, Pe!TypedImage(image), NEW rva \in Nat,
         NEW a, a = Pe!slot_address(image, rva), a # Malformed
  PROVE  a \in PeCells(image)
<1>1. a = image.base + rva /\ rva + 8 <= image.size /\ rva % 8 = 0
  BY DEF Pe!slot_address, Pe!THUNK_SIZE
<1>2. PICK b \in Nat, z \in Nat : b = image.base /\ z = image.size /\ b % 8 = 0
  BY DEF Pe!TypedImage, Pe!THUNK_SIZE
<1>3. (b + rva) % 8 = 0 /\ b + rva \in Int /\ b <= b + rva /\ b + rva + 8 <= b + z
  BY <1>1, <1>2
<1> QED
  BY <1>1, <1>2, <1>3 DEF PeCells

LEMMA Prefix ==
  ASSUME NEW S, NEW s \in Seq(S), NEW n \in Nat, n <= Len(s)
  PROVE  SubSeq(s, 1, n) = [i \in 1..n |-> s[i]]
<1> DEFINE f == [i \in 1..n |-> s[i]]
           p == SubSeq(s, 1, n)
<1>1. \A i \in 1..n : i \in 1..Len(s)
  OBVIOUS
<1>2. DOMAIN p = 1..n /\ \A i \in 1..n : p[i] = s[i]
  BY <1>1
<1>3. p = [i \in DOMAIN p |-> p[i]]
  OBVIOUS
<1> HIDE DEF p
<1> QED
  BY <1>2, <1>3

(* I are the entries that end a table, a read that fails among them. *)
Enders(I, entries, cap) ==
  /\ entries = [i \in 1..cap |-> entries[i]]
  /\ I \in SUBSET (1..cap)
  /\ \A i \in 1..cap : entries[i] = Malformed => i \in I

(* The table is the first n entries, none of which failed. *)
FirstEntries(table, entries, cap) ==
  /\ Len(table) \in Nat
  /\ \A i \in 1..Len(table) : i \in 1..cap /\ entries[i] # Malformed /\ table[i] = entries[i]

LEMMA PeUpTo ==
  ASSUME NEW cap \in Nat, NEW entries, NEW I, Enders(I, entries, cap),
         NEW table, table = Pe!UpTo(entries, IF I # {} THEN Min(I) ELSE 0), table # Malformed
  PROVE  FirstEntries(table, entries, cap)
<1> USE DEF Enders
<1> DEFINE end == IF I # {} THEN Min(I) ELSE 0
<1>1. end # 0 /\ table = SubSeq(entries, 1, end - 1)
  BY DEF Pe!UpTo
<1>2. end \in 1..cap /\ \A i \in I : end <= i
  BY <1>1, FirstIndex
<1> HIDE DEF end
<1>3. PICK n \in Nat : n = end - 1
  BY <1>2
<1>4. \A i \in 1..n : i \in 1..cap /\ entries[i] # Malformed
  <2> TAKE i \in 1..n
  <2>1. i \in 1..cap /\ ~ (end <= i)
    BY <1>2, <1>3
  <2> QED
    BY <1>2, <2>1
<1>5. PICK S : entries \in Seq(S)
  <2>1. entries \in [1..cap -> ToSet(entries)]
    BY DEF ToSet
  <2>2. entries \in Seq(ToSet(entries))
    BY <2>1
  <2> QED
    BY <2>2
<1>6. Len(entries) = cap
  BY <1>5
<1>7. table = SubSeq(entries, 1, n) /\ n <= Len(entries)
  BY <1>1, <1>2, <1>3, <1>6
<1>8. table = [i \in 1..n |-> entries[i]]
  BY <1>5, <1>7, Prefix
<1>9. Len(table) = n
  BY <1>8
<1> QED
  BY <1>4, <1>8, <1>9 DEF FirstEntries

(* The loop over the entries of such a table. *)
LEMMA PeAllOf ==
  ASSUME NEW C, NEW n \in Nat, NEW turns, turns = [i \in 1..n |-> turns[i]],
         \A i \in 1..n : Yields(turns[i], C)
  PROVE  Yields(Pe!AllOf(turns), C)
<1>1. Pe!AllOf(turns) = AllOf(turns)
  BY DEF Pe!AllOf, AllOf, Pe!FlattenSeq, FlattenSeq
<1> QED
  BY <1>1, YieldsAllOf

LEMMA ThunksYield ==
  ASSUME NEW image, Pe!TypedImage(image), NEW names, NEW slots \in Nat, NEW library, NEW kind
  PROVE  Yields(Pe!collect_thunks(image, names, slots, library, kind), PeCells(image))
<1> DEFINE rva == IF names = 0 THEN slots ELSE names
           entries == [i \in 1..MaxThunks |->
                         Pe!read(image, image.mem, rva + (i - 1) * 8, 8, Pe!ZeroThunk)]
           I == {i \in 1..MaxThunks : IF entries[i] = Malformed THEN TRUE
                                      ELSE entries[i] = Pe!ZeroThunk}
           table == Pe!UpTo(entries, IF I # {} THEN Min(I) ELSE 0)
           Symbol(j) == IF names = 0 THEN None ELSE Pe!ThunkSymbol(image, library, table[j])
           slot(j) == Pe!slot_address(image, slots + (j - 1) * 8)
           import(j) == [library |-> library, symbol |-> Symbol(j), version |-> None,
                         slot |-> slot(j), kind |-> kind, authenticated |-> FALSE]
           turns == [j \in 1..Len(table) |->
                       IF Symbol(j) = Malformed THEN Malformed
                       ELSE IF slot(j) = Malformed THEN Malformed ELSE <<import(j)>>]
<1>1. MaxThunks \in Nat /\ Len(entries) = MaxThunks
  BY CapsAssumption
<1>2. table = Pe!Thunks(image, rva)
  BY <1>1 DEF Pe!Thunks, Pe!Terminated, Pe!UpToZero, Pe!SelectInSeq, Pe!Min, Min, Pe!THUNK_SIZE
<1> HIDE DEF rva
<1>3. Pe!collect_thunks(image, names, slots, library, kind) =
        IF table = Malformed THEN Malformed ELSE Pe!AllOf(turns)
  <2> HIDE DEF table
  <2> QED
    BY <1>2 DEF Pe!collect_thunks, Pe!Collect, Pe!Try, Pe!PushAt, Pe!RawImport, Pe!THUNK_SIZE, rva
<1>4. table # Malformed => Len(table) \in Nat
  <2>1. Enders(I, entries, MaxThunks)
    BY DEF Enders
  <2> HIDE DEF entries, I
  <2> QED
    BY <1>1, <2>1, PeUpTo DEF FirstEntries
<1> HIDE DEF table
<1>5. ASSUME table # Malformed, NEW j \in 1..Len(table) PROVE Yields(turns[j], PeCells(image))
  <2>1. slots + (j - 1) * 8 \in Nat
    BY <1>4, <1>5
  <2>2. slot(j) # Malformed => import(j).slot \in PeCells(image)
    BY <2>1, PeSlot
  <2>3. turns[j] \in {Malformed, <<import(j)>>} /\ (turns[j] # Malformed => slot(j) # Malformed)
    BY <1>4, <1>5
  <2> HIDE DEF turns, slot, import
  <2>4. slot(j) # Malformed => Yields(<<import(j)>>, PeCells(image))
    BY <2>2, ListsOne DEF Yields
  <2> QED
    BY <2>3, <2>4, YieldsEmpty
<1>6. turns = [j \in 1..Len(table) |-> turns[j]]
  OBVIOUS
<1> HIDE DEF turns
<1>7. table # Malformed => Yields(Pe!AllOf(turns), PeCells(image))
  BY <1>4, <1>5, <1>6, PeAllOf
<1> QED
  BY <1>3, <1>7, YieldsEmpty

LEMMA StandardYields ==
  ASSUME NEW image, Pe!TypedImage(image), NEW dir
  PROVE  Yields(Pe!parse_standard(image, dir), PeCells(image))
<1> DEFINE zero == [names |-> 0, name |-> 0, slots |-> 0]
           entries == [i \in 1..MaxDescriptors |->
                         Pe!read(image, image.descriptors, dir + (i - 1) * 20, 20, zero)]
           I == {i \in 1..MaxDescriptors : IF entries[i] = Malformed THEN TRUE
                                           ELSE entries[i].name = 0}
           table == Pe!UpTo(entries, IF I # {} THEN Min(I) ELSE 0)
           Library(i) == Pe!cstr(image, table[i].name)
           Pushed(i) == Pe!collect_thunks(image, table[i].names, table[i].slots, Library(i),
                                          "Standard")
           turns == [i \in 1..Len(table) |->
                       IF table[i].slots = 0 THEN <<>>
                       ELSE IF Library(i) = Malformed THEN Malformed ELSE Pushed(i)]
<1>1. MaxDescriptors \in Nat /\ Len(entries) = MaxDescriptors
  BY CapsAssumption
<1>2. table = Pe!Descriptors(image, dir)
  BY <1>1 DEF Pe!Descriptors, Pe!Terminated, Pe!UpToZero, Pe!SelectInSeq, Pe!Min, Min,
              Pe!IMPORT_DESCRIPTOR_SIZE
<1>3. Pe!parse_standard(image, dir) = IF table = Malformed THEN Malformed ELSE Pe!AllOf(turns)
  <2> HIDE DEF table
  <2> QED
    BY <1>2 DEF Pe!parse_standard, Pe!Collect, Pe!Try
<1>4. table # Malformed => FirstEntries(table, entries, MaxDescriptors)
  <2>1. Enders(I, entries, MaxDescriptors)
    BY DEF Enders
  <2>2. table = Pe!UpTo(entries, IF I # {} THEN Min(I) ELSE 0)
    OBVIOUS
  <2> HIDE DEF entries, I, table
  <2> QED
    BY <1>1, <2>1, <2>2, PeUpTo
<1>5. \A i \in 1..MaxDescriptors : entries[i] # Malformed => entries[i].slots \in Nat
  <2> TAKE i \in 1..MaxDescriptors
  <2>1. \/ entries[i] = Malformed \/ entries[i] = zero
        \/ \E a \in DOMAIN image.descriptors : entries[i] = image.descriptors[a]
    BY DEF Pe!read
  <2> HIDE DEF entries
  <2> QED
    BY <2>1 DEF Pe!TypedImage
<1> HIDE DEF table, entries
<1>6. ASSUME table # Malformed, NEW i \in 1..Len(table) PROVE Yields(turns[i], PeCells(image))
  <2>1. table[i].slots \in Nat
    BY <1>4, <1>5, <1>6 DEF FirstEntries
  <2> HIDE DEF Library
  <2>2. Yields(Pushed(i), PeCells(image))
    BY <2>1, ThunksYield
  <2>3. turns[i] \in {<<>>, Malformed, Pushed(i)}
    BY <1>4, <1>6 DEF FirstEntries
  <2> HIDE DEF turns, Pushed
  <2> QED
    BY <2>2, <2>3, YieldsEmpty
<1>7. turns = [i \in 1..Len(table) |-> turns[i]]
  OBVIOUS
<1> HIDE DEF turns
<1>8. table # Malformed => Yields(Pe!AllOf(turns), PeCells(image))
  BY <1>4, <1>6, <1>7, PeAllOf DEF FirstEntries
<1> QED
  BY <1>3, <1>8, YieldsEmpty

(* A field of a delay descriptor, once it is an RVA. *)
DelayField(image, d, f) == IF f = 0 THEN 0 ELSE Pe!field_rva(image, f, d.attributes % 2 = 1)

LEMMA DelayFieldIn ==
  ASSUME NEW image, Pe!TypedImage(image), NEW d, NEW f \in Nat
  PROVE  DelayField(image, d, f) \in {Malformed} \cup Nat
<1>1. image.base \in Nat /\ image.size \in Nat
  BY DEF Pe!TypedImage
<1>2. f >= image.base => f - image.base \in Nat
  BY <1>1
<1>3. \/ Pe!field_rva(image, f, d.attributes % 2 = 1) \in {Malformed, f}
      \/ f >= image.base /\ Pe!field_rva(image, f, d.attributes % 2 = 1) = f - image.base
  BY DEF Pe!field_rva
<1> QED
  BY <1>2, <1>3 DEF DelayField

LEMMA DelayYields ==
  ASSUME NEW image, Pe!TypedImage(image), NEW dir
  PROVE  Yields(Pe!parse_delay(image, dir), PeCells(image))
<1> DEFINE zero == [attributes |-> 0, name |-> 0, slots |-> 0, names |-> 0]
           entries == [i \in 1..MaxDescriptors |->
                         Pe!read(image, image.delayed, dir + (i - 1) * 32, 20, zero)]
           I == {i \in 1..MaxDescriptors : IF entries[i] = Malformed THEN TRUE
                                           ELSE entries[i].name = 0}
           table == Pe!UpTo(entries, IF I # {} THEN Min(I) ELSE 0)
           Library(i) == Pe!cstr(image, table[i].name)
           Names(i) == DelayField(image, table[i], table[i].names)
           Slots(i) == DelayField(image, table[i], table[i].slots)
           Pushed(i) == Pe!collect_thunks(image, Names(i), Slots(i), Library(i), "DelayLoad")
           turns == [i \in 1..Len(table) |->
                       IF Library(i) = Malformed THEN Malformed
                       ELSE IF Library(i) = "" \/ table[i].slots = 0 THEN <<>>
                       ELSE IF Names(i) = Malformed THEN Malformed
                       ELSE IF Slots(i) = Malformed THEN Malformed ELSE Pushed(i)]
<1>1. MaxDescriptors \in Nat /\ Len(entries) = MaxDescriptors
  BY CapsAssumption
<1>2. table = Pe!DelayDescriptors(image, dir)
  BY <1>1 DEF Pe!DelayDescriptors, Pe!Terminated, Pe!UpToZero, Pe!SelectInSeq, Pe!Min, Min,
              Pe!DELAY_DESCRIPTOR_SIZE
<1>3. Pe!parse_delay(image, dir) = IF table = Malformed THEN Malformed ELSE Pe!AllOf(turns)
  <2> HIDE DEF table
  <2> QED
    BY <1>2 DEF Pe!parse_delay, Pe!Collect, Pe!Try, DelayField
<1>4. table # Malformed => FirstEntries(table, entries, MaxDescriptors)
  <2>1. Enders(I, entries, MaxDescriptors)
    BY DEF Enders
  <2>2. table = Pe!UpTo(entries, IF I # {} THEN Min(I) ELSE 0)
    OBVIOUS
  <2> HIDE DEF entries, I, table
  <2> QED
    BY <1>1, <2>1, <2>2, PeUpTo
<1>5. \A i \in 1..MaxDescriptors : entries[i] # Malformed => entries[i].slots \in Nat
  <2> TAKE i \in 1..MaxDescriptors
  <2>1. \/ entries[i] = Malformed \/ entries[i] = zero
        \/ \E a \in DOMAIN image.delayed : entries[i] = image.delayed[a]
    BY DEF Pe!read
  <2> HIDE DEF entries
  <2> QED
    BY <2>1 DEF Pe!TypedImage
<1> HIDE DEF table, entries
<1>6. ASSUME table # Malformed, NEW i \in 1..Len(table) PROVE Yields(turns[i], PeCells(image))
  <2>1. Slots(i) \in {Malformed} \cup Nat
    <3>1. table[i].slots \in Nat
      BY <1>4, <1>5, <1>6 DEF FirstEntries
    <3> QED
      BY <3>1, DelayFieldIn
  <2> HIDE DEF Library, Names, Slots
  <2>2. Slots(i) # Malformed => Yields(Pushed(i), PeCells(image))
    BY <2>1, ThunksYield
  <2>3. /\ turns[i] \in {<<>>, Malformed, Pushed(i)}
        /\ turns[i] \in {<<>>, Malformed} \/ Slots(i) # Malformed
    BY <1>4, <1>6 DEF FirstEntries
  <2> HIDE DEF turns, Pushed
  <2> QED
    BY <2>2, <2>3, YieldsEmpty
<1>7. turns = [i \in 1..Len(table) |-> turns[i]]
  OBVIOUS
<1> HIDE DEF turns
<1>8. table # Malformed => Yields(Pe!AllOf(turns), PeCells(image))
  BY <1>4, <1>6, <1>7, PeAllOf DEF FirstEntries
<1> QED
  BY <1>3, <1>8, YieldsEmpty

(* Every slot of a PE listing is a cell of the image. *)
LEMMA PeListing ==
  ASSUME NEW image, Pe!TypedImage(image)
  PROVE  Yields(Pe!parse_imports(image), PeCells(image))
<1> DEFINE dirs == Pe!parse_headers(image)
           standard == IF dirs.import = 0 THEN <<>> ELSE Pe!parse_standard(image, dirs.import)
           delay == Pe!parse_delay(image, dirs.delay)
           delayed == IF dirs.delay = 0 THEN <<>> ELSE IF delay = Malformed THEN <<>> ELSE delay
<1>1. Pe!parse_imports(image) \in {Malformed, standard \o delayed}
      /\ (standard = Malformed => Pe!parse_imports(image) = Malformed)
  BY DEF Pe!parse_imports, Pe!Try, Pe!OrNothing
<1> HIDE DEF dirs
<1>2. Yields(standard, PeCells(image))
  BY StandardYields, YieldsEmpty
<1>3. Lists(delayed, PeCells(image))
  BY DelayYields, ListsEmpty DEF Yields
<1> HIDE DEF standard, delayed
<1>4. CASE standard = Malformed
  BY <1>1, <1>4, YieldsEmpty
<1>5. CASE standard # Malformed
  <2>1. Lists(standard \o delayed, PeCells(image))
    BY <1>2, <1>3, <1>5, ListsJoin DEF Yields
  <2>2. Yields(standard \o delayed, PeCells(image))
    BY <2>1 DEF Yields
  <2> QED
    BY <1>1, <2>2, YieldsEmpty
<1> QED
  BY <1>4, <1>5

-----------------------------------------------------------------------------
(* The module. *)

LEMMA SliceTyped ==
  ASSUME NEW m \in Modules, m.format = "macho", NEW d \in DiskStates,
         NEW slice, slice = MachO!load_thin_slice(OnDisk(m, d), m.image.cpu, m.image.sub)
  PROVE  (slice = None \/ MachO!TypedSlice(slice)) /\ slice # Unread
<1>1. CASE OnDisk(m, d) = None
  BY <1>1, UnreadAssumption DEF MachO!load_thin_slice
<1>2. CASE OnDisk(m, d) # None
  <2>1. PICK container : container = OnDisk(m, d)
    OBVIOUS
  <2>2. /\ MachO!TypedContainer(container)
        /\ \A i \in DOMAIN container.slices : container.slices[i].words # Unread
    BY <1>2, <2>1, ModulesAssumption, UnreadAssumption
  <2>3. IsSequence(container.slices) /\ container.slices # <<>>
    BY <1>2, <2>1, <2>2 DEF MachO!TypedContainer, MachO!IsSequence, IsSequence, MachO!ToSet, ToSet
  <2> DEFINE n == Len(container.slices)
             I == {i \in 1..n : container.slices[i].cpu = m.image.cpu /\ container.slices[i].sub = m.image.sub}
             at == IF I # {} THEN Min(I) ELSE 0
  <2>4. n \in Nat /\ DOMAIN container.slices = 1..n /\ n # 0
    BY <2>3, SequenceIs
  <2>5. at # 0 => at \in 1..n
    <3>1. I \in SUBSET (1..n)
      OBVIOUS
    <3> HIDE DEF I, n
    <3> QED
      BY <2>4, <3>1, FirstIndex
  <2>6. slice = None \/ slice = container.slices[1].words
          \/ (at # 0 /\ slice = container.slices[at].words)
    <3>1. slice = MachO!thin_slice_range(container, m.image.cpu, m.image.sub)
      BY <1>2, <2>1 DEF MachO!load_thin_slice
    <3>2. CASE container.kind = "thin"
      BY <3>1, <3>2 DEF MachO!thin_slice_range
    <3>3. CASE container.kind = "fat"
      BY <3>1, <3>3, Zenon DEF MachO!thin_slice_range, MachO!SelectInSeq, MachO!Min, Min
    <3>4. CASE container.kind \notin {"thin", "fat"}
      BY <3>1, <3>4 DEF MachO!thin_slice_range
    <3> QED
      BY <3>2, <3>3, <3>4
  <2>7. slice = None \/ \E i \in DOMAIN container.slices : slice = container.slices[i].words
    <3> HIDE DEF at, n
    <3> QED
      BY <2>4, <2>5, <2>6
  <2> QED
    BY <1>2, <2>1, <2>2, <2>7, UnreadAssumption DEF MachO!TypedContainer
<1> QED
  BY <1>1, <1>2

(* The invariant of the cells: the slice, once read, is one the chain walk *)
(* can read.                                                               *)
SliceInv ==
  /\ module \in Modules /\ disk \in DiskStates
  /\ module.format = "macho" =>
       thin_slice = Unread \/ thin_slice = None \/ MachO!TypedSlice(thin_slice)

LEMMA ThinSliceTyped ==
  ASSUME SliceInv, module.format = "macho"
  PROVE  ThinSlice(module) = None \/ MachO!TypedSlice(ThinSlice(module))
BY SliceTyped DEF SliceInv, ThinSlice

(* Every slot of a listing is patchable. *)
Patchable(m, listing) ==
  /\ \A i \in DOMAIN listing :
       /\ listing[i].slot % 8 = 0
       /\ \E s \in Mapped(m) : s.lo <= listing[i].slot /\ listing[i].slot + 8 <= s.hi
  /\ m.format = "macho" => Unrepeated(listing)

LEMMA AnswerPatchable ==
  ASSUME SliceInv, NEW listing, listing = ParseImports(module), listing # Malformed
  PROVE  Patchable(module, listing)
<1> DEFINE image == module.image
<1>1. CASE module.format = "macho"
  <2> DEFINE file == ThinSlice(module)
             info == MachO!read_load_commands(image)
             spans == {[lo |-> s.vmaddr + image.slide, hi |-> s.vmaddr + image.slide + s.vmsize] :
                         s \in ToSet(info.segments)}
  <2>1. listing = MachO!parse_imports(image, file)
    BY <1>1 DEF ParseImports
  <2>2. MachO!TypedImage(image)
    BY <1>1, ModulesAssumption DEF SliceInv
  <2>3. file = None \/ MachO!TypedSlice(file)
    BY <1>1, ThinSliceTyped
  <2>4. Mapped(module) = spans
    BY <1>1 DEF Mapped
  <2> HIDE DEF file, info, image
  <2>5. /\ listing \in Seq(MachImport(image.slide, info.segments))
        /\ Unrepeated(listing)
    BY <2>1, <2>2, <2>3, MachOListing DEF info
  <2>6. ASSUME NEW i \in DOMAIN listing
        PROVE  /\ listing[i].slot % 8 = 0
               /\ \E s \in spans : s.lo <= listing[i].slot /\ listing[i].slot + 8 <= s.hi
    <3>1. listing[i].slot \in MachCells(image.slide, info.segments)
      <4>1. listing[i] \in MachImport(image.slide, info.segments)
        BY <2>5
      <4> QED
        BY <4>1 DEF MachImport
    <3>2. PICK k \in DOMAIN info.segments :
            /\ info.segments[k].vmaddr + image.slide <= listing[i].slot
            /\ listing[i].slot + 8 <= info.segments[k].vmaddr + image.slide + info.segments[k].vmsize
      BY <3>1 DEF MachCells
    <3> DEFINE s == info.segments[k]
               span == [lo |-> s.vmaddr + image.slide, hi |-> s.vmaddr + image.slide + s.vmsize]
    <3>3. s \in ToSet(info.segments)
      BY <3>2 DEF ToSet
    <3>4. span \in spans /\ span.lo <= listing[i].slot /\ listing[i].slot + 8 <= span.hi
      BY <3>2, <3>3
    <3> QED
      BY <3>1, <3>4 DEF MachCells
  <2> HIDE DEF spans
  <2> QED
    BY <1>1, <2>4, <2>5, <2>6 DEF Patchable
<1>2. CASE module.format = "elf"
  <2> DEFINE spans == {[lo |-> p.vaddr + image.base, hi |-> p.vaddr + image.base + p.memsz] :
                         p \in Elf!Loads(image)}
  <2>1. listing = Elf!parse_imports(image)
    BY <1>2 DEF ParseImports
  <2>2. Elf!TypedObject(image)
    BY <1>2, ModulesAssumption DEF SliceInv
  <2>3. Mapped(module) = spans
    BY <1>2 DEF Mapped
  <2> HIDE DEF image
  <2>4. Lists(listing, ElfCells(image))
    BY <2>1, <2>2, ElfListing DEF Yields
  <2>5. ASSUME NEW i \in DOMAIN listing
        PROVE  /\ listing[i].slot % 8 = 0
               /\ \E s \in spans : s.lo <= listing[i].slot /\ listing[i].slot + 8 <= s.hi
    <3>1. listing[i].slot \in ElfCells(image)
      BY <2>4 DEF Lists
    <3>2. PICK p \in Elf!Loads(image) : /\ p.vaddr + image.base <= listing[i].slot
                                        /\ listing[i].slot + 8 <= p.vaddr + image.base + p.memsz
      BY <3>1 DEF ElfCells
    <3> DEFINE span == [lo |-> p.vaddr + image.base, hi |-> p.vaddr + image.base + p.memsz]
    <3>3. span \in spans /\ span.lo <= listing[i].slot /\ listing[i].slot + 8 <= span.hi
      BY <3>2
    <3> QED
      BY <3>1, <3>3 DEF ElfCells
  <2> HIDE DEF spans
  <2> QED
    BY <1>2, <2>3, <2>5 DEF Patchable
<1>3. CASE module.format = "pe"
  <2> DEFINE span == [lo |-> image.base, hi |-> image.base + image.size]
  <2>1. listing = Pe!parse_imports(image)
    BY <1>3 DEF ParseImports
  <2>2. Pe!TypedImage(image)
    BY <1>3, ModulesAssumption DEF SliceInv
  <2>3. Mapped(module) = {span}
    BY <1>3 DEF Mapped
  <2> HIDE DEF image
  <2>4. Lists(listing, PeCells(image))
    BY <2>1, <2>2, PeListing DEF Yields
  <2>5. ASSUME NEW i \in DOMAIN listing
        PROVE  /\ listing[i].slot % 8 = 0
               /\ span.lo <= listing[i].slot /\ listing[i].slot + 8 <= span.hi
    BY <2>4 DEF Lists, PeCells
  <2> HIDE DEF span
  <2> QED
    BY <1>3, <2>3, <2>5 DEF Patchable
<1> QED
  BY <1>1, <1>2, <1>3, ModulesAssumption DEF SliceInv

LEMMA SliceInvStep ==
  ASSUME SliceInv, [Next]_vars
  PROVE  SliceInv'
<1>1. CASE Imports
  <2>1. module' = module /\ disk' = disk
    BY <1>1 DEF Imports
  <2>2. module.format = "macho" => thin_slice' = thin_slice \/ thin_slice' = ThinSlice(module)
    BY <1>1 DEF Imports
  <2> QED
    BY <2>1, <2>2, ThinSliceTyped DEF SliceInv
<1>2. CASE ReplaceFile
  BY <1>2 DEF ReplaceFile, SliceInv
<1>3. CASE UNCHANGED vars
  BY <1>3 DEF vars, SliceInv
<1> QED
  BY <1>1, <1>2, <1>3 DEF Next

LEMMA SliceInvInit ==
  ASSUME Init
  PROVE  SliceInv
BY CapsAssumption DEF Init, SliceInv

LEMMA PatchableIs ==
  SlotsPatchable <=> Patchable(module, Listed)
BY DEF SlotsPatchable, Patchable, Unrepeated

LEMMA NothingPatchable ==
  ASSUME imports \in {Unread, Malformed}
  PROVE  SlotsPatchable
<1>1. Listed = <<>>
  BY DEF Listed
<1>2. DOMAIN Listed = {}
  BY <1>1
<1> QED
  BY <1>2 DEF SlotsPatchable

(* Every slot that Module::imports hands to install() is an aligned cell   *)
(* wholly inside the mapped image, whatever the tables of the image say    *)
(* and whatever has become of its file; and no Mach-O slot is listed twice *)
(* (Module::imports, slot_address of the three parsers).                   *)
THEOREM SlotsArePatchable == Spec => []SlotsPatchable
<1> DEFINE Inv == SliceInv /\ SlotsPatchable
<1>1. Init => Inv
  BY SliceInvInit, NothingPatchable DEF Init
<1>2. Inv /\ [Next]_vars => Inv'
  <2> SUFFICES ASSUME SliceInv, SlotsPatchable, [Next]_vars PROVE SlotsPatchable'
    BY SliceInvStep
  <2>1. CASE Imports
    <3>1. module' = module /\ imports' = IF Acquired(module) THEN ParseImports(module) ELSE Malformed
      BY <2>1 DEF Imports
    <3>2. CASE imports' \in {Unread, Malformed}
      <4>1. Listed' = <<>>
        BY <3>2 DEF Listed
      <4>2. DOMAIN (Listed') = {}
        BY <4>1
      <4> QED
        BY <4>2 DEF SlotsPatchable
    <3>3. CASE imports' \notin {Unread, Malformed}
      <4>1. imports' = ParseImports(module) /\ Listed' = imports'
        BY <3>1, <3>3 DEF Listed
      <4>2. Patchable(module, imports')
        BY <3>3, <4>1, AnswerPatchable
      <4>3. Mapped(module)' = Mapped(module)
        BY <3>1 DEF Mapped
      <4> QED
        BY <3>1, <4>1, <4>2, <4>3 DEF SlotsPatchable, Patchable, Unrepeated
    <3> QED
      BY <3>2, <3>3
  <2>2. CASE ReplaceFile
    <3>1. module' = module /\ imports' = imports
      BY <2>2 DEF ReplaceFile
    <3>2. Listed' = Listed /\ Mapped(module)' = Mapped(module)
      BY <3>1 DEF Listed, Mapped
    <3> QED
      BY <3>1, <3>2 DEF SlotsPatchable
  <2>3. CASE UNCHANGED vars
    <3>1. module' = module /\ imports' = imports
      BY <2>3 DEF vars
    <3>2. Listed' = Listed /\ Mapped(module)' = Mapped(module)
      BY <3>1 DEF Listed, Mapped
    <3> QED
      BY <3>1, <3>2 DEF SlotsPatchable
  <2> QED
    BY <2>1, <2>2, <2>3 DEF Next
<1> QED
  BY <1>1, <1>2, PTL DEF Spec

(* What imports() answers with a given slice. *)
Answer(m, slice) ==
  IF ~Acquired(m) THEN Malformed
  ELSE CASE m.format = "macho" -> MachO!parse_imports(m.image, slice)
         [] m.format = "elf" -> Elf!parse_imports(m.image)
         [] m.format = "pe" -> Pe!parse_imports(m.image)

(* Where the slice is not asked for, it does not matter. *)
LEMMA SliceUnused ==
  ASSUME NEW m \in Modules, ~NeedsSlice(m), NEW x, NEW y
  PROVE  Answer(m, x) = Answer(m, y)
<1>1. CASE m.format = "macho" /\ Acquired(m)
  <2> DEFINE info == MachO!read_load_commands(m.image)
             primary == MachO!parse_indirect(m.image, info)
  <2>1. info.chained = None \/ primary = Malformed
    BY <1>1 DEF NeedsSlice
  <2>2. \A file : MachO!parse_imports(m.image, file) =
          IF ~MachO!macho_cpu_supported(m.image.cpu) THEN Malformed
          ELSE IF info = Malformed THEN Malformed
          ELSE IF primary = Malformed THEN Malformed
          ELSE MachO!Merged(primary, MachO!Complement(m.image, file, info))
    BY DEF MachO!parse_imports, MachO!Try
  <2> HIDE DEF info, primary
  <2>3. info.chained = None =>
          MachO!Complement(m.image, x, info) = MachO!Complement(m.image, y, info)
    BY DEF MachO!Complement
  <2>4. MachO!parse_imports(m.image, x) = MachO!parse_imports(m.image, y)
    BY <2>1, <2>2, <2>3
  <2> QED
    BY <1>1, <2>4 DEF Answer
<1>2. CASE ~Acquired(m)
  BY <1>2 DEF Answer
<1>3. CASE m.format = "elf"
  BY <1>3 DEF Answer
<1>4. CASE m.format = "pe"
  BY <1>4 DEF Answer
<1> QED
  BY <1>1, <1>2, <1>3, <1>4, ModulesAssumption

(* The last answer is the one the kept slice gives, and the slice that     *)
(* decided it is kept.                                                     *)
AnswerInv ==
  /\ SliceInv
  /\ imports # Unread =>
       /\ imports = Answer(module, thin_slice)
       /\ NeedsSlice(module) => thin_slice # Unread

LEMMA AnswerIs ==
  ASSUME SliceInv, Imports
  PROVE  /\ imports' = Answer(module, ThinSlice(module))
         /\ NeedsSlice(module) => thin_slice' = ThinSlice(module) /\ ThinSlice(module) # Unread
<1>1. imports' = Answer(module, ThinSlice(module))
  <2>1. ParseImports(module) =
          CASE module.format = "macho" -> MachO!parse_imports(module.image, ThinSlice(module))
            [] module.format = "elf" -> Elf!parse_imports(module.image)
            [] module.format = "pe" -> Pe!parse_imports(module.image)
    BY DEF ParseImports
  <2>2. imports' = IF Acquired(module) THEN ParseImports(module) ELSE Malformed
    BY DEF Imports
  <2>3. CASE module.format = "macho"
    BY <2>1, <2>2, <2>3 DEF Answer
  <2>4. CASE module.format = "elf"
    BY <2>1, <2>2, <2>4 DEF Answer
  <2>5. CASE module.format = "pe"
    BY <2>1, <2>2, <2>5 DEF Answer
  <2> QED
    BY <2>3, <2>4, <2>5, ModulesAssumption DEF SliceInv
<1>2. NeedsSlice(module) => thin_slice' = ThinSlice(module)
  BY DEF Imports
<1>3. NeedsSlice(module) => ThinSlice(module) # Unread
  BY SliceTyped DEF NeedsSlice, SliceInv, ThinSlice
<1> QED
  BY <1>1, <1>2, <1>3

LEMMA AnswerInvStep ==
  ASSUME AnswerInv, [Next]_vars
  PROVE  AnswerInv'
<1>1. SliceInv'
  BY SliceInvStep DEF AnswerInv
<1>2. CASE Imports
  <2>1. module' = module
    BY <1>2 DEF Imports
  <2>2. module \in Modules /\ SliceInv
    BY DEF AnswerInv, SliceInv
  <2>3. imports' = Answer(module, thin_slice')
    BY <1>2, <2>2, AnswerIs, SliceUnused
  <2>4. NeedsSlice(module) => thin_slice' # Unread
    BY <1>2, <2>2, AnswerIs
  <2>5. Answer(module, thin_slice)' = Answer(module, thin_slice') /\ NeedsSlice(module)' = NeedsSlice(module)
    BY <2>1 DEF Answer, NeedsSlice, Acquired
  <2> QED
    BY <1>1, <2>3, <2>4, <2>5 DEF AnswerInv
<1>3. CASE ReplaceFile \/ UNCHANGED vars
  <2>1. module' = module /\ imports' = imports /\ thin_slice' = thin_slice
    BY <1>3 DEF ReplaceFile, vars
  <2>2. Answer(module, thin_slice)' = Answer(module, thin_slice) /\ NeedsSlice(module)' = NeedsSlice(module)
    BY <2>1 DEF Answer, NeedsSlice, Acquired
  <2> QED
    BY <1>1, <2>1, <2>2 DEF AnswerInv
<1> QED
  BY <1>2, <1>3 DEF Next

(* A Module answers every call of imports() alike, though its file may be  *)
(* removed or replaced between two calls: the slice that decides the       *)
(* answer is read at most once (Module::thin_slice).                       *)
THEOREM ListingIsStable == Spec => StableListing
<1>1. Init => AnswerInv
  BY SliceInvInit DEF Init, AnswerInv
<1>2. AnswerInv /\ [Next]_vars => AnswerInv'
  BY AnswerInvStep
<1>3. AnswerInv /\ [Next]_vars => [imports # Unread => imports' = imports]_vars
  <2> SUFFICES ASSUME AnswerInv, [Next]_vars, imports # Unread PROVE imports' = imports
    OBVIOUS
  <2>1. CASE Imports
    <3>1. module \in Modules /\ SliceInv /\ imports = Answer(module, thin_slice)
      BY DEF AnswerInv, SliceInv
    <3>2. CASE NeedsSlice(module)
      <4>1. ThinSlice(module) = thin_slice
        BY <3>2 DEF AnswerInv, ThinSlice
      <4> QED
        BY <2>1, <3>1, <4>1, AnswerIs
    <3>3. CASE ~NeedsSlice(module)
      BY <2>1, <3>1, <3>3, AnswerIs, SliceUnused
    <3> QED
      BY <3>2, <3>3
  <2>2. CASE ReplaceFile \/ UNCHANGED vars
    BY <2>2 DEF ReplaceFile, vars
  <2> QED
    BY <2>1, <2>2 DEF Next
<1> QED
  BY <1>1, <1>2, <1>3, PTL DEF Spec, StableListing

-----------------------------------------------------------------------------
(* The primary table is kept.  First, what the load commands come to when  *)
(* the ones that point at a complement are left out.                       *)

(* The sequences that a loop has pushed, turn by turn. *)
Pushes(P, seqs, S) ==
  /\ P \in [0..Len(seqs) -> Seq(S)] /\ P[0] = <<>> /\ P[Len(seqs)] = FlattenSeq(seqs)
  /\ \A k \in 1..Len(seqs) : P[k] = P[k - 1] \o seqs[k]

LEMMA FlattenTrace ==
  ASSUME NEW S, NEW seqs, IsSequence(seqs), \A i \in DOMAIN seqs : seqs[i] \in Seq(S)
  PROVE  \E P : Pushes(P, seqs, S)
<1> DEFINE n == Len(seqs)
<1>1. n \in Nat /\ DOMAIN seqs = 1..n
  BY SequenceIs
<1>2. CASE n = 0
  <2> DEFINE P == [k \in 0..n |-> <<>>]
  <2>1. seqs = <<>>
    BY <1>2, SequenceIs
  <2>2. FlattenSeq(seqs) = <<>>
    BY <1>2, <2>1 DEF FlattenSeq
  <2>3. P \in [0..n -> Seq(S)] /\ P[0] = <<>> /\ P[n] = <<>> /\ \A k \in 1..n : FALSE
    BY <1>2
  <2> HIDE DEF P
  <2> QED
    BY <2>2, <2>3 DEF Pushes
<1>3. CASE n # 0
  <2>1. PICK f : Flattens(f, seqs, n) /\ FlattenSeq(seqs) = f[n]
    BY <1>3, FlattenIs
  <2> DEFINE P == [k \in 0..n |-> IF k = 0 THEN <<>> ELSE f[k]]
  <2>2. \A k \in 1..n : f[k] = IF k = 1 THEN seqs[k] ELSE f[k - 1] \o seqs[k]
    BY <2>1 DEF Flattens
  <2>3. P[0] = <<>> /\ P[n] = FlattenSeq(seqs)
    BY <1>1, <1>3, <2>1
  <2>4. \A k \in 1..n : P[k] = P[k - 1] \o seqs[k]
    <3> TAKE k \in 1..n
    <3>1. P[k] = f[k] /\ P[k - 1] = IF k = 1 THEN <<>> ELSE f[k - 1]
      BY <1>1
    <3>2. seqs[k] \in Seq(S)
      BY <1>1
    <3>3. <<>> \o seqs[k] = seqs[k]
      BY <3>2
    <3> HIDE DEF P
    <3> QED
      BY <2>2, <3>1, <3>3
  <2>5. DOMAIN P = 0..n /\ P = [k \in 0..n |-> P[k]]
    OBVIOUS
  <2> HIDE DEF P
  <2> DEFINE Bad == {k \in 0..n : P[k] \notin Seq(S)}
  <2>6. Bad = {}
    <3> SUFFICES ASSUME Bad # {} PROVE FALSE
      OBVIOUS
    <3>1. PICK k \in Bad : \A j \in Bad : k <= j
      <4>1. Bad \subseteq Nat
        BY <1>1
      <4> HIDE DEF Bad
      <4> QED
        BY <4>1, Least
    <3>2. k # 0
      <4>1. <<>> \in Seq(S)
        OBVIOUS
      <4>2. P[0] \in Seq(S)
        BY <2>3, <4>1
      <4> QED
        BY <4>2
    <3>3. k \in 1..n /\ k - 1 \in 0..n /\ k - 1 \notin Bad
      BY <1>1, <3>1, <3>2
    <3>4. P[k - 1] \in Seq(S) /\ seqs[k] \in Seq(S)
      BY <1>1, <3>3
    <3>5. P[k - 1] \o seqs[k] \in Seq(S)
      BY <3>4
    <3>6. P[k] \in Seq(S)
      BY <2>4, <3>3, <3>5
    <3> QED
      BY <3>6
  <2>7. P \in [0..n -> Seq(S)]
    BY <2>5, <2>6
  <2> QED
    BY <2>3, <2>4, <2>7 DEF Pushes
<1> QED
  BY <1>2, <1>3

(* s is the beginning of t. *)
Begins(s, t) == Len(s) <= Len(t) /\ \A j \in 1..Len(s) : t[j] = s[j]

LEMMA BeginsAppend ==
  ASSUME NEW S, NEW s \in Seq(S), NEW t \in Seq(S), NEW u \in Seq(S), Begins(s, t)
  PROVE  Begins(s, t \o u)
<1>1. Len(t \o u) = Len(t) + Len(u) /\ Len(s) \in Nat /\ Len(t) \in Nat /\ Len(u) \in Nat
  OBVIOUS
<1>2. \A j \in 1..Len(t) : (t \o u)[j] = t[j]
  OBVIOUS
<1>3. \A j \in 1..Len(s) : j \in 1..Len(t)
  BY <1>1 DEF Begins
<1> QED
  BY <1>1, <1>2, <1>3 DEF Begins

LEMMA PushesBegin ==
  ASSUME NEW S, NEW seqs, IsSequence(seqs), \A i \in DOMAIN seqs : seqs[i] \in Seq(S),
         NEW P, Pushes(P, seqs, S), NEW k \in 0..Len(seqs)
  PROVE  Begins(P[k], FlattenSeq(seqs))
<1> DEFINE n == Len(seqs)
           Bad == {m \in k..n : ~ Begins(P[k], P[m])}
<1>1. n \in Nat /\ DOMAIN seqs = 1..n
  BY SequenceIs
<1>2. Bad = {}
  <2> SUFFICES ASSUME Bad # {} PROVE FALSE
    OBVIOUS
  <2>1. PICK m \in Bad : \A j \in Bad : m <= j
    <3>1. Bad \subseteq Nat
      BY <1>1
    <3> HIDE DEF Bad
    <3> QED
      BY <3>1, Least
  <2>2. Begins(P[k], P[k])
    BY DEF Begins, Pushes
  <2>3. m # k
    BY <2>2
  <2>4. m \in 1..n /\ m - 1 \in k..n /\ m - 1 \notin Bad /\ m - 1 \in 0..n
    BY <1>1, <2>1, <2>3
  <2>5. P[m] = P[m - 1] \o seqs[m] /\ P[k] \in Seq(S) /\ P[m - 1] \in Seq(S) /\ seqs[m] \in Seq(S)
    BY <1>1, <2>4 DEF Pushes
  <2>6. Begins(P[k], P[m - 1])
    BY <2>4
  <2>7. Begins(P[k], P[m])
    BY <2>5, <2>6, BeginsAppend
  <2> QED
    BY <2>7
<1> QED
  BY <1>1, <1>2 DEF Pushes

(* h is g without the complements. *)
Primary(h, g) ==
  g # Malformed =>
    /\ h # Malformed /\ h.cursor <= g.cursor
    /\ h.segments = g.segments /\ h.pointer_sections = g.pointer_sections
    /\ h.symtab = g.symtab /\ h.indirect = g.indirect /\ h.dylibs = g.dylibs
    /\ h.binds = <<>> /\ h.chained = None

Refining == {"LC_DYLD_INFO", "LC_DYLD_CHAINED_FIXUPS"}

LEMMA PrimaryCommand ==
  ASSUME NEW h \in MachInfo, NEW g \in MachInfo, Primary(h, g), g # Malformed, h # Malformed,
         NEW c, MachO!TypedCommand(c), c.cmd \notin Refining,
         NEW hh, hh = MachO!parse_one_command(h, c), NEW gg, gg = MachO!parse_one_command(g, c)
  PROVE  /\ hh.cursor = h.cursor /\ gg.cursor = g.cursor
         /\ hh.segments = gg.segments /\ hh.pointer_sections = gg.pointer_sections
         /\ hh.symtab = gg.symtab /\ hh.indirect = gg.indirect /\ hh.dylibs = gg.dylibs
         /\ hh.binds = <<>> /\ hh.chained = None
<1>1. CASE c.cmd = "LC_SEGMENT_64"
  <2>1. hh = MachO!read_segment(h, c) /\ gg = MachO!read_segment(g, c)
    BY <1>1 DEF MachO!parse_one_command
  <2> QED
    BY <2>1 DEF MachO!read_segment, MachInfo, Primary
<1>2. CASE c.cmd = "LC_SYMTAB"
  <2>1. hh = [h EXCEPT !.symtab = c.symbols] /\ gg = [g EXCEPT !.symtab = c.symbols]
    BY <1>2 DEF MachO!parse_one_command
  <2> QED
    BY <2>1 DEF MachInfo, Primary
<1>3. CASE c.cmd = "LC_DYSYMTAB"
  <2>1. hh = [h EXCEPT !.indirect = c.indirect] /\ gg = [g EXCEPT !.indirect = c.indirect]
    BY <1>3 DEF MachO!parse_one_command
  <2> QED
    BY <2>1 DEF MachInfo, Primary
<1>4. CASE c.cmd = "LC_LOAD_DYLIB"
  <2>1. hh = [h EXCEPT !.dylibs = Append(@, c.name)] /\ gg = [g EXCEPT !.dylibs = Append(@, c.name)]
    BY <1>4 DEF MachO!parse_one_command
  <2> QED
    BY <2>1 DEF MachInfo, Primary
<1>5. CASE c.cmd \notin {"LC_SEGMENT_64", "LC_SYMTAB", "LC_DYSYMTAB", "LC_DYLD_INFO",
                         "LC_DYLD_CHAINED_FIXUPS", "LC_LOAD_DYLIB"}
  <2>1. hh = h /\ gg = g
    BY <1>5 DEF MachO!parse_one_command
  <2> QED
    BY <2>1 DEF Primary
<1> QED
  BY <1>1, <1>2, <1>3, <1>4, <1>5 DEF Refining

(* An Err is not the value of an Ok: TLC has it so of a model value. *)
ErrIsNoOk == ~IsSequence(Malformed) /\ Malformed \notin MachInfo

(* A command of the primary table keeps the two in step; one that points   *)
(* at a complement changes nothing that the primary table needs.           *)
LEMMA PrimaryStep ==
  ASSUME ErrIsNoOk, NEW image, NEW bare, image.sizeofcmds \in Nat, bare.sizeofcmds = image.sizeofcmds,
         NEW h \in {Malformed} \cup MachInfo, NEW g \in {Malformed} \cup MachInfo, Primary(h, g),
         NEW c, MachO!TypedCommand(c)
  PROVE  /\ c.cmd \notin Refining =>
              Primary(MachO!LoadCommand(bare, h, c), MachO!LoadCommand(image, g, c))
         /\ c.cmd \in Refining => Primary(h, MachO!LoadCommand(image, g, c))
<1> DEFINE gg == MachO!parse_one_command(g, c)
           hh == MachO!parse_one_command(h, c)
           next == MachO!LoadCommand(image, g, c)
<1> SUFFICES ASSUME next # Malformed
             PROVE  /\ c.cmd \notin Refining => Primary(MachO!LoadCommand(bare, h, c), next)
                    /\ c.cmd \in Refining => Primary(h, next)
  BY DEF Primary
<1>1. /\ g # Malformed /\ ~ (c.cmdsize < 8) /\ ~ (c.cmdsize % 8 # 0)
      /\ ~ (g.cursor + c.cmdsize > 32 + image.sizeofcmds) /\ ~ (c.cmdsize < MachO!LeastSize(c))
      /\ next = [gg EXCEPT !.cursor = @ + c.cmdsize]
  BY DEF MachO!LoadCommand
<1>2. h # Malformed /\ h \in MachInfo /\ g \in MachInfo
  BY <1>1 DEF Primary
<1>3. /\ h.cursor \in Int /\ g.cursor \in Int /\ c.cmdsize \in Nat /\ h.cursor <= g.cursor
      /\ gg \in MachInfo /\ hh \in MachInfo
  BY <1>1, <1>2, CommandIn DEF MachInfo, MachO!TypedCommand, Primary
<1>4. MachO!LoadCommand(bare, h, c) = [hh EXCEPT !.cursor = @ + c.cmdsize]
  <2>1. PICK a \in Int, b \in Int, z \in Nat, l \in Nat :
          a = h.cursor /\ b = g.cursor /\ z = c.cmdsize /\ l = image.sizeofcmds
    BY <1>3
  <2>2. ~ (a + z > 32 + l)
    BY <1>1, <1>3, <2>1
  <2>3. ~ (h.cursor + c.cmdsize > 32 + bare.sizeofcmds)
    BY <2>1, <2>2
  <2> HIDE DEF hh
  <2> QED
    BY <1>1, <1>2, <2>3 DEF MachO!LoadCommand, hh
<1> HIDE DEF next
<1>5. CASE c.cmd \notin Refining
  <2>1. /\ hh.cursor = h.cursor /\ gg.cursor = g.cursor
        /\ hh.segments = gg.segments /\ hh.pointer_sections = gg.pointer_sections
        /\ hh.symtab = gg.symtab /\ hh.indirect = gg.indirect /\ hh.dylibs = gg.dylibs
        /\ hh.binds = <<>> /\ hh.chained = None
    BY <1>1, <1>2, <1>5, PrimaryCommand
  <2> HIDE DEF hh, gg
  <2> DEFINE left == [hh EXCEPT !.cursor = @ + c.cmdsize]
  <2>2. left.cursor = h.cursor + c.cmdsize /\ next.cursor = g.cursor + c.cmdsize
    BY <1>1, <1>3, <2>1 DEF MachInfo
  <2>3. /\ left.segments = next.segments /\ left.pointer_sections = next.pointer_sections
        /\ left.symtab = next.symtab /\ left.indirect = next.indirect /\ left.dylibs = next.dylibs
        /\ left.binds = <<>> /\ left.chained = None
    BY <1>1, <1>3, <2>1 DEF MachInfo
  <2>4. left.cursor <= next.cursor
    BY <1>3, <2>2
  <2>5. left # Malformed
    <3>1. PICK cursor \in Int : cursor = hh.cursor + c.cmdsize
      BY <1>3, <2>1
    <3>2. [hh EXCEPT !.cursor = cursor] \in MachInfo
      BY <1>3 DEF MachInfo
    <3> QED
      BY <3>1, <3>2 DEF ErrIsNoOk
  <2> HIDE DEF left
  <2> QED
    BY <1>4, <1>5, <2>3, <2>4, <2>5 DEF Primary, left
<1>6. CASE c.cmd \in Refining
  <2>1. gg = [g EXCEPT !.binds = @ \o Streams(c)] \/ gg = [g EXCEPT !.chained = c.fixups]
    BY <1>6 DEF MachO!parse_one_command, Refining, Streams
  <2>2. /\ gg.cursor = g.cursor
        /\ g.segments = gg.segments /\ g.pointer_sections = gg.pointer_sections
        /\ g.symtab = gg.symtab /\ g.indirect = gg.indirect /\ g.dylibs = gg.dylibs
    BY <1>2, <2>1 DEF MachInfo
  <2> HIDE DEF gg, hh
  <2>3. /\ next.cursor = g.cursor + c.cmdsize
        /\ g.segments = next.segments /\ g.pointer_sections = next.pointer_sections
        /\ g.symtab = next.symtab /\ g.indirect = next.indirect /\ g.dylibs = next.dylibs
    BY <1>1, <1>3, <2>2 DEF MachInfo
  <2>4. h.cursor <= next.cursor
    BY <1>3, <2>3
  <2> QED
    BY <1>1, <1>2, <1>6, <2>3, <2>4 DEF Primary
<1> QED
  BY <1>5, <1>6

(* The image without the commands that point at a complement. *)
KeptCommands(image) == Filter(image.cmds, LAMBDA c : c.cmd \notin Refining)

LEMMA PrimaryLoads ==
  ASSUME ErrIsNoOk, NEW image, MachO!TypedImage(image), image.magic,
         NEW bare, bare.sizeofcmds = image.sizeofcmds, bare.magic = image.magic,
         bare.cmds = KeptCommands(image)
  PROVE  Primary(MachO!read_load_commands(bare), MachO!read_load_commands(image))
<1> DEFINE cmds == image.cmds
           kept == bare.cmds
           turns == [i \in 1..Len(cmds) |-> IF cmds[i].cmd \notin Refining THEN <<cmds[i]>> ELSE <<>>]
           A == {Malformed} \cup MachInfo
           S == ToSet(cmds)
           n == Len(cmds)
<1>1. /\ MachO!read_load_commands(image) = LoadLoop(image, MachO!LoadInfo, cmds)
      /\ MachO!read_load_commands(bare) = LoadLoop(bare, MachO!LoadInfo, kept)
  BY DEF MachO!read_load_commands, LoadLoop
<1>2. IsSequence(cmds) /\ \A i \in DOMAIN cmds : MachO!TypedCommand(cmds[i])
  BY DEF MachO!TypedImage, MachO!IsSequence, IsSequence, MachO!ToSet, ToSet
<1>3. n \in Nat /\ DOMAIN cmds = 1..n /\ cmds \in Seq(S)
  BY <1>2, SequenceIs
<1>4. kept = FlattenSeq(turns)
  BY DEF KeptCommands, Filter
<1>5. MachO!LoadInfo \in A
  <2>1. /\ <<>> \in Seq(MachSegment) /\ <<>> \in Seq(MachO!Section)
        /\ <<>> \in Seq(Seq(MachO!Opcode)) /\ <<>> \in Seq(STRING)
    OBVIOUS
  <2> QED
    BY <2>1 DEF MachO!LoadInfo, MachInfo
<1>6. \A c \in S : MachO!TypedCommand(c)
  BY <1>2 DEF ToSet
<1> HIDE DEF cmds, kept
<1>7. turns = [i \in 1..n |-> turns[i]] /\ Len(turns) = n /\ IsSequence(turns)
      /\ \A i \in DOMAIN turns : turns[i] \in Seq(S)
  <2>1. \A i \in 1..n : cmds[i] \in S
    BY <1>3
  <2>2. \A i \in 1..n : turns[i] \in Seq(S)
    <3> TAKE i \in 1..n
    <3>1. PICK x \in S : x = cmds[i]
      BY <2>1
    <3>2. turns[i] = <<>> \/ turns[i] = <<x>>
      BY <3>1
    <3>3. <<>> \in Seq(S) /\ <<x>> \in Seq(S)
      OBVIOUS
    <3> QED
      BY <3>2, <3>3
  <2>3. turns = [i \in 1..n |-> turns[i]] /\ DOMAIN turns = 1..n
    OBVIOUS
  <2> HIDE DEF turns
  <2>4. turns \in [1..n -> Seq(S)]
    BY <2>2, <2>3
  <2>5. turns \in Seq(Seq(S)) /\ Len(turns) = n
    BY <1>3, <2>4
  <2>6. IsSequence(turns)
    BY <2>5, SequenceOf
  <2> QED
    BY <2>2, <2>3, <2>5, <2>6
<1>8. \A i \in 1..n : turns[i] = IF cmds[i].cmd \notin Refining THEN <<cmds[i]>> ELSE <<>>
  BY <1>3
<1> HIDE DEF turns
<1>9. PICK P : Pushes(P, turns, S)
  BY <1>7, FlattenTrace
<1>10. /\ P \in [0..n -> Seq(S)] /\ P[0] = <<>> /\ P[n] = kept
       /\ \A k \in 1..n : P[k] = P[k - 1] \o turns[k]
  BY <1>4, <1>7, <1>9 DEF Pushes
<1>11. \A k \in 0..n : Begins(P[k], kept)
  BY <1>4, <1>7, <1>9, PushesBegin
<1>12. kept \in Seq(S) /\ IsSequence(kept)
  BY <1>3, <1>10, SequenceOf
<1>13. PICK G : LoadLoopTrace(image, G, A, MachO!LoadInfo, cmds) /\ G[n] = LoadLoop(image, MachO!LoadInfo, cmds)
  <2>1. LoadLoopKeeps(image, A, cmds)
    BY <1>2, LoadCommandIn DEF LoadLoopKeeps, cmds
  <2> HIDE DEF A
  <2> QED
    BY <1>2, <1>5, <2>1, LoadFold DEF cmds
<1>14. PICK H : /\ LoadLoopTrace(bare, H, A, MachO!LoadInfo, kept)
                /\ H[Len(kept)] = LoadLoop(bare, MachO!LoadInfo, kept)
  <2>1. LoadLoopKeeps(bare, A, kept)
    <3> SUFFICES ASSUME NEW a \in A, NEW i \in DOMAIN kept
                 PROVE  MachO!LoadCommand(bare, a, kept[i]) \in A
      BY DEF LoadLoopKeeps
    <3>1. kept[i] \in S
      BY <1>12
    <3> QED
      BY <1>6, <3>1, LoadCommandIn
  <2> HIDE DEF A
  <2> QED
    BY <1>5, <1>12, <2>1, LoadFold
<1> DEFINE Bad == {k \in 0..n : ~ Primary(H[Len(P[k])], G[k])}
<1>15. Bad = {}
  <2> SUFFICES ASSUME Bad # {} PROVE FALSE
    OBVIOUS
  <2>1. PICK k \in Bad : \A j \in Bad : k <= j
    <3>1. Bad \subseteq Nat
      BY <1>3
    <3> HIDE DEF Bad
    <3> QED
      BY <3>1, Least
  <2>2. k # 0
    <3>1. Len(P[0]) = 0 /\ H[0] = MachO!LoadInfo /\ G[0] = MachO!LoadInfo
      BY <1>10, <1>13, <1>14 DEF LoadLoopTrace
    <3>2. Primary(MachO!LoadInfo, MachO!LoadInfo)
      BY DEF Primary, MachO!LoadInfo
    <3>3. Primary(H[Len(P[0])], G[0])
      BY <3>1, <3>2
    <3> QED
      BY <3>3
  <2>3. k \in 1..n /\ k - 1 \in 0..n /\ k - 1 \notin Bad /\ k \in 0..n
    BY <1>3, <2>1, <2>2
  <2> DEFINE a == Len(P[k - 1])
             h == H[a]
             g == G[k - 1]
             c == cmds[k]
  <2>4. Primary(h, g)
    BY <2>3
  <2>5. G[k] = MachO!LoadCommand(image, g, c) /\ g \in A
    BY <1>3, <1>13, <2>3 DEF LoadLoopTrace
  <2>6. MachO!TypedCommand(c)
    BY <1>3, <1>6, <2>3
  <2>7. P[k - 1] \in Seq(S) /\ P[k] \in Seq(S) /\ a \in Nat /\ Len(P[k]) \in Nat /\ Len(kept) \in Nat
    BY <1>10, <1>12, <2>3
  <2>8. a <= Len(kept) /\ Len(P[k]) <= Len(kept)
    BY <1>11, <2>3 DEF Begins
  <2>9. h \in A
    BY <1>14, <2>7, <2>8 DEF LoadLoopTrace
  <2> HIDE DEF h, g, c, Bad
  <2>10. /\ c.cmd \notin Refining =>
              Primary(MachO!LoadCommand(bare, h, c), MachO!LoadCommand(image, g, c))
         /\ c.cmd \in Refining => Primary(h, MachO!LoadCommand(image, g, c))
    BY <2>4, <2>5, <2>6, <2>9, PrimaryStep DEF MachO!TypedImage
  <2>11. CASE c.cmd \notin Refining
    <3>1. P[k] = P[k - 1] \o <<c>>
      BY <1>8, <1>10, <2>3, <2>11 DEF c
    <3>2. Len(P[k]) = a + 1 /\ P[k][a + 1] = c
      BY <2>7, <3>1
    <3>3. kept[a + 1] = c
      <4>1. a + 1 \in 1..Len(P[k])
        BY <2>7, <3>2
      <4> QED
        BY <1>11, <2>3, <3>2, <4>1 DEF Begins
    <3>4. a + 1 \in 1..Len(kept) /\ (a + 1) - 1 = a
      BY <2>7, <2>8, <3>2
    <3>5. H[a + 1] = MachO!LoadCommand(bare, h, c)
      BY <1>14, <3>3, <3>4 DEF LoadLoopTrace, h
    <3>6. Primary(H[Len(P[k])], G[k])
      BY <2>5, <2>10, <2>11, <3>2, <3>5
    <3> QED
      BY <2>1, <3>6 DEF Bad
  <2>12. CASE c.cmd \in Refining
    <3>1. P[k] = P[k - 1] \o <<>>
      BY <1>8, <1>10, <2>3, <2>12 DEF c
    <3>2. P[k] = P[k - 1]
      BY <2>7, <3>1
    <3>3. Primary(H[Len(P[k])], G[k])
      BY <2>5, <2>10, <2>12, <3>2 DEF h
    <3> QED
      BY <2>1, <3>3 DEF Bad
  <2> QED
    BY <2>11, <2>12
<1>16. Primary(H[Len(P[n])], G[n])
  BY <1>3, <1>15
<1> QED
  BY <1>1, <1>10, <1>13, <1>14, <1>16

(* The indirect table of the two is the same. *)
Alike(bare, h, image, g) ==
  /\ bare.slide = image.slide /\ bare.cpu = image.cpu /\ bare.sub = image.sub
  /\ h.segments = g.segments /\ h.pointer_sections = g.pointer_sections
  /\ h.symtab = g.symtab /\ h.indirect = g.indirect /\ h.dylibs = g.dylibs

LEMMA PushAlike ==
  ASSUME NEW bare, NEW h, NEW image, NEW g, Alike(bare, h, image, g),
         NEW name, NEW ordinal, NEW off, NEW authenticated
  PROVE  MachO!Push(bare, h, name, ordinal, off, authenticated) =
           MachO!Push(image, g, name, ordinal, off, authenticated)
<1>1. MachO!slot_address(bare, h, off) = MachO!slot_address(image, g, off)
  BY DEF MachO!slot_address, MachO!Try, Alike
<1>2. MachO!library_of(ordinal, h.dylibs) = MachO!library_of(ordinal, g.dylibs)
  BY DEF Alike
<1> QED
  BY <1>1, <1>2 DEF MachO!Push, MachO!PushAt, MachO!RawImport

LEMMA SlotAlike ==
  ASSUME NEW bare, NEW h, NEW image, NEW g, Alike(bare, h, image, g), NEW section, NEW i
  PROVE  MachO!IndirectSlot(bare, h, section, i) = MachO!IndirectSlot(image, g, section, i)
<1>1. MachO!is_arm64e(bare) = MachO!is_arm64e(image)
  BY DEF MachO!is_arm64e, Alike
<1>2. ASSUME NEW symbol, NEW off
      PROVE  MachO!SymbolSlot(bare, h, symbol, off) = MachO!SymbolSlot(image, g, symbol, off)
  <2> DEFINE name == MachO!normalize_symbol_name(symbol.name)
  <2>1. MachO!Push(bare, h, name, symbol.ordinal, off, MachO!is_arm64e(bare)) =
          MachO!Push(image, g, name, symbol.ordinal, off, MachO!is_arm64e(image))
    BY <1>1, PushAlike
  <2> QED
    BY <2>1 DEF MachO!SymbolSlot, MachO!Try
<1> QED
  BY <1>2 DEF MachO!IndirectSlot, Alike

LEMMA IndirectAlike ==
  ASSUME NEW bare, NEW h, NEW image, NEW g, Alike(bare, h, image, g)
  PROVE  MachO!parse_indirect(bare, h) = MachO!parse_indirect(image, g)
<1> DEFINE Of(k) == g.pointer_sections[k]
           Slots(k) == [i \in 1..(Of(k).size \div 8) |-> MachO!IndirectSlot(image, g, Of(k), i - 1)]
           Without(k) == [i \in 1..(Of(k).size \div 8) |-> MachO!IndirectSlot(bare, h, Of(k), i - 1)]
<1>1. \A k : Without(k) = Slots(k)
  BY SlotAlike
<1>2. MachO!parse_indirect(image, g) =
        IF g.symtab = None \/ g.indirect = None THEN <<>>
        ELSE MachO!AllOf([k \in 1..Len(g.pointer_sections) |-> MachO!AllOf(Slots(k))])
  BY DEF MachO!parse_indirect, MachO!Collect, MachO!PTR_SIZE
<1>3. MachO!parse_indirect(bare, h) =
        IF g.symtab = None \/ g.indirect = None THEN <<>>
        ELSE MachO!AllOf([k \in 1..Len(g.pointer_sections) |-> MachO!AllOf(Without(k))])
  BY DEF MachO!parse_indirect, MachO!Collect, MachO!PTR_SIZE, Alike
<1> HIDE DEF Slots, Without
<1>4. [k \in 1..Len(g.pointer_sections) |-> MachO!AllOf(Slots(k))] =
        [k \in 1..Len(g.pointer_sections) |-> MachO!AllOf(Without(k))]
  BY <1>1
<1> QED
  BY <1>2, <1>3, <1>4

(* Two listings that differ in the authentication of their imports, and by *)
(* what the longer one adds at the end.                                    *)
SameLink(r, q) == r.slot = q.slot /\ r.symbol = q.symbol /\ r.library = q.library

Extends(s, t) == Len(s) <= Len(t) /\ \A i \in 1..Len(s) : SameLink(s[i], t[i])

LEMMA ExtendsSelf ==
  ASSUME NEW R, NEW s \in Seq(R)
  PROVE  Extends(s, s)
BY DEF Extends, SameLink

LEMMA MergeOneExtends ==
  ASSUME NEW slide, NEW segments, NEW primary \in Seq(MachImport(slide, segments)),
         NEW out \in Seq(MachImport(slide, segments)), Extends(primary, out),
         NEW import \in MachImport(slide, segments)
  PROVE  Extends(primary, MachO!MergeOne(out, import))
<1> DEFINE I == {i \in 1..Len(out) : out[i].slot = import.slot}
           at == IF I # {} THEN Min(I) ELSE 0
           new == [out[at] EXCEPT !.authenticated = import.authenticated]
           next == MachO!MergeOne(out, import)
<1>1. next = IF at = 0 THEN Append(out, import) ELSE [out EXCEPT ![at] = new]
  BY DEF MachO!MergeOne, MachO!SelectInSeq, MachO!Min, Min
<1>2. at # 0 => at \in 1..Len(out)
  <2>1. Len(out) \in Nat /\ I \in SUBSET (1..Len(out))
    OBVIOUS
  <2> HIDE DEF I
  <2> QED
    BY <2>1, FirstIndex
<1> HIDE DEF at, next
<1>3. Len(primary) \in Nat /\ Len(out) \in Nat
  OBVIOUS
<1>4. CASE at = 0
  <2>1. Len(next) = Len(out) + 1 /\ \A i \in 1..Len(out) : next[i] = out[i]
    BY <1>1, <1>4
  <2>2. \A i \in 1..Len(primary) : i \in 1..Len(out)
    BY <1>3 DEF Extends
  <2> QED
    BY <1>3, <2>1, <2>2 DEF Extends, next
<1>5. CASE at # 0
  <2>1. PICK r \in MachImport(slide, segments) : r = out[at]
    BY <1>2, <1>5
  <2>2. SameLink(r, new)
    BY <2>1 DEF MachImport, SameLink
  <2> HIDE DEF new
  <2>3. Len(next) = Len(out) /\ \A i \in 1..Len(out) : next[i] = IF i = at THEN new ELSE out[i]
    BY <1>1, <1>2, <1>5
  <2>4. ASSUME NEW i \in 1..Len(primary) PROVE SameLink(primary[i], next[i])
    <3>1. i \in 1..Len(out) /\ SameLink(primary[i], out[i])
      BY <1>3 DEF Extends
    <3> QED
      BY <2>1, <2>2, <2>3, <3>1 DEF SameLink
  <2> QED
    BY <2>3, <2>4 DEF Extends, next
<1> QED
  BY <1>4, <1>5

LEMMA MergeExtends ==
  ASSUME NEW slide, NEW segments, NEW primary \in Seq(MachImport(slide, segments)),
         NEW complement \in Seq(MachImport(slide, segments))
  PROVE  Extends(primary, MachO!merge_complement(primary, complement))
<1> DEFINE R == MachImport(slide, segments)
           A == {s \in Seq(R) : Extends(primary, s)}
<1>1. MachO!merge_complement(primary, complement) = MergeLoop(primary, complement)
  BY DEF MachO!merge_complement, MergeLoop
<1>2. IsSequence(complement)
  BY SequenceOf
<1>3. MergeLoopKeeps(A, complement)
  <2> SUFFICES ASSUME NEW a \in A, NEW i \in DOMAIN complement
               PROVE  MachO!MergeOne(a, complement[i]) \in A
    BY DEF MergeLoopKeeps
  <2>1. complement[i] \in R
    OBVIOUS
  <2> QED
    BY <2>1, MergeOneIn, MergeOneExtends
<1>4. primary \in A
  BY ExtendsSelf
<1> HIDE DEF A
<1>5. MergeLoop(primary, complement) \in A
  BY <1>2, <1>3, <1>4, MergeFold
<1> QED
  BY <1>1, <1>5 DEF A

(* One more import, to two listings of the same links. *)
LEMMA KeepFirstAlike ==
  ASSUME NEW R, NEW s \in Seq(R), NEW t \in Seq(R), Extends(s, t), Len(s) = Len(t),
         NEW p \in R, NEW q \in R, SameLink(p, q)
  PROVE  /\ Extends(MachO!KeepFirst(s, p), MachO!KeepFirst(t, q))
         /\ Len(MachO!KeepFirst(s, p)) = Len(MachO!KeepFirst(t, q))
<1>1. Len(s) \in Nat /\ DOMAIN s = 1..Len(s) /\ DOMAIN t = 1..Len(s)
  OBVIOUS
<1>2. (\E i \in DOMAIN s : s[i].slot = p.slot) <=> (\E i \in DOMAIN t : t[i].slot = q.slot)
  BY <1>1 DEF Extends, SameLink
<1>3. CASE \E i \in DOMAIN s : s[i].slot = p.slot
  BY <1>2, <1>3 DEF MachO!KeepFirst
<1>4. CASE ~ \E i \in DOMAIN s : s[i].slot = p.slot
  <2> DEFINE ss == Append(s, p)
             tt == Append(t, q)
  <2>1. MachO!KeepFirst(s, p) = ss /\ MachO!KeepFirst(t, q) = tt
    BY <1>2, <1>4 DEF MachO!KeepFirst
  <2>2. /\ Len(ss) = Len(s) + 1 /\ Len(tt) = Len(s) + 1
        /\ ss[Len(s) + 1] = p /\ tt[Len(s) + 1] = q
        /\ \A i \in 1..Len(s) : ss[i] = s[i] /\ tt[i] = t[i]
    BY <1>1
  <2> HIDE DEF ss, tt
  <2>3. ASSUME NEW i \in 1..(Len(s) + 1) PROVE SameLink(ss[i], tt[i])
    <3>1. i \in 1..Len(s) \/ i = Len(s) + 1
      BY <1>1
    <3> QED
      BY <2>2, <3>1 DEF Extends
  <2>4. Extends(ss, tt)
    BY <1>1, <2>2, <2>3 DEF Extends
  <2> QED
    BY <2>1, <2>2, <2>4
<1> QED
  BY <1>3, <1>4

LEMMA KeepFirstLonger ==
  ASSUME NEW R, NEW s \in Seq(R), NEW t \in Seq(R), Extends(s, t), NEW q \in R
  PROVE  Extends(s, MachO!KeepFirst(t, q))
<1>1. CASE \E i \in DOMAIN t : t[i].slot = q.slot
  BY <1>1 DEF MachO!KeepFirst
<1>2. CASE ~ \E i \in DOMAIN t : t[i].slot = q.slot
  <2> DEFINE tt == Append(t, q)
  <2>1. MachO!KeepFirst(t, q) = tt
    BY <1>2 DEF MachO!KeepFirst
  <2>2. Len(s) \in Nat /\ Len(t) \in Nat /\ Len(tt) = Len(t) + 1 /\ \A i \in 1..Len(t) : tt[i] = t[i]
    OBVIOUS
  <2> HIDE DEF tt
  <2>3. \A i \in 1..Len(s) : i \in 1..Len(t)
    BY <2>2 DEF Extends
  <2>4. Extends(s, tt)
    BY <2>2, <2>3 DEF Extends
  <2> QED
    BY <2>1, <2>4
<1> QED
  BY <1>1, <1>2

LEMMA KeepFirstTyped ==
  ASSUME NEW R, NEW seq \in Seq(R)
  PROVE  IsSequence(seq) /\ KeepFirstLoopKeeps(Seq(R), seq)
<1>1. IsSequence(seq)
  BY SequenceOf
<1>2. ASSUME NEW a \in Seq(R), NEW i \in DOMAIN seq PROVE MachO!KeepFirst(a, seq[i]) \in Seq(R)
  <2>1. seq[i] \in R
    OBVIOUS
  <2>2. Append(a, seq[i]) \in Seq(R)
    BY <2>1
  <2> QED
    BY <2>2 DEF MachO!KeepFirst
<1> QED
  BY <1>1, <1>2 DEF KeepFirstLoopKeeps

(* Leaving out duplicates keeps what the shorter listing begins with. *)
LEMMA FirstsExtend ==
  ASSUME NEW R, NEW s \in Seq(R), NEW t \in Seq(R), Extends(s, t)
  PROVE  Extends(KeepFirstLoop(<<>>, s), KeepFirstLoop(<<>>, t))
<1> DEFINE A == Seq(R)
           n == Len(s)
           m == Len(t)
<1>1. <<>> \in A /\ n \in Nat /\ m \in Nat /\ n <= m
  BY DEF Extends
<1> HIDE DEF A
<1>2. PICK F : KeepFirstLoopTrace(F, A, <<>>, s) /\ F[n] = KeepFirstLoop(<<>>, s)
  BY <1>1, KeepFirstTyped, KeepFirstFold DEF A
<1>3. PICK G : KeepFirstLoopTrace(G, A, <<>>, t) /\ G[m] = KeepFirstLoop(<<>>, t)
  BY <1>1, KeepFirstTyped, KeepFirstFold DEF A
<1>4. /\ F[0] = <<>> /\ G[0] = <<>>
      /\ \A k \in 0..n : F[k] \in Seq(R)
      /\ \A k \in 0..m : G[k] \in Seq(R)
      /\ \A k \in 1..n : F[k] = MachO!KeepFirst(F[k - 1], s[k])
      /\ \A k \in 1..m : G[k] = MachO!KeepFirst(G[k - 1], t[k])
  BY <1>2, <1>3 DEF KeepFirstLoopTrace, A
<1> DEFINE Bad == {k \in 0..n : ~ (Extends(F[k], G[k]) /\ Len(F[k]) = Len(G[k]))}
           Worse == {k \in n..m : ~ Extends(F[n], G[k])}
<1>5. Bad = {}
  <2> SUFFICES ASSUME Bad # {} PROVE FALSE
    OBVIOUS
  <2>1. PICK k \in Bad : \A j \in Bad : k <= j
    <3>1. Bad \subseteq Nat
      BY <1>1
    <3> HIDE DEF Bad
    <3> QED
      BY <3>1, Least
  <2>2. k # 0
    BY <1>4 DEF Extends
  <2>3. k \in 1..n /\ k \in 1..m /\ k - 1 \in 0..n /\ k - 1 \in 0..m /\ k - 1 \notin Bad
    BY <1>1, <2>1, <2>2
  <2>4. /\ F[k - 1] \in Seq(R) /\ G[k - 1] \in Seq(R)
        /\ Extends(F[k - 1], G[k - 1]) /\ Len(F[k - 1]) = Len(G[k - 1])
    BY <1>4, <2>3
  <2>5. s[k] \in R /\ t[k] \in R /\ SameLink(s[k], t[k])
    BY <2>3 DEF Extends
  <2>6. F[k] = MachO!KeepFirst(F[k - 1], s[k]) /\ G[k] = MachO!KeepFirst(G[k - 1], t[k])
    BY <1>4, <2>3
  <2> HIDE DEF Bad
  <2>7. Extends(F[k], G[k]) /\ Len(F[k]) = Len(G[k])
    BY <2>4, <2>5, <2>6, KeepFirstAlike, SMTT(30)
  <2> QED
    BY <2>1, <2>7 DEF Bad
<1>6. Worse = {}
  <2> SUFFICES ASSUME Worse # {} PROVE FALSE
    OBVIOUS
  <2>1. PICK k \in Worse : \A j \in Worse : k <= j
    <3>1. Worse \subseteq Nat
      BY <1>1
    <3> HIDE DEF Worse, Bad
    <3> QED
      BY <3>1, Least
  <2>2. k # n
    BY <1>1, <1>5
  <2>3. k \in 1..m /\ k - 1 \in n..m /\ k - 1 \in 0..m /\ k - 1 \notin Worse /\ n \in 0..n
    BY <1>1, <2>1, <2>2
  <2>4. F[n] \in Seq(R) /\ G[k - 1] \in Seq(R) /\ Extends(F[n], G[k - 1]) /\ t[k] \in R
    BY <1>4, <2>3
  <2>5. G[k] = MachO!KeepFirst(G[k - 1], t[k])
    BY <1>4, <2>3
  <2> HIDE DEF Worse, Bad
  <2>6. Extends(F[n], G[k])
    BY <2>4, <2>5, KeepFirstLonger
  <2> QED
    BY <2>1, <2>6 DEF Worse
<1>7. Extends(F[n], G[m])
  BY <1>1, <1>6
<1> QED
  BY <1>2, <1>3, <1>7

LEMMA BareIs ==
  ASSUME NEW s, IsSequence(s)
  PROVE  /\ Len(s) \in Nat /\ Len(Bare(s)) = Len(s) /\ Bare(s) \in Seq(ToSet(Bare(s)))
         /\ \A i \in 1..Len(s) : Bare(s)[i] = [slot |-> s[i].slot, symbol |-> s[i].symbol,
                                               library |-> s[i].library]
<1> DEFINE b == Bare(s)
<1>1. Len(s) \in Nat /\ DOMAIN s = 1..Len(s)
  BY SequenceIs
<1>2. /\ b = [i \in 1..Len(s) |-> b[i]]
      /\ \A i \in 1..Len(s) : b[i] = [slot |-> s[i].slot, symbol |-> s[i].symbol,
                                      library |-> s[i].library]
  BY <1>1 DEF Bare
<1> HIDE DEF b
<1>3. b \in [1..Len(s) -> ToSet(b)]
  BY <1>2 DEF ToSet
<1>4. b \in Seq(ToSet(b)) /\ Len(b) = Len(s)
  BY <1>1, <1>3
<1> QED
  BY <1>1, <1>2, <1>4 DEF b

(* What begins with the links of a listing has them as its prefix. *)
LEMMA ExtendsPrefix ==
  ASSUME NEW s, IsSequence(s), NEW t, IsSequence(t), Extends(s, t)
  PROVE  IsPrefix(Bare(s), Bare(t))
<1> DEFINE b == Bare(s)
           c == Bare(t)
           n == Len(s)
<1>1. /\ n \in Nat /\ Len(b) = n /\ b \in Seq(ToSet(b))
      /\ \A i \in 1..n : b[i] = [slot |-> s[i].slot, symbol |-> s[i].symbol, library |-> s[i].library]
  BY BareIs
<1>2. /\ Len(t) \in Nat /\ Len(c) = Len(t) /\ c \in Seq(ToSet(c))
      /\ \A i \in 1..Len(t) : c[i] = [slot |-> t[i].slot, symbol |-> t[i].symbol,
                                      library |-> t[i].library]
  BY BareIs
<1> HIDE DEF b, c
<1>3. n <= Len(t) /\ \A i \in 1..n : i \in 1..Len(t)
  BY <1>1, <1>2 DEF Extends
<1>4. \A i \in 1..n : b[i] = c[i]
  BY <1>1, <1>2, <1>3 DEF Extends, SameLink
<1>5. SubSeq(b, 1, n) = [i \in 1..n |-> b[i]]
  BY <1>1, Prefix
<1>6. SubSeq(c, 1, n) = [i \in 1..n |-> c[i]]
  BY <1>1, <1>2, <1>3, Prefix
<1>7. SubSeq(b, 1, n) = SubSeq(c, 1, n)
  BY <1>4, <1>5, <1>6
<1> QED
  BY <1>1, <1>2, <1>3, <1>7 DEF IsPrefix, b, c

(* An image without a complement lists its primary table. *)
LEMMA NoComplement ==
  ASSUME NEW image, NEW file, NEW info, info.chained = None, info.binds = <<>>
  PROVE  MachO!Complement(image, file, info) \in {Malformed, <<>>}
<1> DEFINE turns == [i \in 1..Len(info.binds) |->
                       MachO!parse_bind_stream(image, info, info.binds[i])]
<1>1. MachO!Complement(image, file, info) = MachO!AllOf(turns)
  BY DEF MachO!Complement, MachO!Collect
<1>2. turns = [i \in 1..0 |-> turns[i]] /\ \A i \in 1..0 : turns[i] \in {Malformed} \cup Seq({})
  OBVIOUS
<1> HIDE DEF turns
<1>3. AllOf(turns) \in {Malformed} \cup Seq({})
  BY <1>2, AllOfIn
<1>4. \A s \in Seq({}) : s = <<>>
  OBVIOUS
<1> QED
  BY <1>1, <1>3, <1>4, MachAllOf

LEMMA MergeNothing ==
  ASSUME NEW out
  PROVE  MachO!merge_complement(out, <<>>) = out
<1>1. MachO!merge_complement(out, <<>>) = MergeLoop(out, <<>>)
  BY DEF MachO!merge_complement, MergeLoop
<1>2. IsSequence(<<>>) /\ MergeLoopKeeps({out}, <<>>)
  BY DEF IsSequence, MergeLoopKeeps
<1>3. MergeLoop(out, <<>>) \in {out}
  BY <1>2, MergeFold
<1> QED
  BY <1>1, <1>3

LEMMA MergedExtends ==
  ASSUME NEW slide, NEW segments, NEW primary \in Seq(MachImport(slide, segments)),
         NEW complement \in {Malformed} \cup Seq(MachImport(slide, segments)),
         NEW nothing \in {Malformed, <<>>}
  PROVE  Extends(MachO!Merged(primary, nothing), MachO!Merged(primary, complement))
<1> DEFINE R == MachImport(slide, segments)
           all == IF complement = Malformed THEN primary
                  ELSE MachO!merge_complement(primary, complement)
<1>1. MachO!Merged(primary, complement) = KeepFirstLoop(<<>>, all)
  BY DEF MachO!Merged, KeepFirstLoop
<1>2. MachO!Merged(primary, nothing) = KeepFirstLoop(<<>>, primary)
  BY MergeNothing DEF MachO!Merged, KeepFirstLoop
<1>3. all \in Seq(R) /\ Extends(primary, all)
  BY MergeIn, MergeExtends, ExtendsSelf
<1> HIDE DEF all, R
<1>4. Extends(KeepFirstLoop(<<>>, primary), KeepFirstLoop(<<>>, all))
  BY <1>3, FirstsExtend DEF R
<1> QED
  BY <1>1, <1>2, <1>4

(* The Mach-O listing begins with what the indirect table alone lists. *)
LEMMA MachOPrimary ==
  ASSUME ErrIsNoOk, NEW image, MachO!TypedImage(image), MachO!from_index(image),
         NEW file, file = None \/ MachO!TypedSlice(file), NEW slice,
         NEW bare, bare = [image EXCEPT !.cmds = KeptCommands(image)],
         NEW primary, primary = MachO!parse_imports(bare, slice), primary # Malformed,
         NEW listing, listing = MachO!parse_imports(image, file)
  PROVE  IsSequence(primary) /\ IsSequence(listing) /\ Extends(primary, listing)
<1> DEFINE g == MachO!read_load_commands(image)
           h == MachO!read_load_commands(bare)
           p == MachO!parse_indirect(image, g)
           q == MachO!parse_indirect(bare, h)
           nothing == MachO!Complement(bare, slice, h)
           complement == MachO!Complement(image, file, g)
           R == MachImport(image.slide, g.segments)
<1>1. /\ bare.magic = image.magic /\ bare.cpu = image.cpu /\ bare.sub = image.sub
      /\ bare.slide = image.slide /\ bare.sizeofcmds = image.sizeofcmds
      /\ bare.cmds = KeptCommands(image)
  <2>1. "magic" \in DOMAIN image /\ "cpu" \in DOMAIN image /\ "sub" \in DOMAIN image
        /\ "slide" \in DOMAIN image /\ "sizeofcmds" \in DOMAIN image /\ "cmds" \in DOMAIN image
    BY DEF MachO!TypedImage
  <2> QED
    BY <2>1
<1>2. image.magic /\ MachO!macho_cpu_supported(image.cpu) /\ g # Malformed
  BY DEF MachO!from_index
<1>3. Primary(h, g)
  BY <1>1, <1>2, PrimaryLoads
<1>4. /\ primary = MachO!Merged(q, nothing) /\ q # Malformed
      /\ p # Malformed => listing = MachO!Merged(p, complement)
  BY <1>1, <1>2, <1>3 DEF MachO!parse_imports, MachO!Try, Primary
<1>5. g \in MachInfo
  BY <1>2, LoadCommandsIn
<1> HIDE DEF g, h
<1>6. h # Malformed /\ Alike(bare, h, image, g) /\ h.chained = None /\ h.binds = <<>>
  BY <1>1, <1>2, <1>3 DEF Primary, Alike
<1>7. q = p
  BY <1>6, IndirectAlike
<1>8. nothing \in {Malformed, <<>>}
  BY <1>6, NoComplement
<1>9. MachOf(image, g)
  BY <1>5 DEF MachOf, MachO!TypedImage
<1>10. p \in Seq(R)
  BY <1>4, <1>7, <1>9, IndirectIn DEF MachYield
<1>11. complement \in {Malformed} \cup Seq(R)
  BY <1>9, ComplementIn DEF MachYield
<1> HIDE DEF p, q, nothing, complement
<1>12. primary = MachO!Merged(p, nothing) /\ listing = MachO!Merged(p, complement)
  BY <1>4, <1>7
<1>13. Extends(primary, listing)
  BY <1>8, <1>10, <1>11, <1>12, MergedExtends
<1>14. <<>> \in Seq(R)
  OBVIOUS
<1> HIDE DEF R
<1>15. nothing \in {Malformed} \cup Seq(R)
  BY <1>8, <1>14
<1>16. primary \in Seq(R) /\ listing \in Seq(R)
  BY <1>10, <1>11, <1>12, <1>15, MergedIn DEF R
<1> QED
  BY <1>13, <1>16, SequenceOf

(* PE: the standard directory is read alike, whatever the delay directory. *)
Unmoved(bare, image) ==
  /\ bare.base = image.base /\ bare.size = image.size
  /\ bare.descriptors = image.descriptors /\ bare.mem = image.mem

LEMMA ReadAlike ==
  ASSUME NEW bare, NEW image, Unmoved(bare, image)
  PROVE  /\ \A entries, rva, len, zero :
              Pe!read(bare, entries, rva, len, zero) = Pe!read(image, entries, rva, len, zero)
         /\ \A rva : Pe!cstr(bare, rva) = Pe!cstr(image, rva)
         /\ \A rva : Pe!slot_address(bare, rva) = Pe!slot_address(image, rva)
<1>1. \A entries, rva, len, zero :
        Pe!read(bare, entries, rva, len, zero) = Pe!read(image, entries, rva, len, zero)
  BY DEF Pe!read, Unmoved
<1>2. ASSUME NEW rva PROVE Pe!cstr(bare, rva) = Pe!cstr(image, rva)
  <2>1. Pe!read(bare, bare.mem, rva, 1, "") = Pe!read(image, image.mem, rva, 1, "")
    BY DEF Pe!read, Unmoved
  <2> QED
    BY <2>1 DEF Pe!cstr
<1>3. \A rva : Pe!slot_address(bare, rva) = Pe!slot_address(image, rva)
  BY DEF Pe!slot_address, Unmoved
<1> QED
  BY <1>1, <1>2, <1>3

LEMMA ThunksAlike ==
  ASSUME NEW bare, NEW image, Unmoved(bare, image),
         NEW names, NEW slots, NEW library, NEW kind
  PROVE  Pe!collect_thunks(bare, names, slots, library, kind) =
           Pe!collect_thunks(image, names, slots, library, kind)
<1>1. ASSUME NEW rva PROVE Pe!Thunks(bare, rva) = Pe!Thunks(image, rva)
  <2> DEFINE mine == [i \in 1..MaxThunks |->
                        Pe!read(bare, bare.mem, rva + (i - 1) * 8, 8, Pe!ZeroThunk)]
             other == [i \in 1..MaxThunks |->
                         Pe!read(image, image.mem, rva + (i - 1) * 8, 8, Pe!ZeroThunk)]
  <2>1. mine = other
    BY ReadAlike DEF Unmoved
  <2>2. /\ Pe!Thunks(bare, rva) = Pe!UpToZero(mine, LAMBDA t : t = Pe!ZeroThunk)
        /\ Pe!Thunks(image, rva) = Pe!UpToZero(other, LAMBDA t : t = Pe!ZeroThunk)
    BY DEF Pe!Thunks, Pe!Terminated, Pe!THUNK_SIZE
  <2> HIDE DEF mine, other
  <2> QED
    BY <2>1, <2>2
<1>2. ASSUME NEW thunk
      PROVE  Pe!ThunkSymbol(bare, library, thunk) = Pe!ThunkSymbol(image, library, thunk)
  BY ReadAlike DEF Pe!ThunkSymbol, Pe!Try
<1> DEFINE rva == IF names = 0 THEN slots ELSE names
           table == Pe!Thunks(image, rva)
           Turn(i, j) == IF (IF names = 0 THEN None ELSE Pe!ThunkSymbol(i, library, table[j])) = Malformed
                         THEN Malformed
                         ELSE IF Pe!slot_address(i, slots + (j - 1) * 8) = Malformed THEN Malformed
                         ELSE <<[library |-> library,
                                 symbol |-> IF names = 0 THEN None
                                            ELSE Pe!ThunkSymbol(i, library, table[j]),
                                 version |-> None, slot |-> Pe!slot_address(i, slots + (j - 1) * 8),
                                 kind |-> kind, authenticated |-> FALSE]>>
           mine == [j \in 1..Len(table) |-> Turn(bare, j)]
           other == [j \in 1..Len(table) |-> Turn(image, j)]
<1>3. ASSUME NEW j PROVE Turn(bare, j) = Turn(image, j)
  <2>1. Pe!ThunkSymbol(bare, library, table[j]) = Pe!ThunkSymbol(image, library, table[j])
    <3> HIDE DEF table
    <3> QED
      BY <1>2
  <2>2. Pe!slot_address(bare, slots + (j - 1) * 8) = Pe!slot_address(image, slots + (j - 1) * 8)
    BY ReadAlike
  <2> HIDE DEF table
  <2> QED
    BY <2>1, <2>2
<1>4. table = Pe!Thunks(bare, rva)
  BY <1>1
<1> HIDE DEF table
<1>5. Pe!collect_thunks(image, names, slots, library, kind) =
        IF table = Malformed THEN Malformed ELSE Pe!AllOf(other)
  BY DEF Pe!collect_thunks, Pe!Collect, Pe!Try, Pe!PushAt, Pe!RawImport, Pe!THUNK_SIZE, table
<1>6. Pe!collect_thunks(bare, names, slots, library, kind) =
        IF table = Malformed THEN Malformed ELSE Pe!AllOf(mine)
  BY <1>4 DEF Pe!collect_thunks, Pe!Collect, Pe!Try, Pe!PushAt, Pe!RawImport, Pe!THUNK_SIZE
<1> HIDE DEF Turn
<1>7. mine = other
  BY <1>3
<1> HIDE DEF mine, other
<1> QED
  BY <1>5, <1>6, <1>7

LEMMA StandardAlike ==
  ASSUME NEW bare, NEW image, Unmoved(bare, image), NEW dir
  PROVE  Pe!parse_standard(bare, dir) = Pe!parse_standard(image, dir)
<1> DEFINE zero == [names |-> 0, name |-> 0, slots |-> 0]
           Entries(i) == [k \in 1..MaxDescriptors |->
                            Pe!read(i, i.descriptors, dir + (k - 1) * 20, 20, zero)]
           table == Pe!Descriptors(image, dir)
           Turn(i, k) == IF table[k].slots = 0 THEN <<>>
                         ELSE IF Pe!cstr(i, table[k].name) = Malformed THEN Malformed
                         ELSE Pe!collect_thunks(i, table[k].names, table[k].slots,
                                                Pe!cstr(i, table[k].name), "Standard")
           mine == [k \in 1..Len(table) |-> Turn(bare, k)]
           other == [k \in 1..Len(table) |-> Turn(image, k)]
<1>1. table = Pe!Descriptors(bare, dir)
  <2>1. Entries(bare) = Entries(image)
    BY ReadAlike DEF Unmoved
  <2>2. /\ Pe!Descriptors(bare, dir) = Pe!UpToZero(Entries(bare), LAMBDA d : d.name = 0)
        /\ Pe!Descriptors(image, dir) = Pe!UpToZero(Entries(image), LAMBDA d : d.name = 0)
    BY DEF Pe!Descriptors, Pe!Terminated, Pe!IMPORT_DESCRIPTOR_SIZE
  <2> HIDE DEF Entries
  <2> QED
    BY <2>1, <2>2
<1> HIDE DEF table
<1>2. \A k : Turn(bare, k) = Turn(image, k)
  BY ReadAlike, ThunksAlike
<1>3. Pe!parse_standard(image, dir) = IF table = Malformed THEN Malformed ELSE Pe!AllOf(other)
  BY DEF Pe!parse_standard, Pe!Collect, Pe!Try, table
<1>4. Pe!parse_standard(bare, dir) = IF table = Malformed THEN Malformed ELSE Pe!AllOf(mine)
  BY <1>1 DEF Pe!parse_standard, Pe!Collect, Pe!Try
<1> HIDE DEF Turn
<1>5. mine = other
  BY <1>2
<1> HIDE DEF mine, other
<1> QED
  BY <1>3, <1>4, <1>5

LEMMA JoinExtends ==
  ASSUME NEW s, IsSequence(s), NEW t, IsSequence(t)
  PROVE  IsSequence(s \o <<>>) /\ IsSequence(s \o t) /\ Extends(s \o <<>>, s \o t)
<1>1. PICK S : s \in Seq(S) /\ t \in Seq(S)
  <2>1. s \in Seq(ToSet(s)) /\ t \in Seq(ToSet(t))
    BY DEF IsSequence
  <2>2. s \in Seq(ToSet(s) \cup ToSet(t)) /\ t \in Seq(ToSet(s) \cup ToSet(t))
    BY <2>1
  <2> QED
    BY <2>2
<1>2. s \o <<>> = s /\ s \o t \in Seq(S)
  BY <1>1
<1>3. Len(s) \in Nat /\ Len(t) \in Nat /\ Len(s \o t) = Len(s) + Len(t)
      /\ \A i \in 1..Len(s) : (s \o t)[i] = s[i]
  BY <1>1
<1>4. Extends(s, s \o t)
  BY <1>3 DEF Extends, SameLink
<1> QED
  BY <1>2, <1>4, SequenceOf

(* The PE listing begins with what the standard directory alone lists. *)
LEMMA PePrimary ==
  ASSUME NEW image, Pe!TypedImage(image), Pe!from_base(image),
         NEW bare, bare = [image EXCEPT !.header.directories =
                             [i \in DOMAIN @ |-> IF i = Pe!DIRECTORY_ENTRY_DELAY_IMPORT THEN 0 ELSE @[i]]],
         NEW primary, primary = Pe!parse_imports(bare), primary # Malformed,
         NEW listing, listing = Pe!parse_imports(image)
  PROVE  IsSequence(primary) /\ IsSequence(listing) /\ Extends(primary, listing)
<1> DEFINE zeroed == [i \in DOMAIN image.header.directories |->
                        IF i = 14 THEN 0 ELSE image.header.directories[i]]
           header == [image.header EXCEPT !.directories = zeroed]
           dirs == Pe!parse_headers(image)
           standard == IF dirs.import = 0 THEN <<>> ELSE Pe!parse_standard(image, dirs.import)
           delay == Pe!parse_delay(image, dirs.delay)
           delayed == IF dirs.delay = 0 THEN <<>> ELSE IF delay = Malformed THEN <<>> ELSE delay
<1>1. bare = [image EXCEPT !.header = header]
  BY DEF Pe!DIRECTORY_ENTRY_DELAY_IMPORT
<1>2. {"base", "size", "header", "descriptors", "delayed", "mem"} \subseteq DOMAIN image
      /\ {"mz", "pe", "size_of_optional", "magic", "machine", "directories"} \subseteq DOMAIN image.header
  BY DEF Pe!TypedImage
<1> HIDE DEF header
<1>3. Unmoved(bare, image) /\ bare.header = header
  BY <1>1, <1>2 DEF Unmoved
<1>4. /\ header.mz = image.header.mz /\ header.pe = image.header.pe
      /\ header.size_of_optional = image.header.size_of_optional
      /\ header.magic = image.header.magic /\ header.machine = image.header.machine
      /\ header.directories = zeroed
  <2> HIDE DEF zeroed
  <2> QED
    BY <1>2 DEF header
<1>5. dirs # Malformed
  BY DEF Pe!from_base
<1>6. Pe!parse_headers(bare) = [import |-> dirs.import, delay |-> 0]
  <2> DEFINE Entry(d, i) == IF i \in DOMAIN d THEN d[i] ELSE 0
             old == image.header.directories
  <2>1. /\ image.header.mz /\ image.header.pe /\ image.header.size_of_optional >= 112
        /\ image.header.magic = "PE32+" /\ image.header.machine = HostMachine
        /\ dirs = [import |-> Entry(old, 2), delay |-> Entry(old, 14)]
    BY <1>5 DEF Pe!parse_headers, Pe!DIRECTORY_ENTRY_IMPORT, Pe!DIRECTORY_ENTRY_DELAY_IMPORT
  <2>2. Pe!parse_headers(bare) = [import |-> Entry(zeroed, 2), delay |-> Entry(zeroed, 14)]
    <3>1. /\ bare.header.mz /\ bare.header.pe /\ bare.header.size_of_optional >= 112
          /\ bare.header.magic = "PE32+" /\ bare.header.machine = HostMachine
      BY <1>3, <1>4, <2>1
    <3>2. bare.header.directories = zeroed
      BY <1>3, <1>4
    <3>3. Pe!parse_headers(bare) = [import |-> Entry(bare.header.directories, 2),
                                    delay |-> Entry(bare.header.directories, 14)]
      BY <3>1 DEF Pe!parse_headers, Pe!DIRECTORY_ENTRY_IMPORT, Pe!DIRECTORY_ENTRY_DELAY_IMPORT
    <3> HIDE DEF zeroed, Entry
    <3> QED
      BY <3>2, <3>3
  <2>3. Entry(zeroed, 2) = Entry(old, 2) /\ Entry(zeroed, 14) = 0
    OBVIOUS
  <2> HIDE DEF Entry, zeroed, dirs
  <2> QED
    BY <2>1, <2>2, <2>3
<1> HIDE DEF zeroed
<1>7. listing = IF standard = Malformed THEN Malformed ELSE standard \o delayed
  <2> HIDE DEF standard
  <2> QED
    BY <1>5, Zenon DEF Pe!parse_imports, Pe!Try, Pe!OrNothing, standard
<1>8. primary = IF standard = Malformed THEN Malformed ELSE standard \o <<>>
  <2> DEFINE mine == IF dirs.import = 0 THEN <<>> ELSE Pe!parse_standard(bare, dirs.import)
             zero == [import |-> dirs.import, delay |-> 0]
  <2>1. mine = standard
    <3> HIDE DEF dirs
    <3> QED
      BY <1>3, StandardAlike
  <2>2. Pe!parse_headers(bare) = zero /\ zero.import = dirs.import /\ zero.delay = 0
    BY <1>6
  <2> HIDE DEF dirs, zero
  <2>3. zero # Malformed
    <3>1. Pe!parse_headers(bare) = Malformed => primary = Malformed
      BY Zenon DEF Pe!parse_imports, Pe!Try
    <3> QED
      BY <2>2, <3>1
  <2>4. primary = IF mine = Malformed THEN Malformed ELSE mine \o <<>>
    BY <2>2, <2>3, Zenon DEF Pe!parse_imports, Pe!Try
  <2> HIDE DEF mine, standard
  <2> QED
    BY <2>1, <2>4
<1> HIDE DEF dirs
<1>9. Yields(standard, PeCells(image))
  BY StandardYields, YieldsEmpty
<1>10. Lists(delayed, PeCells(image))
  BY DelayYields, ListsEmpty DEF Yields
<1> HIDE DEF standard, delayed
<1>11. IsSequence(standard) /\ IsSequence(delayed)
  BY <1>8, <1>9, <1>10 DEF Yields, Lists
<1>12. primary = standard \o <<>> /\ listing = standard \o delayed
  BY <1>7, <1>8
<1> QED
  BY <1>11, <1>12, JoinExtends

(* ELF has no complement. *)
LEMMA ElfPrimary ==
  ASSUME NEW object, Elf!TypedObject(object),
         NEW listing, listing = Elf!parse_imports(object), listing # Malformed
  PROVE  IsSequence(listing) /\ Extends(listing, listing)
<1>1. IsSequence(listing)
  BY ElfListing DEF Yields, Lists
<1> QED
  BY <1>1, ExtendsSelf DEF IsSequence

(* The answer of one module, and of the module without its complement. *)
LEMMA AnswerExtends ==
  ASSUME ErrIsNoOk, AnswerInv, imports # Unread, Acquired(module),
         NEW primary, primary = ParseImports([module EXCEPT !.image = Stripped(module)]),
         primary # Malformed
  PROVE  IsSequence(primary) /\ IsSequence(imports) /\ Extends(primary, imports)
<1> DEFINE m == [module EXCEPT !.image = Stripped(module)]
           image == module.image
<1>1. module \in Modules /\ {"format", "image"} \subseteq DOMAIN module
  BY ModulesAssumption DEF AnswerInv, SliceInv
<1>2. m.format = module.format /\ m.image = Stripped(module)
  BY <1>1
<1>3. imports = Answer(module, thin_slice)
  BY DEF AnswerInv
<1>4. primary = CASE m.format = "macho" -> MachO!parse_imports(m.image, ThinSlice(m))
                  [] m.format = "elf" -> Elf!parse_imports(m.image)
                  [] m.format = "pe" -> Pe!parse_imports(m.image)
  BY DEF ParseImports
<1> HIDE DEF m
<1>5. CASE module.format = "macho"
  <2>1. MachO!TypedImage(image) /\ MachO!from_index(image)
    BY <1>1, <1>5, ModulesAssumption DEF Acquired
  <2>2. PICK file : /\ file = None \/ MachO!TypedSlice(file)
                    /\ imports = Answer(module, file)
    <3>1. CASE thin_slice = Unread
      <4>1. ~NeedsSlice(module)
        BY <3>1 DEF AnswerInv
      <4>2. imports = Answer(module, None)
        BY <1>1, <1>3, <4>1, SliceUnused
      <4> QED
        BY <4>2
    <3>2. CASE thin_slice # Unread
      BY <1>3, <1>5, <3>2 DEF AnswerInv, SliceInv
    <3> QED
      BY <3>1, <3>2
  <2>3. imports = MachO!parse_imports(image, file)
    BY <1>5, <2>2 DEF Answer
  <2>4. primary = MachO!parse_imports(Stripped(module), ThinSlice(m))
    BY <1>2, <1>4, <1>5
  <2>5. Stripped(module) = [image EXCEPT !.cmds = KeptCommands(image)]
    BY <1>5 DEF Stripped, KeptCommands, Refining
  <2> HIDE DEF image
  <2> QED
    BY <2>1, <2>2, <2>3, <2>4, <2>5, MachOPrimary
<1>6. CASE module.format = "elf"
  <2>1. Elf!TypedObject(image)
    BY <1>1, <1>6, ModulesAssumption
  <2>2. imports = Elf!parse_imports(image)
    BY <1>3, <1>6 DEF Answer
  <2>3. primary = Elf!parse_imports(image)
    <3>1. Stripped(module) = image
      BY <1>6 DEF Stripped
    <3> QED
      BY <1>2, <1>4, <1>6, <3>1
  <2> QED
    BY <2>1, <2>2, <2>3, ElfPrimary
<1>7. CASE module.format = "pe"
  <2>1. Pe!TypedImage(image) /\ Pe!from_base(image)
    BY <1>1, <1>7, ModulesAssumption DEF Acquired
  <2>2. imports = Pe!parse_imports(image)
    BY <1>3, <1>7 DEF Answer
  <2>3. primary = Pe!parse_imports(Stripped(module))
    BY <1>2, <1>4, <1>7
  <2>4. Stripped(module) =
          [image EXCEPT !.header.directories =
             [i \in DOMAIN @ |-> IF i = Pe!DIRECTORY_ENTRY_DELAY_IMPORT THEN 0 ELSE @[i]]]
    BY <1>7 DEF Stripped
  <2> HIDE DEF image
  <2> QED
    BY <2>1, <2>2, <2>3, <2>4, PePrimary
<1> QED
  BY <1>1, <1>5, <1>6, <1>7, ModulesAssumption

LEMMA AnswerKeepsPrimary ==
  ASSUME ErrIsNoOk, AnswerInv
  PROVE  PrimaryKept
<1> DEFINE primary == ParseImports([module EXCEPT !.image = Stripped(module)])
<1> SUFFICES ASSUME imports # Unread, Acquired(module), primary # Malformed
             PROVE  IsPrefix(Bare(primary), Bare(Listed))
  BY DEF PrimaryKept
<1>1. IsSequence(primary) /\ IsSequence(imports) /\ Extends(primary, imports)
  BY AnswerExtends
<1>2. Listed = imports
  BY <1>1 DEF Listed, ErrIsNoOk
<1> HIDE DEF primary
<1> QED
  BY <1>1, <1>2, ExtendsPrefix

(* A complement only adds, in every image: the slots of the primary table  *)
(* are listed first, in order and with their own symbols, whether the bind *)
(* opcodes, the chained fixups or the delay directory parse or not         *)
(* (merge_complement, parse_delay's result in Module::imports).            *)
THEOREM PrimaryIsKept ==
  ASSUME ErrIsNoOk
  PROVE  Spec => []PrimaryKept
<1>1. Init => AnswerInv
  BY SliceInvInit DEF Init, AnswerInv
<1>2. AnswerInv /\ [Next]_vars => AnswerInv'
  BY AnswerInvStep
<1>3. AnswerInv => PrimaryKept
  BY AnswerKeepsPrimary
<1> QED
  BY <1>1, <1>2, <1>3, PTL DEF Spec

=============================================================================
