-------------------------- MODULE AccountingProofs --------------------------
(***************************************************************************)
(* The volume's accounting is exact, for any finite number of files and    *)
(* clients.  First what a sum over a finite set does when one term changes *)
(* or a part of the set is taken out; then, for each file, an account: the *)
(* length reserved for it by the client that holds its data lock, or the   *)
(* length it has.  Every step changes one account, and used with it, or    *)
(* closes the accounts of files that are dropped.                          *)
(***************************************************************************)
EXTENDS MemoryFsProofs, FiniteSetTheorems

-----------------------------------------------------------------------------
(* Sums of a function over a finite set. *)

Pick(s) == CHOOSE x \in s : TRUE

Sum(w, S) == MapThenSumSet(LAMBDA x : w[x], S)

(* g is the fold behind Sum: it gives every subset of S its sum. *)
Sums(g, w, S) ==
  g = [s \in SUBSET S |-> IF s = {} THEN 0 ELSE w[Pick(s)] + g[s \ {Pick(s)}]]

(* Induction over the subsets of a finite set: what fails for some of them *)
(* fails for one, all of whose proper subsets it holds for.                *)
LEMMA SmallestSubset ==
  ASSUME NEW S, IsFiniteSet(S), NEW Bad, Bad \subseteq SUBSET S, Bad # {}
  PROVE  \E T \in Bad : /\ IsFiniteSet(T)
                        /\ \A U \in SUBSET T : U # T => U \notin Bad
<1>1. IsWellFoundedOn(StrictSubsetOrdering(S), SUBSET S)
  BY FS_StrictSubsetOrderingWellFounded, FS_FiniteSubsetsOfFinite
<1>2. PICK T \in Bad : \A U \in Bad : ~ (<<U, T>> \in StrictSubsetOrdering(S))
  BY <1>1, WFMin
<1>3. IsFiniteSet(T)
  BY FS_Subset
<1>4. ASSUME NEW U \in SUBSET T, U # T, U \in Bad PROVE FALSE
  BY <1>2, <1>4 DEF StrictSubsetOrdering
<1> QED
  BY <1>3, <1>4

LEMMA PickIn ==
  ASSUME NEW s, s # {}
  PROVE  Pick(s) \in s
BY DEF Pick

(* A fold depends on nothing but the values it adds. *)
LEMMA SumsAgree ==
  ASSUME NEW T, IsFiniteSet(T), NEW S, NEW R, T \subseteq S, T \subseteq R,
         NEW g, NEW w, Sums(g, w, S), NEW h, NEW v, Sums(h, v, R),
         \A x \in T : w[x] = v[x]
  PROVE  g[T] = h[T]
<1> DEFINE Bad == {s \in SUBSET T : g[s] # h[s]}
<1>1. SUFFICES ASSUME Bad # {} PROVE FALSE
  OBVIOUS
<1>2. PICK s \in Bad : \A u \in SUBSET s : u # s => u \notin Bad
  <2>1. Bad \subseteq SUBSET T
    OBVIOUS
  <2> HIDE DEF Bad
  <2> QED
    BY <1>1, <2>1, SmallestSubset
<1>3. g[s] = IF s = {} THEN 0 ELSE w[Pick(s)] + g[s \ {Pick(s)}]
  BY DEF Sums
<1>4. h[s] = IF s = {} THEN 0 ELSE v[Pick(s)] + h[s \ {Pick(s)}]
  BY DEF Sums
<1>5. s # {} => g[s \ {Pick(s)}] = h[s \ {Pick(s)}] /\ w[Pick(s)] = v[Pick(s)]
  BY <1>2, PickIn
<1> QED
  BY <1>3, <1>4, <1>5

(* There is such a fold. *)
LEMMA SumsExist ==
  ASSUME NEW S, IsFiniteSet(S), NEW w
  PROVE  \E g : Sums(g, w, S)
<1> DEFINE Bad == {T \in SUBSET S : ~ \E g : Sums(g, w, T)}
<1>1. SUFFICES ASSUME Bad # {} PROVE FALSE
  OBVIOUS
<1>2. PICK T \in Bad : IsFiniteSet(T) /\ \A u \in SUBSET T : u # T => u \notin Bad
  <2>1. Bad \subseteq SUBSET S
    OBVIOUS
  <2> HIDE DEF Bad
  <2> QED
    BY <1>1, <2>1, SmallestSubset
<1> DEFINE Of(u) == CHOOSE h : Sums(h, w, u)
           g == [s \in SUBSET T |-> IF s = {} THEN 0
                                    ELSE w[Pick(s)] + Of(s \ {Pick(s)})[s \ {Pick(s)}]]
<1>3. \A u \in SUBSET T : u # T => Sums(Of(u), w, u)
  BY <1>2
<1>4. ASSUME NEW s \in SUBSET T, s # {} PROVE g[s \ {Pick(s)}] = Of(s \ {Pick(s)})[s \ {Pick(s)}]
  <2> DEFINE u == s \ {Pick(s)}
             r == u \ {Pick(u)}
  <2>1. u \in SUBSET T /\ u # T /\ Sums(Of(u), w, u)
    BY <1>3, <1>4, PickIn
  <2>2. Of(u)[u] = IF u = {} THEN 0 ELSE w[Pick(u)] + Of(u)[r]
    BY <2>1 DEF Sums
  <2>3. g[u] = IF u = {} THEN 0 ELSE w[Pick(u)] + Of(r)[r]
    BY <2>1
  <2>4. u # {} => Of(u)[r] = Of(r)[r]
    <3>1. u # {} => r \in SUBSET T /\ r # T /\ Sums(Of(r), w, r) /\ r \subseteq u /\ IsFiniteSet(r)
      BY <1>2, <1>3, <2>1, PickIn, FS_Subset
    <3> HIDE DEF Of, u, r
    <3> QED
      BY <2>1, <3>1, SumsAgree
  <2> HIDE DEF Of, g
  <2> QED
    BY <2>2, <2>3, <2>4
<1>5. Sums(g, w, T)
  <2>1. g = [s \in SUBSET T |-> IF s = {} THEN 0 ELSE w[Pick(s)] + g[s \ {Pick(s)}]]
    <3>1. \A s \in SUBSET T :
            g[s] = IF s = {} THEN 0 ELSE w[Pick(s)] + Of(s \ {Pick(s)})[s \ {Pick(s)}]
      OBVIOUS
    <3>2. g = [s \in SUBSET T |-> g[s]]
      OBVIOUS
    <3> HIDE DEF g, Of
    <3> QED
      BY <1>4, <3>1, <3>2
  <2> HIDE DEF g
  <2> QED
    BY <2>1 DEF Sums
<1> QED
  BY <1>2, <1>5

(* Sum is what any such fold gives. *)
LEMMA SumIs ==
  ASSUME NEW S, IsFiniteSet(S), NEW w, NEW g, Sums(g, w, S)
  PROVE  Sum(w, S) = g[S]
<1> DEFINE f == CHOOSE h : h = [s \in SUBSET S |->
                   IF s = {} THEN 0 ELSE w[Pick(s)] + h[s \ {Pick(s)}]]
<1>1. Sum(w, S) = f[S]
  BY DEF Sum, MapThenSumSet, MapThenFoldSet, Pick
<1>2. Sums(f, w, S)
  BY SumsExist DEF Sums
<1> HIDE DEF f
<1> QED
  BY <1>1, <1>2, SumsAgree

(* Adding up one element more. *)
LEMMA SumStep ==
  ASSUME NEW S, IsFiniteSet(S), NEW w
  PROVE  Sum(w, S) = IF S = {} THEN 0 ELSE w[Pick(S)] + Sum(w, S \ {Pick(S)})
<1>1. PICK g : Sums(g, w, S)
  BY SumsExist
<1>2. Sum(w, S) = g[S]
  BY <1>1, SumIs
<1>3. g[S] = IF S = {} THEN 0 ELSE w[Pick(S)] + g[S \ {Pick(S)}]
  BY <1>1 DEF Sums
<1> DEFINE u == S \ {Pick(S)}
<1>4. g[u] = Sum(w, u)
  <2>1. IsFiniteSet(u) /\ u \subseteq S
    BY FS_Subset
  <2>2. PICK h : Sums(h, w, u)
    BY <2>1, SumsExist
  <2>3. Sum(w, u) = h[u]
    BY <2>1, <2>2, SumIs
  <2> HIDE DEF u
  <2> QED
    BY <1>1, <2>1, <2>2, <2>3, SumsAgree
<1> QED
  BY <1>2, <1>3, <1>4

(* Functions that agree on a set have the same sum over it. *)
LEMMA SumSame ==
  ASSUME NEW S, IsFiniteSet(S), NEW w, NEW v, \A x \in S : w[x] = v[x]
  PROVE  Sum(w, S) = Sum(v, S)
<1>1. PICK g : Sums(g, w, S)
  BY SumsExist
<1>2. PICK h : Sums(h, v, S)
  BY SumsExist
<1>3. Sum(w, S) = g[S] /\ Sum(v, S) = h[S]
  BY <1>1, <1>2, SumIs
<1> QED
  BY <1>1, <1>2, <1>3, SumsAgree

LEMMA SumInt ==
  ASSUME NEW S, IsFiniteSet(S), NEW w, \A x \in S : w[x] \in Int
  PROVE  Sum(w, S) \in Int
<1> DEFINE Bad == {T \in SUBSET S : Sum(w, T) \notin Int}
<1>1. SUFFICES ASSUME Bad # {} PROVE FALSE
  OBVIOUS
<1>2. PICK T \in Bad : IsFiniteSet(T) /\ \A u \in SUBSET T : u # T => u \notin Bad
  <2>1. Bad \subseteq SUBSET S
    OBVIOUS
  <2> HIDE DEF Bad
  <2> QED
    BY <1>1, <2>1, SmallestSubset
<1>3. Sum(w, T) = IF T = {} THEN 0 ELSE w[Pick(T)] + Sum(w, T \ {Pick(T)})
  BY <1>2, SumStep
<1>4. T # {} => w[Pick(T)] \in Int /\ Sum(w, T \ {Pick(T)}) \in Int
  BY <1>2, PickIn
<1> QED
  BY <1>3, <1>4

LEMMA SumNat ==
  ASSUME NEW S, IsFiniteSet(S), NEW w, \A x \in S : w[x] \in Nat
  PROVE  Sum(w, S) \in Nat
<1> DEFINE Bad == {T \in SUBSET S : Sum(w, T) \notin Nat}
<1>1. SUFFICES ASSUME Bad # {} PROVE FALSE
  OBVIOUS
<1>2. PICK T \in Bad : IsFiniteSet(T) /\ \A u \in SUBSET T : u # T => u \notin Bad
  <2>1. Bad \subseteq SUBSET S
    OBVIOUS
  <2> HIDE DEF Bad
  <2> QED
    BY <1>1, <2>1, SmallestSubset
<1>3. Sum(w, T) = IF T = {} THEN 0 ELSE w[Pick(T)] + Sum(w, T \ {Pick(T)})
  BY <1>2, SumStep
<1>4. T # {} => w[Pick(T)] \in Nat /\ Sum(w, T \ {Pick(T)}) \in Nat
  BY <1>2, PickIn
<1> QED
  BY <1>3, <1>4

LEMMA SumZero ==
  ASSUME NEW S, IsFiniteSet(S), NEW w, \A x \in S : w[x] = 0
  PROVE  Sum(w, S) = 0
<1> DEFINE Bad == {T \in SUBSET S : Sum(w, T) # 0}
<1>1. SUFFICES ASSUME Bad # {} PROVE FALSE
  OBVIOUS
<1>2. PICK T \in Bad : IsFiniteSet(T) /\ \A u \in SUBSET T : u # T => u \notin Bad
  <2>1. Bad \subseteq SUBSET S
    OBVIOUS
  <2> HIDE DEF Bad
  <2> QED
    BY <1>1, <2>1, SmallestSubset
<1>3. Sum(w, T) = IF T = {} THEN 0 ELSE w[Pick(T)] + Sum(w, T \ {Pick(T)})
  BY <1>2, SumStep
<1>4. T # {} => w[Pick(T)] = 0 /\ Sum(w, T \ {Pick(T)}) = 0
  BY <1>2, PickIn
<1> QED
  BY <1>3, <1>4

(* Any element can be taken out of a sum, not only the one the fold picks. *)
LEMMA SumRemove ==
  ASSUME NEW S, IsFiniteSet(S), NEW w, \A x \in S : w[x] \in Int, NEW e \in S
  PROVE  Sum(w, S) = w[e] + Sum(w, S \ {e})
<1> DEFINE Bad == {T \in SUBSET S : \E x \in T : Sum(w, T) # w[x] + Sum(w, T \ {x})}
<1>1. SUFFICES ASSUME Bad # {} PROVE FALSE
  OBVIOUS
<1>2. PICK T \in Bad : IsFiniteSet(T) /\ \A u \in SUBSET T : u # T => u \notin Bad
  <2>1. Bad \subseteq SUBSET S
    OBVIOUS
  <2> HIDE DEF Bad
  <2> QED
    BY <1>1, <2>1, SmallestSubset
<1>3. PICK x \in T : Sum(w, T) # w[x] + Sum(w, T \ {x})
  BY <1>2
<1> DEFINE p == Pick(T)
           r == (T \ {p}) \ {x}
<1>4. p \in T /\ Sum(w, T) = w[p] + Sum(w, T \ {p})
  BY <1>2, SumStep, PickIn
<1> HIDE DEF p
<1>5. p # x
  BY <1>3, <1>4
<1>6. Sum(w, T \ {p}) = w[x] + Sum(w, r)
  BY <1>2, <1>4, <1>5
<1>7. Sum(w, T \ {x}) = w[p] + Sum(w, r)
  <2>1. (T \ {x}) \ {p} = r
    OBVIOUS
  <2>2. T \ {x} \in SUBSET T /\ T \ {x} # T /\ p \in T \ {x}
    BY <1>4, <1>5
  <2> QED
    BY <1>2, <2>1, <2>2
<1>8. w[x] \in Int /\ w[p] \in Int /\ Sum(w, r) \in Int
  <2>1. IsFiniteSet(r) /\ \A y \in r : w[y] \in Int
    BY <1>2, FS_Subset
  <2> HIDE DEF r
  <2> QED
    BY <1>4, <2>1, SumInt
<1> HIDE DEF r
<1> QED
  BY <1>3, <1>4, <1>6, <1>7, <1>8

(* One term changes. *)
LEMMA SumChange ==
  ASSUME NEW S, IsFiniteSet(S), NEW w, \A x \in S : w[x] \in Int,
         NEW v, \A x \in S : v[x] \in Int, NEW e \in S, \A x \in S : x # e => v[x] = w[x]
  PROVE  Sum(v, S) = Sum(w, S) + (v[e] - w[e])
<1> DEFINE r == S \ {e}
<1>1. IsFiniteSet(r)
  BY FS_Subset
<1>2. Sum(w, r) = Sum(v, r) /\ Sum(w, r) \in Int
  BY <1>1, SumSame, SumInt
<1>3. Sum(w, S) = w[e] + Sum(w, r) /\ Sum(v, S) = v[e] + Sum(v, r)
  BY SumRemove
<1> HIDE DEF r
<1> QED
  BY <1>2, <1>3

(* A sum over a set is the sum over a part of it and over the rest. *)
LEMMA SumSplit ==
  ASSUME NEW S, IsFiniteSet(S), NEW w, \A x \in S : w[x] \in Int, NEW D \in SUBSET S
  PROVE  Sum(w, S) = Sum(w, D) + Sum(w, S \ D)
<1> DEFINE Bad == {T \in SUBSET D : Sum(w, S) # Sum(w, T) + Sum(w, S \ T)}
<1>1. SUFFICES ASSUME Bad # {} PROVE FALSE
  OBVIOUS
<1>2. IsFiniteSet(D)
  BY FS_Subset
<1>3. PICK T \in Bad : IsFiniteSet(T) /\ \A u \in SUBSET T : u # T => u \notin Bad
  <2>1. Bad \subseteq SUBSET D
    OBVIOUS
  <2> HIDE DEF Bad
  <2> QED
    BY <1>1, <1>2, <2>1, SmallestSubset
<1>4. CASE T = {}
  <2>1. S \ T = S
    BY <1>4
  <2>2. Sum(w, T) = 0
    <3>1. Sum(w, {}) = 0
      BY FS_EmptySet, SumStep
    <3> QED
      BY <1>4, <3>1
  <2>3. Sum(w, S) \in Int
    BY SumInt
  <2>4. Sum(w, S \ T) = Sum(w, S)
    BY <2>1
  <2>5. Sum(w, S) # Sum(w, T) + Sum(w, S \ T)
    BY <1>3
  <2> HIDE DEF Bad
  <2> QED
    BY <2>2, <2>3, <2>4, <2>5
<1>5. CASE T # {}
  <2> DEFINE e == Pick(T)
             u == T \ {e}
  <2>1. e \in T /\ e \in S /\ e \in S \ u
    BY <1>5, PickIn
  <2> HIDE DEF e
  <2>2. Sum(w, S) = Sum(w, u) + Sum(w, S \ u)
    BY <1>3, <2>1
  <2>3. Sum(w, T) = w[e] + Sum(w, u)
    BY <1>3, <2>1, SumRemove
  <2>4. Sum(w, S \ u) = w[e] + Sum(w, S \ T)
    <3>1. (S \ u) \ {e} = S \ T /\ IsFiniteSet(S \ u)
      BY <2>1, FS_Subset
    <3> HIDE DEF u
    <3>2. \A x \in S \ u : w[x] \in Int
      OBVIOUS
    <3> QED
      BY <2>1, <3>1, <3>2, SumRemove
  <2>5. w[e] \in Int /\ Sum(w, u) \in Int /\ Sum(w, S \ T) \in Int
    BY <1>3, <2>1, FS_Subset, SumInt
  <2> HIDE DEF u
  <2> QED
    BY <1>3, <2>2, <2>3, <2>4, <2>5
<1> QED
  BY <1>4, <1>5

(***************************************************************************)
(* The terms r of a sum over C are spread over places: each member c of L  *)
(* adds r[c] to the value of a place at[c] of its own, and v is what w     *)
(* becomes by it.                                                          *)
(***************************************************************************)
LEMMA SumMatch ==
  ASSUME NEW C, IsFiniteSet(C), NEW R, IsFiniteSet(R), NEW at, NEW L \in SUBSET C,
         \A c \in L : at[c] \in R, \A c, d \in L : at[c] = at[d] => c = d,
         NEW w, \A x \in R : w[x] \in Int,
         NEW v, \A x \in R : v[x] \in Int,
         NEW r, \A c \in C : r[c] \in Int, \A c \in C : c \notin L => r[c] = 0,
         \A c \in L : v[at[c]] = w[at[c]] + r[c],
         \A x \in R : (\A c \in L : at[c] # x) => v[x] = w[x]
  PROVE  Sum(v, R) = Sum(w, R) + Sum(r, C)
<1> DEFINE rr(T) == [c \in C |-> IF c \in T THEN r[c] ELSE 0]
           vv(T) == [x \in R |-> IF \E c \in T : at[c] = x THEN v[x] ELSE w[x]]
           Bad == {T \in SUBSET L : Sum(vv(T), R) # Sum(w, R) + Sum(rr(T), C)}
<1>1. L \notin Bad => Sum(v, R) = Sum(w, R) + Sum(r, C)
  <2>1. \A x \in R : vv(L)[x] = v[x]
    OBVIOUS
  <2>2. \A c \in C : rr(L)[c] = r[c]
    OBVIOUS
  <2>3. L \notin Bad => Sum(vv(L), R) = Sum(w, R) + Sum(rr(L), C)
    OBVIOUS
  <2> HIDE DEF rr, vv, Bad
  <2>4. Sum(vv(L), R) = Sum(v, R)
    BY <2>1, SumSame
  <2>5. Sum(rr(L), C) = Sum(r, C)
    BY <2>2, SumSame
  <2> QED
    BY <2>3, <2>4, <2>5
<1>2. SUFFICES ASSUME Bad # {} PROVE FALSE
  <2> HIDE DEF Bad
  <2> QED
    BY <1>1
<1>3. PICK T \in Bad : IsFiniteSet(T) /\ \A u \in SUBSET T : u # T => u \notin Bad
  <2>1. Bad \subseteq SUBSET L /\ IsFiniteSet(L)
    BY FS_Subset
  <2> HIDE DEF Bad
  <2> QED
    BY <1>2, <2>1, SmallestSubset
<1>4. Sum(vv(T), R) # Sum(w, R) + Sum(rr(T), C) /\ T \subseteq L
  BY <1>3
<1>5. ASSUME NEW U \in SUBSET L
      PROVE  /\ \A x \in R : vv(U)[x] \in Int
             /\ \A c \in C : rr(U)[c] \in Int
             /\ Sum(vv(U), R) \in Int /\ Sum(rr(U), C) \in Int
  <2>1. \A x \in R : vv(U)[x] \in Int
    OBVIOUS
  <2>2. \A c \in C : rr(U)[c] \in Int
    OBVIOUS
  <2> HIDE DEF vv, rr
  <2> QED
    BY <2>1, <2>2, SumInt
<1>6. Sum(w, R) \in Int
  BY SumInt
<1>7. CASE T = {}
  <2>1. \A x \in R : vv(T)[x] = w[x]
    BY <1>7
  <2>2. \A c \in C : rr(T)[c] = 0
    BY <1>7
  <2> HIDE DEF vv, rr, Bad
  <2>3. Sum(vv(T), R) = Sum(w, R)
    BY <2>1, SumSame
  <2>4. Sum(rr(T), C) = 0
    BY <2>2, SumZero
  <2> QED
    BY <1>4, <1>6, <2>3, <2>4
<1>8. CASE T # {}
  <2> DEFINE e == Pick(T)
             u == T \ {e}
  <2>1. e \in T /\ e \in L /\ e \in C /\ at[e] \in R
    BY <1>4, <1>8, PickIn
  <2> HIDE DEF e
  <2>2. u \in SUBSET T /\ u # T /\ u \in SUBSET L
    BY <1>4, <2>1
  <2>3. Sum(vv(u), R) = Sum(w, R) + Sum(rr(u), C)
    BY <1>3, <2>2
  <2>4. /\ \A x \in R : x # at[e] => vv(T)[x] = vv(u)[x]
        /\ vv(T)[at[e]] = w[at[e]] + r[e] /\ vv(u)[at[e]] = w[at[e]]
    BY <1>4, <2>1
  <2>5. /\ \A c \in C : c # e => rr(T)[c] = rr(u)[c]
        /\ rr(T)[e] = r[e] /\ rr(u)[e] = 0
    BY <1>4, <2>1
  <2> HIDE DEF vv, rr, Bad, u
  <2>6. Sum(vv(T), R) = Sum(vv(u), R) + (vv(T)[at[e]] - vv(u)[at[e]])
    <3>1. (\A x \in R : vv(T)[x] \in Int) /\ (\A x \in R : vv(u)[x] \in Int)
      BY <1>4, <1>5, <2>2
    <3>2. PICK a, b, y : a = vv(T) /\ b = vv(u) /\ y = at[e]
      OBVIOUS
    <3>3. y \in R /\ \A x \in R : x # y => a[x] = b[x]
      BY <2>1, <2>4, <3>2
    <3>4. (\A x \in R : a[x] \in Int) /\ (\A x \in R : b[x] \in Int)
      BY <3>1, <3>2
    <3>5. Sum(a, R) = Sum(b, R) + (a[y] - b[y])
      BY <3>3, <3>4, SumChange
    <3> QED
      BY <3>2, <3>5
  <2>7. Sum(rr(T), C) = Sum(rr(u), C) + (rr(T)[e] - rr(u)[e])
    <3>1. (\A c \in C : rr(T)[c] \in Int) /\ (\A c \in C : rr(u)[c] \in Int)
      BY <1>4, <1>5, <2>2
    <3>2. PICK a, b : a = rr(T) /\ b = rr(u)
      OBVIOUS
    <3>3. Sum(a, C) = Sum(b, C) + (a[e] - b[e])
      BY <2>1, <2>5, <3>1, <3>2, SumChange
    <3> QED
      BY <3>2, <3>3
  <2>8. Sum(rr(u), C) \in Int /\ r[e] \in Int /\ w[at[e]] \in Int
    BY <1>5, <2>1, <2>2
  <2> QED
    BY <1>4, <1>6, <2>3, <2>4, <2>5, <2>6, <2>7, <2>8
<1> QED
  BY <1>7, <1>8

-----------------------------------------------------------------------------
(* What the accounting rests on besides its sum. *)

(* One client at a time holds a file's data lock. *)
Exclusive(p, h) ==
  \A c, d \in Clients : p[c] \in Locking /\ p[d] \in Locking /\ h[c] = h[d] => c = d

(* A file nothing refers to has no bytes. *)
UnusedEmpty == \A f \in Files : f \notin Referenced(tree, fd) => data[f] = <<>>

(* set_len(path) keeps the entry of its file in the tree. *)
PathHeld ==
  \A c \in Clients : pc[c] \in {"path_wait", "path_resizing"} =>
    \E k \in DOMAIN tree : tree[k] = fd[c]

(* A write in hand has reserved no less than the file has. *)
Growing == \A c \in Clients : pc[c] \in {"filling", "undoing"} => Len(data[fd[c]]) <= goal[c]

(* Outside calls and handles a client refers to no file. *)
NoHandle == \A c \in Clients : pc[c] = "idle" => fd[c] = None

LockInv == Exclusive(pc, fd) /\ UnusedEmpty /\ PathHeld /\ Growing /\ NoHandle

(* Which files the tree refers to after an insertion. *)
LEMMA InsertReferences ==
  ASSUME NEW t, NEW h, NEW k, NEW node
  PROVE  /\ \A f \in Referenced(Insert(t, k, node), h) : f \in Referenced(t, h) \/ f = node
         /\ k \notin DOMAIN t => Referenced(t, h) \subseteq Referenced(Insert(t, k, node), h)
         /\ node \in Files => node \in Referenced(Insert(t, k, node), h)
<1> DEFINE one == [x \in {k} |-> node]
           u == Over(one, t)
           new == Insert(t, k, node)
<1>1. /\ DOMAIN u = DOMAIN t \cup {k} /\ u[k] = node
      /\ \A x \in DOMAIN t : x # k => u[x] = t[x]
  BY DEF Over
<1>2. /\ DOMAIN new = DOMAIN u \cup Ancestors(k)
      /\ \A x \in DOMAIN u : new[x] = u[x]
      /\ \A x \in Ancestors(k) : x \notin DOMAIN u => new[x] = "dir"
  BY DEF Insert, insert_ancestor_dirs, Over
<1> HIDE DEF u, new
<1>3. "dir" \notin Files
  BY VolumeAssumption
<1>4. ASSUME NEW x \in DOMAIN new, new[x] \in Files
      PROVE  new[x] = node \/ (x \in DOMAIN t /\ t[x] = new[x])
  BY <1>1, <1>2, <1>3, <1>4
<1>5. k \notin DOMAIN t => \A x \in DOMAIN t : x \in DOMAIN new /\ new[x] = t[x]
  BY <1>1, <1>2
<1>6. k \in DOMAIN new /\ new[k] = node
  BY <1>1, <1>2
<1>7. Insert(t, k, node) = new
  BY DEF new
<1> QED
  BY <1>4, <1>5, <1>6, <1>7 DEF Referenced

LEMMA LockInvInit == Init => LockInv
BY DEF Init, LockInv, Exclusive, UnusedEmpty, PathHeld, Growing, NoHandle, Locking, Referenced

(* What DropFiles leaves of the lock invariant, whatever the tree becomes. *)
LEMMA DropFilesLocks ==
  ASSUME Inv, LockInv, EntriesFree, DropFiles(tree', fd), UNCHANGED <<pc, fd, call>>
  PROVE  LockInv'
<1> USE DEF Inv, LockInv
<1> DEFINE dead == Referenced(tree, fd) \ Referenced(tree', fd)
<1>1. data' = [f \in Files |-> IF f \in dead THEN <<>> ELSE data[f]]
  BY DEF DropFiles
<1> HIDE DEF dead
<1>2. Exclusive(pc, fd)' /\ NoHandle' /\ PathHeld'
  BY DEF Exclusive, NoHandle, PathHeld, EntriesFree
<1>3. Growing'
  <2> SUFFICES ASSUME NEW c \in Clients, pc[c] \in {"filling", "undoing"}
               PROVE  Len(data'[fd[c]]) <= goal[c]
    BY DEF Growing, call
  <2>1. fd[c] \in Files /\ goal[c] \in Nat /\ Len(data[fd[c]]) <= goal[c]
    BY DEF HandleInv, TypeOK, Growing
  <2> QED
    BY <1>1, <2>1
<1>4. UnusedEmpty'
  <2> SUFFICES ASSUME NEW f \in Files, f \notin Referenced(tree', fd) PROVE data'[f] = <<>>
    BY DEF UnusedEmpty, Referenced
  <2> QED
    BY <1>1 DEF UnusedEmpty, dead
<1> QED
  BY <1>2, <1>3, <1>4

LEMMA LockInvStep == Inv /\ LockInv /\ [Next]_vars => LockInv'
<1> SUFFICES ASSUME Inv, LockInv, [Next]_vars PROVE LockInv'
  OBVIOUS
<1> USE DEF Inv, LockInv
<1>0. None \notin Files
  BY VolumeAssumption
<1>1. ASSUME NEW c \in Clients, NEW k \in Keys, open(c, k) \/ SetLenByPath(c, k) PROVE LockInv'
  <2>1. PICK p \in {"open", "path_wait"} :
          /\ pc[c] = "idle" /\ pc' = [pc EXCEPT ![c] = p] /\ k \in DOMAIN tree /\ tree[k] \in Files
          /\ fd' = [fd EXCEPT ![c] = tree[k]] /\ UNCHANGED <<tree, data, goal>>
    BY <1>1 DEF open, SetLenByPath, At, call
  <2>2. fd[c] = None
    BY <2>1 DEF NoHandle
  <2>3. \A f \in Referenced(tree, fd) : f \in Referenced(tree, fd')
    BY <1>0, <2>1, <2>2 DEF Referenced, TypeOK
  <2>4. UnusedEmpty'
    BY <2>1, <2>3 DEF UnusedEmpty
  <2>5. Exclusive(pc, fd)' /\ NoHandle' /\ PathHeld'
    BY <2>1 DEF Exclusive, NoHandle, PathHeld, TypeOK, Locking
  <2>6. Growing'
    BY <2>1 DEF Growing, TypeOK
  <2> QED
    BY <2>4, <2>5, <2>6
<1>2. ASSUME NEW c \in Clients, NEW k \in Keys, NEW opts \in OpenModes, open_write(c, k, opts)
      PROVE  LockInv'
  <2>1. PICK p \in {"truncate", "position"} :
          /\ pc[c] = "idle" /\ EntriesFree /\ pc' = [pc EXCEPT ![c] = p] /\ UNCHANGED <<data, goal>>
    BY <1>2 DEF open_write
  <2>2. PICK f \in Files : fd' = [fd EXCEPT ![c] = f]
    BY <1>2, FreshType DEF open_write
  <2>3. fd[c] = None
    BY <2>1 DEF NoHandle
  <2>4. \A g \in Referenced(tree, fd) : g \in Referenced(tree', fd)
    BY <1>2, InsertReferences DEF open_write
  <2>5. \A g \in Referenced(tree, fd) : g \in Referenced(tree', fd')
    BY <1>0, <2>2, <2>3, <2>4 DEF Referenced, TypeOK
  <2>6. UnusedEmpty'
    BY <2>1, <2>5 DEF UnusedEmpty
  <2>7. Exclusive(pc, fd)' /\ NoHandle'
    BY <2>1, <2>2 DEF Exclusive, NoHandle, TypeOK, Locking
  <2>8. PathHeld'
    BY <2>1, <2>2 DEF PathHeld, TypeOK, EntriesFree
  <2>9. Growing'
    BY <2>1, <2>2 DEF Growing, TypeOK
  <2> QED
    BY <2>6, <2>7, <2>8, <2>9
<1>3. ASSUME NEW c \in Clients, NEW p \in PC, pc' = [pc EXCEPT ![c] = p], fd[c] \in Files,
             UNCHANGED <<tree, data, fd>>, NEW q \in Nat, goal' = [goal EXCEPT ![c] = q],
             p \in {"filling", "undoing"} => Len(data[fd[c]]) <= q,
             p = "path_resizing" => pc[c] = "path_wait", p \notin {"path_wait", "idle"},
             p \in Locking => DataFree(fd[c])
      PROVE  LockInv'
  <2>1. UnusedEmpty'
    BY <1>3 DEF UnusedEmpty
  <2>2. Exclusive(pc, fd)'
    BY <1>3 DEF Exclusive, TypeOK, DataFree
  <2>3. NoHandle' /\ PathHeld'
    BY <1>3 DEF NoHandle, PathHeld, TypeOK
  <2>4. Growing'
    BY <1>3 DEF Growing, TypeOK
  <2> QED
    BY <2>1, <2>2, <2>3, <2>4
<1>4. ASSUME NEW c \in Clients, TruncateOnOpen(c) PROVE LockInv'
  <2>1. fd[c] \in Files /\ "truncating" \in PC
    BY <1>4 DEF TruncateOnOpen, At, HandleInv, PC
  <2> QED
    BY <1>3, <1>4, <2>1 DEF TruncateOnOpen, At
<1>5. ASSUME NEW c \in Clients, Position(c) PROVE LockInv'
  <2>1. fd[c] \in Files /\ "open" \in PC /\ "open" \notin Locking
    BY <1>5 DEF Position, At, HandleInv, PC, Locking
  <2>2. goal' = [goal EXCEPT ![c] = goal[c]] /\ goal[c] \in Nat
    BY <1>5 DEF Position, TypeOK
  <2>3. pc' = [pc EXCEPT ![c] = "open"] /\ UNCHANGED <<tree, data, fd>>
    BY <1>5 DEF Position, At
  <2> QED
    BY <1>3, <2>1, <2>2, <2>3
<1>6. ASSUME UNCHANGED <<tree, data, pc, fd, goal>> PROVE LockInv'
  BY <1>6 DEF Exclusive, UnusedEmpty, PathHeld, Growing, NoHandle, Referenced
<1>7. ASSUME NEW c \in Clients, NEW n \in WriteLens, read(c, n) PROVE LockInv'
  BY <1>6, <1>7 DEF read
<1>8. ASSUME NEW c \in Clients, NEW from \in {"start", "end", "current"}, NEW off \in Offsets,
             seek(c, from, off)
      PROVE  LockInv'
  BY <1>6, <1>8 DEF seek
<1>9. ASSUME NEW c \in Clients, NEW n \in WriteLens, write(c, n) PROVE LockInv'
  <2> DEFINE old == Len(data[fd[c]])
             desired == Greatest(pos[c] + n, old)
             granted == reserve(old, desired)
  <2>1. PICK p \in {"undoing", "filling"} :
          /\ pc[c] = "open" /\ pc' = [pc EXCEPT ![c] = p] /\ DataFree(fd[c])
          /\ goal' = [goal EXCEPT ![c] = granted] /\ UNCHANGED <<tree, data, fd>>
    BY <1>9 DEF write
  <2>2. fd[c] \in Files /\ old \in Nat /\ n \in Nat /\ pos[c] \in Nat /\ p \in PC
    BY <2>1, VolumeAssumption DEF HandleInv, TypeOK, PC
  <2>3. desired \in Nat /\ old <= desired
    BY <2>2 DEF Greatest
  <2>4. granted \in Nat /\ old <= granted
    <3> HIDE DEF old, desired
    <3> QED
      BY <2>2, <2>3, ReserveBounds DEF TypeOK, WithinCapacity
  <2> HIDE DEF granted
  <2> QED
    BY <1>3, <2>1, <2>2, <2>4
<1>10. ASSUME NEW c \in Clients, NEW len \in SetLens, set_len(c, len) PROVE LockInv'
  <2>1. fd[c] \in Files /\ "resizing" \in PC /\ len \in Nat
    BY <1>10, VolumeAssumption DEF set_len, At, HandleInv, PC
  <2> QED
    BY <1>3, <1>10, <2>1 DEF set_len, At
<1>11. ASSUME NEW c \in Clients, pc[c] \in {"path_wait", "path_resizing"},
              pc' = [pc EXCEPT ![c] = "idle"], fd' = [fd EXCEPT ![c] = None], UNCHANGED tree,
              \A d \in Clients : d # c => goal'[d] = goal[d],
              \A f \in Files : data'[f] = data[f] \/ (f = fd[c] /\ pc[c] \in Locking)
       PROVE  LockInv'
  <2>1. \A f \in Files : f \in Referenced(tree, fd) => f \in Referenced(tree, fd')
    BY <1>11 DEF Referenced, PathHeld, TypeOK
  <2>2. fd[c] \in Referenced(tree, fd)
    BY <1>11 DEF Referenced, HandleInv
  <2>3. UnusedEmpty'
    BY <1>11, <2>1, <2>2 DEF UnusedEmpty
  <2>4. Exclusive(pc, fd)' /\ NoHandle' /\ PathHeld'
    BY <1>11 DEF Exclusive, NoHandle, PathHeld, TypeOK, Locking
  <2>5. Growing'
    BY <1>11 DEF Growing, Exclusive, TypeOK, HandleInv, Locking
  <2> QED
    BY <2>3, <2>4, <2>5
<1>12. ASSUME NEW c \in Clients, NEW len \in SetLens, ResizeByPath(c, len) PROVE LockInv'
  <2>1. fd[c] \in Files /\ "path_resizing" \in PC /\ len \in Nat
    BY <1>12, VolumeAssumption DEF ResizeByPath, HandleInv, PC
  <2>2. CASE CanResize(Len(data[fd[c]]), len)
    BY <1>3, <1>12, <2>1, <2>2 DEF ResizeByPath
  <2>3. CASE ~ CanResize(Len(data[fd[c]]), len)
    BY <1>11, <1>12, <2>3 DEF ResizeByPath
  <2> QED
    BY <2>2, <2>3
<1>13. ASSUME NEW c \in Clients, NEW p \in {"open", "position"}, pc[c] \in Locking,
              pc' = [pc EXCEPT ![c] = p], UNCHANGED <<tree, fd>>,
              \A d \in Clients : d # c => goal'[d] = goal[d],
              \A f \in Files : data'[f] = data[f] \/ f = fd[c]
       PROVE  LockInv'
  <2>1. fd[c] \in Referenced(tree, fd)
    BY <1>13 DEF Referenced, HandleInv, Locking
  <2>2. UnusedEmpty'
    BY <1>13, <2>1 DEF UnusedEmpty, Referenced
  <2>3. Exclusive(pc, fd)' /\ NoHandle' /\ PathHeld'
    BY <1>13 DEF Exclusive, NoHandle, PathHeld, TypeOK, Locking
  <2>4. Growing'
    BY <1>13 DEF Growing, Exclusive, TypeOK, HandleInv, Locking
  <2> QED
    BY <2>2, <2>3, <2>4
<1>14. ASSUME NEW c \in Clients, Fill(c) \/ Undo(c) PROVE LockInv'
  <2>1. /\ pc[c] \in Locking /\ pc' = [pc EXCEPT ![c] = "open"] /\ UNCHANGED <<tree, fd>>
        /\ goal' = [goal EXCEPT ![c] = 0]
    BY <1>14 DEF Fill, Undo, At, Return, Locking
  <2>2. \A f \in Files : data'[f] = data[f] \/ f = fd[c]
    BY <1>14 DEF Fill, Undo, TypeOK
  <2> QED
    BY <1>13, <2>1, <2>2 DEF TypeOK
<1>15. ASSUME NEW c \in Clients, ResizeData(c) PROVE LockInv'
  <2>1. goal' = [goal EXCEPT ![c] = 0] /\ UNCHANGED tree
    BY <1>15 DEF ResizeData, Return
  <2>2. \A f \in Files : data'[f] = data[f] \/ f = fd[c]
    BY <1>15 DEF ResizeData, TypeOK
  <2>3. CASE pc[c] = "path_resizing"
    BY <1>11, <1>15, <2>1, <2>2, <2>3 DEF ResizeData, At, TypeOK, Locking
  <2>4. CASE pc[c] \in {"truncating", "resizing"}
    BY <1>13, <1>15, <2>1, <2>2, <2>4 DEF ResizeData, At, TypeOK, Locking
  <2> QED
    BY <1>15, <2>3, <2>4 DEF ResizeData, At
<1>16. ASSUME NEW c \in Clients, Close(c) PROVE LockInv'
  <2> DEFINE dead == Referenced(tree, fd) \ Referenced(tree, fd')
  <2>1. /\ pc[c] = "open" /\ pc' = [pc EXCEPT ![c] = "idle"] /\ fd' = [fd EXCEPT ![c] = None]
        /\ data' = [f \in Files |-> IF f \in dead THEN <<>> ELSE data[f]]
        /\ UNCHANGED <<tree, goal>>
    BY <1>16 DEF Close, At, DropFiles
  <2>2. UnusedEmpty'
    BY <2>1 DEF UnusedEmpty
  <2> HIDE DEF dead
  <2>3. Exclusive(pc, fd)' /\ NoHandle' /\ PathHeld'
    BY <2>1 DEF Exclusive, NoHandle, PathHeld, TypeOK, Locking
  <2>4. Growing'
    <3> SUFFICES ASSUME NEW d \in Clients, pc'[d] \in {"filling", "undoing"}
                 PROVE  Len(data'[fd'[d]]) <= goal'[d]
      BY DEF Growing
    <3>1. /\ d # c /\ fd'[d] = fd[d] /\ fd[d] \in Files
          /\ goal[d] \in Nat /\ Len(data[fd[d]]) <= goal[d]
      BY <2>1 DEF HandleInv, TypeOK, Growing
    <3> QED
      BY <2>1, <3>1
  <2> QED
    BY <2>2, <2>3, <2>4
<1>17. ASSUME NEW k \in Keys, remove(k) PROVE LockInv'
  BY <1>17, DropFilesLocks DEF remove
<1>18. ASSUME NEW from \in Keys, NEW to \in Keys, Rename(from, to) PROVE LockInv'
  BY <1>18, DropFilesLocks DEF Rename
<1>19. ASSUME NEW k \in Keys, create_dir(k) PROVE LockInv'
  <2>1. /\ EntriesFree /\ k \notin DOMAIN tree /\ tree' = Insert(tree, k, "dir")
        /\ UNCHANGED <<data, pc, fd, goal>>
    BY <1>19 DEF create_dir, call
  <2>2. UnusedEmpty'
    <3>1. Referenced(tree, fd) \subseteq Referenced(tree', fd')
      BY <2>1, InsertReferences
    <3> QED
      BY <2>1, <3>1 DEF UnusedEmpty
  <2> QED
    BY <2>1, <2>2 DEF Exclusive, PathHeld, Growing, NoHandle, EntriesFree
<1>20. ASSUME NEW k \in MountKeys, mount(k) \/ mount_writable(k) \/ Unmount(k) PROVE LockInv'
  BY <1>20, DropFilesLocks DEF mount, mount_writable, InsertMount, Unmount
<1>21. CASE UNCHANGED vars
  BY <1>6, <1>21 DEF vars
<1> QED
  BY <1>1, <1>2, <1>4, <1>5, <1>7, <1>8, <1>9, <1>10, <1>12, <1>14, <1>15, <1>16, <1>17, <1>18,
     <1>19, <1>20, <1>21 DEF Next

-----------------------------------------------------------------------------
(* The account of a file: what the volume has counted for it. *)

(* The length its holder has reserved for it, or the length it has. *)
AccountOf(p, h, g, d) ==
  [f \in Files |->
     IF \E c \in Clients : p[c] \in Locking /\ h[c] = f
     THEN g[CHOOSE c \in Clients : p[c] \in Locking /\ h[c] = f]
     ELSE Len(d[f])]

Accounted == used = Sum(AccountOf(pc, fd, goal, data), Files)

LEMMA AccountHeld ==
  ASSUME NEW p, NEW h, NEW g, NEW d, Exclusive(p, h),
         NEW c \in Clients, p[c] \in Locking, h[c] \in Files
  PROVE  AccountOf(p, h, g, d)[h[c]] = g[c]
<1> DEFINE e == CHOOSE x \in Clients : p[x] \in Locking /\ h[x] = h[c]
<1>1. e \in Clients /\ p[e] \in Locking /\ h[e] = h[c]
  OBVIOUS
<1>2. AccountOf(p, h, g, d)[h[c]] = g[e]
  BY DEF AccountOf
<1> HIDE DEF e
<1>3. e = c
  BY <1>1 DEF Exclusive
<1> QED
  BY <1>2, <1>3

LEMMA AccountFree ==
  ASSUME NEW p, NEW h, NEW g, NEW d, NEW f \in Files,
         \A c \in Clients : ~(p[c] \in Locking /\ h[c] = f)
  PROVE  AccountOf(p, h, g, d)[f] = Len(d[f])
BY DEF AccountOf

LEMMA AccountType ==
  ASSUME NEW p, NEW h, NEW g \in [Clients -> Nat], NEW d \in [Files -> Seq(0..1)], Exclusive(p, h)
  PROVE  \A f \in Files : AccountOf(p, h, g, d)[f] \in Nat
<1> SUFFICES ASSUME NEW f \in Files PROVE AccountOf(p, h, g, d)[f] \in Nat
  OBVIOUS
<1>1. CASE \E c \in Clients : p[c] \in Locking /\ h[c] = f
  <2>1. PICK c \in Clients : p[c] \in Locking /\ h[c] = f
    BY <1>1
  <2>2. AccountOf(p, h, g, d)[f] = g[c]
    BY <2>1, AccountHeld
  <2> QED
    BY <2>2
<1>2. CASE ~ \E c \in Clients : p[c] \in Locking /\ h[c] = f
  <2>1. AccountOf(p, h, g, d)[f] = Len(d[f])
    BY <1>2, AccountFree
  <2> QED
    BY <2>1
<1> QED
  BY <1>1, <1>2

(* No file has a larger account than the volume has in use. *)
LEMMA AccountWithinUsed ==
  ASSUME TypeOK, LockInv, Accounted, NEW f \in Files
  PROVE  AccountOf(pc, fd, goal, data)[f] <= used
<1> DEFINE A == AccountOf(pc, fd, goal, data)
<1>1. (\A x \in Files : A[x] \in Nat) /\ used = Sum(A, Files)
  <2>1. goal \in [Clients -> Nat] /\ data \in [Files -> Seq(0..1)] /\ Exclusive(pc, fd)
    BY DEF TypeOK, LockInv
  <2> QED
    BY <2>1, AccountType DEF Accounted
<1>2. IsFiniteSet(Files) /\ IsFiniteSet(Files \ {f})
  BY FiniteAssumption, FS_Subset
<1> HIDE DEF A
<1>3. Sum(A, Files) = A[f] + Sum(A, Files \ {f})
  BY <1>1, <1>2, SumRemove
<1>4. Sum(A, Files \ {f}) \in Nat
  BY <1>1, <1>2, SumNat
<1>5. A[f] <= used
  BY <1>1, <1>3, <1>4
<1> QED
  BY <1>5 DEF A

(* The account of a file no step of its holder touches. *)
LEMMA AccountSame ==
  ASSUME NEW p, NEW h, NEW g, NEW d, NEW p1, NEW h1, NEW g1, NEW d1,
         Exclusive(p, h), Exclusive(p1, h1), NEW f \in Files,
         \A c \in Clients : (p[c] \in Locking /\ h[c] = f) <=> (p1[c] \in Locking /\ h1[c] = f),
         \A c \in Clients : p[c] \in Locking /\ h[c] = f => g[c] = g1[c],
         (\A c \in Clients : ~(p[c] \in Locking /\ h[c] = f)) => Len(d[f]) = Len(d1[f])
  PROVE  AccountOf(p, h, g, d)[f] = AccountOf(p1, h1, g1, d1)[f]
<1>1. CASE \E c \in Clients : p[c] \in Locking /\ h[c] = f
  <2>1. PICK c \in Clients : p[c] \in Locking /\ h[c] = f
    BY <1>1
  <2>2. AccountOf(p, h, g, d)[f] = g[c]
    BY <2>1, AccountHeld
  <2>3. AccountOf(p1, h1, g1, d1)[f] = g1[c]
    BY <2>1, AccountHeld
  <2> QED
    BY <2>1, <2>2, <2>3
<1>2. CASE \A c \in Clients : ~(p[c] \in Locking /\ h[c] = f)
  <2>1. AccountOf(p, h, g, d)[f] = Len(d[f])
    BY <1>2, AccountFree
  <2>2. AccountOf(p1, h1, g1, d1)[f] = Len(d1[f])
    BY <1>2, AccountFree
  <2> QED
    BY <1>2, <2>1, <2>2
<1> QED
  BY <1>1, <1>2

(* Steps that leave every account, or every account but one, as it is. *)
LEMMA AccountsKept ==
  ASSUME Accounted, used' = used,
         \A f \in Files : AccountOf(pc, fd, goal, data)'[f] = AccountOf(pc, fd, goal, data)[f]
  PROVE  Accounted'
<1> DEFINE A == AccountOf(pc, fd, goal, data)
<1>1. PICK B, D : B = A /\ D = A'
  OBVIOUS
<1>2. Sum(D, Files) = Sum(B, Files)
  BY <1>1, FiniteAssumption, SumSame
<1> QED
  BY <1>1, <1>2 DEF Accounted

LEMMA OneAccountChanges ==
  ASSUME TypeOK, LockInv, TypeOK', LockInv', Accounted,
         NEW f \in Files,
         used' = used + (AccountOf(pc, fd, goal, data)'[f] - AccountOf(pc, fd, goal, data)[f]),
         \A x \in Files : x # f =>
           AccountOf(pc, fd, goal, data)'[x] = AccountOf(pc, fd, goal, data)[x]
  PROVE  Accounted'
<1> DEFINE A == AccountOf(pc, fd, goal, data)
<1>1. PICK B, D : B = A /\ D = A'
  OBVIOUS
<1>2. \A x \in Files : B[x] \in Nat
  <2>1. goal \in [Clients -> Nat] /\ data \in [Files -> Seq(0..1)] /\ Exclusive(pc, fd)
    BY DEF TypeOK, LockInv
  <2> QED
    BY <1>1, <2>1, AccountType
<1>3. \A x \in Files : D[x] \in Nat
  <2>1. goal' \in [Clients -> Nat] /\ data' \in [Files -> Seq(0..1)] /\ Exclusive(pc', fd')
    BY DEF TypeOK, LockInv, Exclusive
  <2>2. D = AccountOf(pc', fd', goal', data')
    BY <1>1 DEF AccountOf
  <2> QED
    BY <2>1, <2>2, AccountType
<1>4. used' = used + (D[f] - B[f]) /\ used = Sum(B, Files) /\ \A x \in Files : x # f => D[x] = B[x]
  BY <1>1 DEF Accounted
<1>5. Sum(D, Files) = Sum(B, Files) + (D[f] - B[f])
  <2>1. (\A x \in Files : B[x] \in Int) /\ (\A x \in Files : D[x] \in Int)
    BY <1>2, <1>3
  <2> QED
    BY <1>4, <2>1, FiniteAssumption, SumChange
<1>6. used' = Sum(D, Files)
  BY <1>4, <1>5
<1> QED
  BY <1>1, <1>6 DEF Accounted

(* The sums of the model are sums of functions. *)
LEMMA LengthSum ==
  ASSUME NEW S \in SUBSET Files
  PROVE  MapThenSumSet(LAMBDA f : Len(data[f]), S) = Sum([f \in Files |-> Len(data[f])], S)
<1> DEFINE w == [f \in Files |-> Len(data[f])]
           Fold(g) == g = [s \in SUBSET S |->
                             IF s = {} THEN 0 ELSE Len(data[Pick(s)]) + g[s \ {Pick(s)}]]
           fold == CHOOSE g : Fold(g)
<1>1. MapThenSumSet(LAMBDA f : Len(data[f]), S) = fold[S]
  BY DEF MapThenSumSet, MapThenFoldSet, Pick
<1>2. IsFiniteSet(S)
  BY FiniteAssumption, FS_Subset
<1>3. \A s \in SUBSET S : s # {} => w[Pick(s)] = Len(data[Pick(s)])
  BY PickIn
<1>4. \A g : Fold(g) <=> Sums(g, w, S)
  <2> HIDE DEF w
  <2> QED
    BY <1>3 DEF Sums
<1>5. \E g : Sums(g, w, S)
  BY <1>2, SumsExist
<1> HIDE DEF Fold, w
<1>6. Sums(fold, w, S)
  BY <1>4, <1>5
<1> HIDE DEF fold
<1>7. Sum(w, S) = fold[S]
  BY <1>2, <1>6, SumIs
<1> QED
  BY <1>1, <1>7 DEF w

(* A client takes a free data lock with a reservation q. *)
LEMMA AccountReserve ==
  ASSUME Inv, LockInv, Inv', LockInv', Accounted, NEW c \in Clients, pc[c] \notin Locking,
         pc'[c] \in Locking, \A d \in Clients : d # c => pc'[d] = pc[d] /\ goal'[d] = goal[d],
         UNCHANGED <<data, fd>>, DataFree(fd[c]), fd[c] \in Files,
         used' = used + (goal'[c] - Len(data[fd[c]]))
  PROVE  Accounted'
<1>1. Exclusive(pc, fd) /\ Exclusive(pc', fd')
  BY DEF LockInv, Exclusive
<1>2. AccountOf(pc, fd, goal, data)[fd[c]] = Len(data[fd[c]])
  BY AccountFree DEF DataFree
<1>3. AccountOf(pc', fd', goal', data')[fd[c]] = goal'[c]
  BY <1>1, AccountHeld
<1>4. ASSUME NEW x \in Files, x # fd[c]
      PROVE  AccountOf(pc', fd', goal', data')[x] = AccountOf(pc, fd, goal, data)[x]
  BY <1>1, <1>4, AccountSame
<1> QED
  BY <1>2, <1>3, <1>4, OneAccountChanges DEF Inv

(* A client gives its data lock back, its file now of the length len. *)
LEMMA AccountSettle ==
  ASSUME Inv, LockInv, Inv', LockInv', Accounted, NEW c \in Clients, pc[c] \in Locking,
         pc'[c] \notin Locking,
         \A d \in Clients : d # c => pc'[d] = pc[d] /\ goal'[d] = goal[d] /\ fd'[d] = fd[d],
         \A f \in Files : f # fd[c] => data'[f] = data[f], fd[c] \in Files,
         used' = used + (Len(data'[fd[c]]) - goal[c])
  PROVE  Accounted'
<1>1. Exclusive(pc, fd) /\ Exclusive(pc', fd')
  BY DEF LockInv, Exclusive
<1>2. AccountOf(pc, fd, goal, data)[fd[c]] = goal[c]
  BY <1>1, AccountHeld
<1>3. AccountOf(pc', fd', goal', data')[fd[c]] = Len(data'[fd[c]])
  <2>1. \A d \in Clients : ~(pc'[d] \in Locking /\ fd'[d] = fd[c])
    BY <1>1 DEF Exclusive
  <2> QED
    BY <2>1, AccountFree
<1>4. ASSUME NEW x \in Files, x # fd[c]
      PROVE  AccountOf(pc', fd', goal', data')[x] = AccountOf(pc, fd, goal, data)[x]
  BY <1>1, <1>4, AccountSame
<1> QED
  BY <1>2, <1>3, <1>4, OneAccountChanges DEF Inv

(* No data lock changes hands and no buffer changes. *)
LEMMA AccountIdle ==
  ASSUME LockInv, LockInv', Accounted, UNCHANGED <<data, used>>,
         \A c \in Clients : pc[c] \in Locking <=> pc'[c] \in Locking,
         \A c \in Clients : pc[c] \in Locking => fd'[c] = fd[c] /\ goal'[c] = goal[c]
  PROVE  Accounted'
<1>1. Exclusive(pc, fd) /\ Exclusive(pc', fd')
  BY DEF LockInv, Exclusive
<1>2. ASSUME NEW x \in Files
      PROVE  AccountOf(pc', fd', goal', data')[x] = AccountOf(pc, fd, goal, data)[x]
  BY <1>1, AccountSame
<1> QED
  BY <1>2, AccountsKept

(***************************************************************************)
(* Files whose last reference goes: none is locked, so what is released is *)
(* what their accounts hold.                                               *)
(***************************************************************************)
LEMMA AccountDrop ==
  ASSUME Inv, LockInv, Inv', LockInv', Accounted, DropFiles(tree', fd'),
         \A c \in Clients : pc[c] \in Locking <=> pc'[c] \in Locking,
         \A c \in Clients : pc[c] \in Locking => fd'[c] = fd[c] /\ goal'[c] = goal[c]
  PROVE  Accounted'
<1> DEFINE dead == Referenced(tree, fd) \ Referenced(tree', fd')
           w == [f \in Files |-> Len(data[f])]
<1>0. dead \in SUBSET Files
  BY DEF Referenced
<1>1. /\ used' = SatSub(used, Sum(w, dead))
      /\ data' = [f \in Files |-> IF f \in dead THEN <<>> ELSE data[f]]
  BY <1>0, LengthSum DEF DropFiles, release
<1>2. Exclusive(pc, fd) /\ Exclusive(pc', fd')
  BY DEF LockInv, Exclusive
<1>3. PICK A, B : A = AccountOf(pc, fd, goal, data) /\ B = AccountOf(pc', fd', goal', data')
  OBVIOUS
<1>4. \A f \in dead : A[f] = w[f] /\ B[f] = 0
  <2> SUFFICES ASSUME NEW f \in dead PROVE A[f] = w[f] /\ B[f] = 0
    OBVIOUS
  <2>1. f \in Files /\ \A c \in Clients : fd'[c] # f
    BY DEF Referenced
  <2>2. \A c \in Clients : ~(pc[c] \in Locking /\ fd[c] = f)
    BY <2>1
  <2>3. A[f] = w[f]
    BY <1>3, <2>1, <2>2, AccountFree
  <2>4. B[f] = Len(data'[f])
    BY <1>3, <2>1, AccountFree
  <2>5. Len(data'[f]) = 0
    BY <1>1, <2>1
  <2> QED
    BY <2>3, <2>4, <2>5
<1> HIDE DEF dead, w
<1>5. \A f \in Files \ dead : B[f] = A[f]
  <2> SUFFICES ASSUME NEW f \in Files \ dead PROVE B[f] = A[f]
    OBVIOUS
  <2>1. data'[f] = data[f]
    BY <1>1
  <2>2. AccountOf(pc', fd', goal', data')[f] = AccountOf(pc, fd, goal, data)[f]
    BY <1>2, <2>1, AccountSame
  <2> QED
    BY <1>3, <2>2
<1>6. (\A f \in Files : A[f] \in Nat) /\ (\A f \in Files : B[f] \in Nat)
  <2>1. goal \in [Clients -> Nat] /\ data \in [Files -> Seq(0..1)]
    BY DEF Inv, TypeOK
  <2>2. goal' \in [Clients -> Nat] /\ data' \in [Files -> Seq(0..1)]
    BY DEF Inv, TypeOK
  <2> QED
    BY <1>2, <1>3, <2>1, <2>2, AccountType
<1>7. IsFiniteSet(Files) /\ IsFiniteSet(dead) /\ IsFiniteSet(Files \ dead)
  BY <1>0, FiniteAssumption, FS_Subset
<1>8. Sum(A, Files) = Sum(A, dead) + Sum(A, Files \ dead)
  BY <1>0, <1>6, <1>7, SumSplit
<1>9. Sum(B, Files) = Sum(B, dead) + Sum(B, Files \ dead)
  BY <1>0, <1>6, <1>7, SumSplit
<1>10. Sum(A, dead) = Sum(w, dead)
  BY <1>4, <1>7, SumSame
<1>11. Sum(B, dead) = 0
  BY <1>4, <1>7, SumZero
<1>12. Sum(B, Files \ dead) = Sum(A, Files \ dead)
  BY <1>5, <1>7, SumSame
<1>13. Sum(A, dead) \in Nat /\ Sum(A, Files \ dead) \in Nat
  BY <1>0, <1>6, <1>7, SumNat
<1>14. used = Sum(A, Files)
  BY <1>3 DEF Accounted
<1>15. used' = Sum(B, Files)
  BY <1>1, <1>8, <1>9, <1>10, <1>11, <1>12, <1>13, <1>14 DEF SatSub
<1> QED
  BY <1>3, <1>15 DEF Accounted

LEMMA AccountedInit == Init => Accounted
<1> SUFFICES ASSUME Init PROVE Accounted
  OBVIOUS
<1>1. \A f \in Files : AccountOf(pc, fd, goal, data)[f] = 0
  BY DEF Init, AccountOf, Locking
<1> QED
  BY <1>1, FiniteAssumption, SumZero DEF Accounted, Init

LEMMA AccountedStep ==
  ASSUME Capacity <= UsizeMax
  PROVE  Inv /\ LockInv /\ Accounted /\ [Next]_vars => Accounted'
<1> SUFFICES ASSUME Inv, LockInv, Accounted, [Next]_vars PROVE Accounted'
  OBVIOUS
<1>0. Inv' /\ LockInv'
  BY InvStep, LockInvStep
<1>len. \A f \in Files : Len(data[f]) \in Nat
  BY DEF Inv, TypeOK
<1>file. \A c \in Clients : pc[c] # "idle" => fd[c] \in Files
  BY DEF Inv, HandleInv
<1>free. ASSUME NEW c \in Clients, pc[c] # "idle", DataFree(fd[c]) PROVE Len(data[fd[c]]) <= used
  <2>1. fd[c] \in Files
    BY <1>file, <1>free
  <2>2. AccountOf(pc, fd, goal, data)[fd[c]] = Len(data[fd[c]])
    BY <1>free, <2>1, AccountFree DEF DataFree
  <2> QED
    BY <2>1, <2>2, AccountWithinUsed DEF Inv
<1>held. ASSUME NEW c \in Clients, pc[c] \in Locking
         PROVE  fd[c] \in Files /\ goal[c] \in Nat /\ goal[c] <= used /\ goal[c] <= UsizeMax
  <2>1. fd[c] \in Files
    BY <1>file, <1>held DEF Locking
  <2>2. AccountOf(pc, fd, goal, data)[fd[c]] = goal[c]
    BY <1>held, <2>1, AccountHeld DEF LockInv
  <2>3. goal[c] <= used
    BY <2>1, <2>2, AccountWithinUsed DEF Inv
  <2> QED
    BY <2>1, <2>3, VolumeAssumption DEF Inv, TypeOK, WithinCapacity
<1>idle. ASSUME NEW c \in Clients, pc[c] \notin Locking, pc'[c] \notin Locking,
                \A d \in Clients : d # c => pc'[d] = pc[d] /\ fd'[d] = fd[d] /\ goal'[d] = goal[d],
                UNCHANGED <<data, used>>
         PROVE  Accounted'
  BY <1>0, <1>idle, AccountIdle
<1>resize. ASSUME NEW c \in Clients, NEW len \in Nat, DataFree(fd[c]), pc[c] # "idle",
                  pc[c] \notin Locking, NEW p \in Locking, pc' = [pc EXCEPT ![c] = p],
                  used' = Resized(Len(data[fd[c]]), len), goal' = [goal EXCEPT ![c] = len],
                  UNCHANGED <<data, fd>>
           PROVE  Accounted'
  <2>1. fd[c] \in Files /\ Len(data[fd[c]]) \in Nat /\ Len(data[fd[c]]) <= used /\ used \in Nat
    BY <1>len, <1>file, <1>free, <1>resize DEF Inv, TypeOK
  <2>2. used' = used + (len - Len(data[fd[c]]))
    <3>1. used' = Resized(Len(data[fd[c]]), len)
      BY <1>resize
    <3>2. PICK old \in Nat : old = Len(data[fd[c]])
      BY <2>1
    <3>3. used \in Nat /\ old <= used /\ len \in Nat
      BY <2>1, <3>2
    <3>4. Resized(old, len) = used + (len - old)
      BY <3>3 DEF Resized, SatSub
    <3> QED
      BY <3>1, <3>2, <3>4
  <2>3. /\ pc'[c] = p /\ goal'[c] = len
        /\ \A d \in Clients : d # c => pc'[d] = pc[d] /\ goal'[d] = goal[d]
    BY <1>resize DEF Inv, TypeOK
  <2> QED
    BY <1>0, <1>resize, <2>1, <2>2, <2>3, AccountReserve
<1>1. ASSUME NEW c \in Clients, NEW k \in Keys, open(c, k) \/ SetLenByPath(c, k) PROVE Accounted'
  <2>1. PICK p \in {"open", "path_wait"} :
          /\ pc[c] = "idle" /\ pc' = [pc EXCEPT ![c] = p]
          /\ fd' = [fd EXCEPT ![c] = tree[k]] /\ UNCHANGED <<data, used, goal>>
    BY <1>1 DEF open, SetLenByPath, At, call
  <2> QED
    BY <1>idle, <2>1 DEF Inv, TypeOK, Locking
<1>2. ASSUME NEW c \in Clients, NEW k \in Keys, NEW opts \in OpenModes, open_write(c, k, opts)
      PROVE  Accounted'
  <2>1. PICK p \in {"truncate", "position"} :
          pc[c] = "idle" /\ pc' = [pc EXCEPT ![c] = p] /\ UNCHANGED <<data, used, goal>>
    BY <1>2 DEF open_write
  <2>2. PICK f : fd' = [fd EXCEPT ![c] = f]
    BY <1>2 DEF open_write
  <2> QED
    BY <1>idle, <2>1, <2>2 DEF Inv, TypeOK, Locking
<1>3. ASSUME NEW c \in Clients, TruncateOnOpen(c) PROVE Accounted'
  BY <1>3, <1>resize DEF TruncateOnOpen, At, Locking
<1>4. ASSUME NEW c \in Clients, Position(c) PROVE Accounted'
  <2>1. /\ pc[c] = "position" /\ pc' = [pc EXCEPT ![c] = "open"]
        /\ UNCHANGED <<data, used, fd, goal>>
    BY <1>4 DEF Position, At
  <2> QED
    BY <1>idle, <2>1 DEF Inv, TypeOK, Locking
<1>5. ASSUME UNCHANGED <<data, used, pc, fd, goal>> PROVE Accounted'
  BY <1>0, <1>5, AccountIdle
<1>6. ASSUME NEW c \in Clients, NEW n \in WriteLens, read(c, n) PROVE Accounted'
  BY <1>5, <1>6 DEF read
<1>7. ASSUME NEW c \in Clients, NEW from \in {"start", "end", "current"}, NEW off \in Offsets,
             seek(c, from, off)
      PROVE  Accounted'
  BY <1>5, <1>7 DEF seek
<1>8. ASSUME NEW c \in Clients, NEW n \in WriteLens, write(c, n) PROVE Accounted'
  <2> DEFINE old == Len(data[fd[c]])
             granted == reserve(old, Greatest(pos[c] + n, old))
  <2>1. PICK p \in {"undoing", "filling"} :
          /\ pc[c] = "open" /\ pc' = [pc EXCEPT ![c] = p] /\ DataFree(fd[c])
          /\ goal' = [goal EXCEPT ![c] = granted] /\ UNCHANGED <<data, fd>>
          /\ used' = used + (granted - Len(data[fd[c]]))
    BY <1>8 DEF write
  <2> HIDE DEF granted
  <2>2. /\ pc'[c] = p /\ goal'[c] = granted /\ fd[c] \in Files
        /\ \A d \in Clients : d # c => pc'[d] = pc[d] /\ goal'[d] = goal[d]
    BY <1>file, <2>1 DEF Inv, TypeOK
  <2> QED
    BY <1>0, <2>1, <2>2, AccountReserve DEF Locking
<1>9. ASSUME NEW c \in Clients, NEW len \in SetLens, set_len(c, len) PROVE Accounted'
  <2>1. len \in Nat
    BY VolumeAssumption
  <2> QED
    BY <1>9, <1>resize, <2>1 DEF set_len, At, Locking
<1>10. ASSUME NEW c \in Clients, NEW len \in SetLens, ResizeByPath(c, len) PROVE Accounted'
  <2>1. len \in Nat /\ pc[c] = "path_wait" /\ UNCHANGED data
    BY <1>10, VolumeAssumption DEF ResizeByPath
  <2>2. CASE CanResize(Len(data[fd[c]]), len)
    BY <1>10, <1>resize, <2>1, <2>2 DEF ResizeByPath, Locking
  <2>3. CASE ~ CanResize(Len(data[fd[c]]), len)
    <3>1. /\ pc' = [pc EXCEPT ![c] = "idle"] /\ fd' = [fd EXCEPT ![c] = None]
          /\ UNCHANGED <<used, goal>>
      BY <1>10, <2>3 DEF ResizeByPath
    <3> QED
      BY <1>idle, <2>1, <3>1 DEF Inv, TypeOK, Locking
  <2> QED
    BY <2>2, <2>3
<1>11. ASSUME NEW c \in Clients, Fill(c) PROVE Accounted'
  <2> DEFINE old == data[fd[c]]
             grown == ResizedTo(old, Greatest(goal[c], Len(old)))
             new == [i \in DOMAIN grown |->
                       IF i \in (pos[c] + 1)..(pos[c] + count[c]) THEN 1 ELSE grown[i]]
  <2>1. /\ pc[c] = "filling" /\ pc' = [pc EXCEPT ![c] = "open"]
        /\ data' = [data EXCEPT ![fd[c]] = new]
        /\ goal' = [goal EXCEPT ![c] = 0] /\ UNCHANGED <<used, fd>>
    BY <1>11 DEF Fill, At, Return
  <2>2. /\ pc[c] \in Locking /\ fd[c] \in Files /\ goal[c] \in Nat /\ used \in Nat
        /\ old \in Seq(0..1) /\ Len(old) <= goal[c]
    BY <1>held, <2>1 DEF Locking, LockInv, Growing, Inv, TypeOK
  <2>3. Len(new) = goal[c]
    <3>1. Greatest(goal[c], Len(old)) = goal[c]
      BY <2>2 DEF Greatest
    <3>2. DOMAIN grown = 1..goal[c]
      BY <2>2, <3>1 DEF ResizedTo
    <3> HIDE DEF grown
    <3> QED
      BY <2>2, <3>2
  <2> HIDE DEF new
  <2>4. Len(data'[fd[c]]) = goal[c] /\ \A f \in Files : f # fd[c] => data'[f] = data[f]
    BY <2>1, <2>2, <2>3 DEF Inv, TypeOK
  <2>5. /\ pc'[c] \notin Locking
        /\ \A d \in Clients : d # c => pc'[d] = pc[d] /\ goal'[d] = goal[d] /\ fd'[d] = fd[d]
    BY <2>1 DEF Inv, TypeOK, Locking
  <2> QED
    BY <1>0, <2>1, <2>2, <2>4, <2>5, AccountSettle
<1>12. ASSUME NEW c \in Clients, Undo(c) PROVE Accounted'
  <2>1. /\ pc[c] = "undoing" /\ pc' = [pc EXCEPT ![c] = "open"]
        /\ used' = SatSub(used, SatSub(goal[c], Len(data[fd[c]])))
        /\ goal' = [goal EXCEPT ![c] = 0] /\ UNCHANGED <<data, fd>>
    BY <1>12 DEF Undo, At, Return, release
  <2>2. /\ pc[c] \in Locking /\ fd[c] \in Files /\ goal[c] \in Nat /\ used \in Nat
        /\ Len(data[fd[c]]) \in Nat /\ Len(data[fd[c]]) <= goal[c] /\ goal[c] <= used
    BY <1>held, <2>1 DEF Locking, LockInv, Growing, Inv, TypeOK
  <2>3. used' = used + (Len(data'[fd[c]]) - goal[c])
    BY <2>1, <2>2 DEF SatSub
  <2>4. /\ pc'[c] \notin Locking
        /\ \A d \in Clients : d # c => pc'[d] = pc[d] /\ goal'[d] = goal[d] /\ fd'[d] = fd[d]
    BY <2>1 DEF Inv, TypeOK, Locking
  <2> QED
    BY <1>0, <2>1, <2>2, <2>3, <2>4, AccountSettle
<1>13. ASSUME NEW c \in Clients, ResizeData(c) PROVE Accounted'
  <2>1. /\ pc[c] \in Locking
        /\ \E p \in {"position", "open", "idle"} : pc' = [pc EXCEPT ![c] = p]
        /\ fd' = fd \/ fd' = [fd EXCEPT ![c] = None]
        /\ goal' = [goal EXCEPT ![c] = 0] /\ UNCHANGED used
    BY <1>13 DEF ResizeData, At, Return, Locking
  <2>2. /\ fd[c] \in Files /\ goal[c] \in Nat /\ goal[c] <= UsizeMax /\ used \in Nat
        /\ data[fd[c]] \in Seq(0..1)
    BY <1>held, <2>1 DEF Inv, TypeOK
  <2>3. data' = [data EXCEPT ![fd[c]] = ResizedTo(data[fd[c]], goal[c])]
    BY <1>13, <2>2 DEF ResizeData
  <2>4. Len(data'[fd[c]]) = goal[c] /\ \A f \in Files : f # fd[c] => data'[f] = data[f]
    BY <2>2, <2>3, ResizedToType DEF Inv, TypeOK
  <2>5. /\ pc'[c] \notin Locking
        /\ \A d \in Clients : d # c => pc'[d] = pc[d] /\ goal'[d] = goal[d] /\ fd'[d] = fd[d]
    BY <2>1 DEF Inv, TypeOK, Locking
  <2> QED
    BY <1>0, <2>1, <2>2, <2>4, <2>5, AccountSettle
<1>14. ASSUME NEW c \in Clients, Close(c) PROVE Accounted'
  <2>1. /\ pc[c] = "open" /\ pc' = [pc EXCEPT ![c] = "idle"] /\ fd' = [fd EXCEPT ![c] = None]
        /\ DropFiles(tree', fd') /\ UNCHANGED goal
    BY <1>14 DEF Close, At
  <2>2. /\ \A d \in Clients : pc[d] \in Locking <=> pc'[d] \in Locking
        /\ \A d \in Clients : pc[d] \in Locking => fd'[d] = fd[d] /\ goal'[d] = goal[d]
    BY <2>1 DEF Inv, TypeOK, Locking
  <2> QED
    BY <1>0, <2>1, <2>2, AccountDrop
<1>15. ASSUME DropFiles(tree', fd), UNCHANGED <<pc, fd, call>> PROVE Accounted'
  BY <1>0, <1>15, AccountDrop DEF call
<1>16. ASSUME NEW k \in Keys, remove(k) PROVE Accounted'
  BY <1>15, <1>16 DEF remove
<1>17. ASSUME NEW from \in Keys, NEW to \in Keys, Rename(from, to) PROVE Accounted'
  BY <1>15, <1>17 DEF Rename
<1>18. ASSUME NEW k \in Keys, create_dir(k) PROVE Accounted'
  BY <1>5, <1>18 DEF create_dir, call
<1>19. ASSUME NEW k \in MountKeys, mount(k) \/ mount_writable(k) \/ Unmount(k) PROVE Accounted'
  BY <1>15, <1>19 DEF mount, mount_writable, InsertMount, Unmount
<1>20. CASE UNCHANGED vars
  BY <1>5, <1>20 DEF vars
<1> QED
  BY <1>1, <1>2, <1>3, <1>4, <1>6, <1>7, <1>8, <1>9, <1>10, <1>11, <1>12, <1>13, <1>14, <1>16,
     <1>17, <1>18, <1>19, <1>20 DEF Next

(***************************************************************************)
(* Reserved is what a holder's reservation adds to its file's length: the  *)
(* accounts are the lengths and the reservations together.                 *)
(***************************************************************************)
LEMMA ReservedSum ==
  MapThenSumSet(Reserved, Clients) = Sum([c \in Clients |-> Reserved(c)], Clients)
<1> DEFINE w == [c \in Clients |-> Reserved(c)]
           Fold(g) == g = [s \in SUBSET Clients |->
                             IF s = {} THEN 0 ELSE Reserved(Pick(s)) + g[s \ {Pick(s)}]]
           fold == CHOOSE g : Fold(g)
<1>1. MapThenSumSet(Reserved, Clients) = fold[Clients]
  BY DEF MapThenSumSet, MapThenFoldSet, Pick
<1>2. \A s \in SUBSET Clients : s # {} => w[Pick(s)] = Reserved(Pick(s))
  BY PickIn
<1>3. \A g : Fold(g) <=> Sums(g, w, Clients)
  <2> HIDE DEF w
  <2> QED
    BY <1>2 DEF Sums
<1>4. \E g : Sums(g, w, Clients)
  BY FiniteAssumption, SumsExist
<1> HIDE DEF Fold, w
<1>5. Sums(fold, w, Clients)
  BY <1>3, <1>4
<1> HIDE DEF fold
<1>6. Sum(w, Clients) = fold[Clients]
  BY <1>5, FiniteAssumption, SumIs
<1> QED
  BY <1>1, <1>6 DEF w

LEMMA AccountsAreExact ==
  ASSUME Inv, LockInv, Accounted
  PROVE  AccountingExact
<1> DEFINE R == Referenced(tree, fd)
           L == {c \in Clients : pc[c] \in Locking}
<1>1. PICK w, r, v : /\ w = [f \in Files |-> Len(data[f])]
                     /\ r = [c \in Clients |-> Reserved(c)]
                     /\ v = AccountOf(pc, fd, goal, data)
  OBVIOUS
<1>2. \A f \in Files : w[f] \in Nat
  BY <1>1 DEF Inv, TypeOK
<1>3. \A c \in L : fd[c] \in Files
  BY DEF Inv, HandleInv, Locking
<1>4. \A c \in L : r[c] = goal[c] - w[fd[c]] /\ goal[c] \in Nat
  BY <1>1, <1>3 DEF Reserved, Inv, TypeOK
<1>5. \A c \in Clients : c \notin L => r[c] = 0
  BY <1>1 DEF Reserved
<1>6. \A c \in Clients : r[c] \in Int
  BY <1>2, <1>3, <1>4, <1>5
<1>7. \A c \in L : v[fd[c]] = w[fd[c]] + r[c]
  <2> SUFFICES ASSUME NEW c \in L PROVE v[fd[c]] = w[fd[c]] + r[c]
    OBVIOUS
  <2>1. v[fd[c]] = goal[c]
    BY <1>1, <1>3, AccountHeld DEF LockInv
  <2> QED
    BY <1>2, <1>3, <1>4, <2>1
<1>8. \A f \in Files : (\A c \in L : fd[c] # f) => v[f] = w[f]
  BY <1>1, AccountFree
<1>9. \A f \in Files : v[f] \in Int
  <2>1. goal \in [Clients -> Nat] /\ data \in [Files -> Seq(0..1)] /\ Exclusive(pc, fd)
    BY DEF Inv, TypeOK, LockInv
  <2>2. \A f \in Files : v[f] \in Nat
    BY <1>1, <2>1, AccountType
  <2> QED
    BY <2>2
<1>10. \A c, d \in L : fd[c] = fd[d] => c = d
  BY DEF LockInv, Exclusive
<1>11. L \in SUBSET Clients /\ R \in SUBSET Files
  BY DEF Referenced
<1>12. \A f \in Files \ R : w[f] = 0
  BY <1>1 DEF LockInv, UnusedEmpty
<1> HIDE DEF L, R
<1>13. Sum(v, Files) = Sum(w, Files) + Sum(r, Clients)
  <2>1. \A f \in Files : w[f] \in Int
    BY <1>2
  <2> QED
    BY <1>3, <1>5, <1>6, <1>7, <1>8, <1>9, <1>10, <1>11, <2>1, FiniteAssumption, SumMatch
<1>14. Sum(w, Files) = Sum(w, R)
  <2>1. IsFiniteSet(R) /\ IsFiniteSet(Files \ R)
    BY <1>11, FiniteAssumption, FS_Subset
  <2>2. Sum(w, Files) = Sum(w, R) + Sum(w, Files \ R)
    BY <1>2, <1>11, FiniteAssumption, SumSplit
  <2>3. Sum(w, Files \ R) = 0
    BY <1>12, <2>1, SumZero
  <2>4. Sum(w, R) \in Nat
    BY <1>2, <1>11, <2>1, SumNat
  <2> QED
    BY <2>2, <2>3, <2>4
<1>15. used = Sum(w, R) + Sum(r, Clients)
  BY <1>1, <1>13, <1>14 DEF Accounted
<1>16. MapThenSumSet(LAMBDA f : Len(data[f]), R) = Sum(w, R)
  BY <1>1, <1>11, LengthSum
<1>17. MapThenSumSet(Reserved, Clients) = Sum(r, Clients)
  BY <1>1, ReservedSum
<1> QED
  BY <1>15, <1>16, <1>17 DEF AccountingExact, R

(***************************************************************************)
(* used is exactly the bytes of the files still referred to and the        *)
(* reservations in hand, after any interleaving of any number of clients:  *)
(* nothing is counted twice, forgotten at a drop, or lost to the saturating*)
(* subtraction of Volume::release.  Capacity <= UsizeMax is what it takes: *)
(* a length the volume grants is one the buffer can have, so that the      *)
(* failure of MemFile::set_len after Volume::resize does not arise.        *)
(***************************************************************************)
THEOREM AccountingIsExact ==
  ASSUME Capacity <= UsizeMax
  PROVE  Spec => []AccountingExact
<1>1. Init => Inv /\ LockInv /\ Accounted
  BY InvInit, LockInvInit, AccountedInit
<1>2. Inv /\ LockInv /\ Accounted /\ [Next]_vars => (Inv /\ LockInv /\ Accounted)'
  BY InvStep, LockInvStep, AccountedStep
<1>3. Inv /\ LockInv /\ Accounted => AccountingExact
  BY AccountsAreExact
<1> QED
  BY <1>1, <1>2, <1>3, PTL DEF Spec
=============================================================================
