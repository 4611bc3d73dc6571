--------------------------- MODULE MemoryFsProofs ---------------------------
(***************************************************************************)
(* For any tree, any number of files and clients and any capacity: types,  *)
(* the bound on what the volume accounts for, which bytes a write changes  *)
(* and when it is short, that every entry stays reachable, and what        *)
(* renames and unmounts take with them.                                    *)
(***************************************************************************)
EXTENDS MemoryFs, WellFoundedInduction, TLAPS

(* Inside a call and between calls, a handle has its file. *)
HandleInv == \A c \in Clients : pc[c] # "idle" => fd[c] \in Files

(* Lengths are u64s, and a write that will succeed does not move its cursor past u64. *)
LengthInv ==
  /\ \A f \in Files : Len(data[f]) <= U64Max
  /\ \A c \in Clients : pc[c] = "filling" => pos[c] + count[c] <= U64Max

Inv == TypeOK /\ HandleInv /\ LengthInv /\ WithinCapacity

-----------------------------------------------------------------------------
(* What the operations on the tree return is a tree. *)

LEMMA WithoutType ==
  ASSUME NEW t, NEW S, IsTree(t)
  PROVE  IsTree(Without(t, S))
BY DEF Without, Restrict, IsTree

LEMMA OverType ==
  ASSUME NEW t, NEW u, IsTree(t), IsTree(u)
  PROVE  IsTree(Over(t, u))
BY DEF Over, IsTree

LEMMA AncestorDirsType ==
  ASSUME NEW t, IsTree(t), NEW k \in Keys
  PROVE  IsTree(insert_ancestor_dirs(t, k))
<1>1. IsTree([a \in Ancestors(k) |-> "dir"])
  BY VolumeAssumption DEF IsTree
<1> QED
  BY <1>1, OverType DEF insert_ancestor_dirs

LEMMA InsertType ==
  ASSUME NEW t, IsTree(t), NEW k \in Keys, NEW node \in {"dir", "source"} \cup Files
  PROVE  IsTree(Insert(t, k, node))
<1>1. IsTree([x \in {k} |-> node])
  BY DEF IsTree
<1> QED
  BY <1>1, OverType, AncestorDirsType DEF Insert

LEMMA RemoveSubtreeType ==
  ASSUME NEW t, IsTree(t), NEW k
  PROVE  IsTree(remove_subtree(t, k))
BY WithoutType DEF remove_subtree

LEMMA RenameType ==
  ASSUME NEW t, IsTree(t), NEW from \in Keys, NEW to \in Keys,
         DOMAIN rename(t, from, to) \subseteq Keys \cup {Root}
  PROVE  IsTree(rename(t, from, to))
<1> DEFINE cleared == Without(t, {to})
           to_move == {k \in DOMAIN cleared : InSubtree(k, from)}
           moved == [k \in {rekey(m, from, to) : m \in to_move} |->
                       cleared[CHOOSE m \in to_move : rekey(m, from, to) = k]]
           rest == Without(cleared, to_move)
<1>1. IsTree(cleared) /\ IsTree(rest)
  BY WithoutType
<1>2. \A k \in DOMAIN moved : moved[k] \in {"dir", "source"} \cup Files
  <2>1. ASSUME NEW k \in DOMAIN moved
        PROVE  (CHOOSE m \in to_move : rekey(m, from, to) = k) \in DOMAIN cleared
    OBVIOUS
  <2> QED
    BY <1>1, <2>1 DEF IsTree
<1>3. rename(t, from, to) = insert_ancestor_dirs(Over(moved, rest), to)
  BY DEF rename
<1> HIDE DEF cleared, to_move, moved, rest
<1>4. \A k \in DOMAIN rename(t, from, to) :
        rename(t, from, to)[k] \in {"dir", "source"} \cup Files
  BY <1>1, <1>2, <1>3 DEF insert_ancestor_dirs, Over, IsTree
<1> QED
  BY <1>4 DEF IsTree

LEMMA FreshType ==
  ASSUME Fresh # {}
  PROVE  MemFileNew \in Files
BY DEF Fresh, MemFileNew

-----------------------------------------------------------------------------
(* Volume: each operation keeps used a natural number within the capacity. *)

LEMMA SatSubType ==
  ASSUME NEW a \in Nat, NEW b
  PROVE  SatSub(a, b) \in Nat /\ SatSub(a, b) <= a
BY DEF SatSub

LEMMA ReserveBounds ==
  ASSUME used \in Nat, used <= Capacity, NEW old \in Nat, NEW desired \in Nat, old <= desired
  PROVE  /\ reserve(old, desired) \in Nat
         /\ old <= reserve(old, desired) /\ reserve(old, desired) <= desired
         /\ used + (reserve(old, desired) - old) <= Capacity
BY VolumeAssumption DEF reserve, SatSub, Least

LEMMA ResizeBounds ==
  ASSUME used \in Nat, used <= Capacity, NEW old \in Nat, NEW new \in Nat, CanResize(old, new)
  PROVE  Resized(old, new) \in Nat /\ Resized(old, new) <= Capacity
<1>1. CASE new >= old
  BY <1>1, VolumeAssumption DEF CanResize, Resized, Least
<1>2. CASE new < old
  BY <1>2, SatSubType, VolumeAssumption DEF Resized, SatSub
<1> QED
  BY <1>1, <1>2

LEMMA ResizedToType ==
  ASSUME NEW s \in Seq(0..1), NEW n \in Nat
  PROVE  ResizedTo(s, n) \in Seq(0..1) /\ Len(ResizedTo(s, n)) = n
BY DEF ResizedTo

(* Dropping files releases bytes and empties buffers; it never reserves. *)
LEMMA DropFilesBounds ==
  ASSUME TypeOK, LengthInv, WithinCapacity, NEW t, NEW h, DropFiles(t, h)
  PROVE  /\ used' \in Nat /\ used' <= Capacity
         /\ data' \in [Files -> Seq(0..1)]
         /\ \A f \in Files : Len(data'[f]) <= U64Max
<1> DEFINE dead == Referenced(tree, fd) \ Referenced(t, h)
           bytes == MapThenSumSet(LAMBDA f : Len(data[f]), dead)
<1>1. used' = SatSub(used, bytes) /\ data' = [f \in Files |-> IF f \in dead THEN <<>> ELSE data[f]]
  BY DEF DropFiles, release
<1> HIDE DEF dead, bytes
<1>2. used' \in Nat /\ used' <= Capacity
  BY <1>1, SatSubType, VolumeAssumption DEF TypeOK, WithinCapacity
<1>3. ASSUME NEW f \in Files PROVE data'[f] \in Seq(0..1) /\ Len(data'[f]) <= U64Max
  <2>1. CASE f \in dead
    BY <1>1, <2>1, VolumeAssumption
  <2>2. CASE f \notin dead
    BY <1>1, <2>2 DEF TypeOK, LengthInv
  <2> QED
    BY <2>1, <2>2
<1> QED
  BY <1>1, <1>2, <1>3

-----------------------------------------------------------------------------
LEMMA InvInit == Init => Inv
BY VolumeAssumption DEF Init, Inv, TypeOK, HandleInv, LengthInv, WithinCapacity, IsTree, PC

(* One step per action; the volume's lemmas carry the arithmetic. *)
LEMMA InvStep == Inv /\ [Next]_vars => Inv'
<1> SUFFICES ASSUME Inv, [Next]_vars PROVE Inv'
  OBVIOUS
<1> USE VolumeAssumption DEF Inv, PC
<1>len. \A f \in Files : Len(data[f]) \in Nat /\ Len(data[f]) <= U64Max
  BY DEF TypeOK, LengthInv
<1>1. ASSUME NEW c \in Clients, NEW k \in Keys, open(c, k) PROVE Inv'
  BY <1>1 DEF open, At, TypeOK, HandleInv, LengthInv, WithinCapacity
<1>2. ASSUME NEW c \in Clients, NEW k \in Keys, NEW opts \in OpenModes, open_write(c, k, opts)
      PROVE  Inv'
  <2>1. PICK f \in Files :
          /\ fd' = [fd EXCEPT ![c] = f]
          /\ IsTree(tree')
    <3>1. CASE k \in DOMAIN tree
      BY <1>2, <3>1 DEF open_write, TypeOK
    <3>2. CASE k \notin DOMAIN tree
      <4>1. /\ fd' = [fd EXCEPT ![c] = MemFileNew] /\ Fresh # {}
            /\ tree' = Insert(tree, k, MemFileNew)
        BY <1>2, <3>2 DEF open_write
      <4>2. MemFileNew \in Files /\ IsTree(tree)
        BY <4>1, FreshType DEF TypeOK
      <4>3. IsTree(tree')
        BY <4>1, <4>2, InsertType
      <4> QED
        BY <4>1, <4>2, <4>3
    <3> QED
      BY <3>1, <3>2
  <2>2. /\ UNCHANGED <<data, used, guards, pos, goal, count>>
        /\ \E p \in {"truncate", "position"} : pc' = [pc EXCEPT ![c] = p]
        /\ \E m \in {"append", "write"} : mode' = [mode EXCEPT ![c] = m]
    BY <1>2 DEF open_write
  <2> QED
    BY <2>1, <2>2 DEF TypeOK, HandleInv, LengthInv, WithinCapacity
<1>3. ASSUME NEW c \in Clients, TruncateOnOpen(c) PROVE Inv'
  <2>1. fd[c] \in Files
    BY <1>3 DEF TruncateOnOpen, At, HandleInv
  <2>2. CanResize(Len(data[fd[c]]), 0)
    BY <1>len, <2>1 DEF CanResize, Least, TypeOK, WithinCapacity
  <2>3. used' \in Nat /\ used' <= Capacity
    BY <1>3, <1>len, <2>1, <2>2, ResizeBounds DEF TruncateOnOpen, TypeOK, WithinCapacity
  <2> QED
    BY <1>3, <2>3 DEF TruncateOnOpen, At, TypeOK, HandleInv, LengthInv, WithinCapacity
<1>4. ASSUME NEW c \in Clients, Position(c) PROVE Inv'
  <2>1. fd[c] \in Files
    BY <1>4 DEF Position, At, HandleInv
  <2>2. pos' \in [Clients -> 0..U64Max]
    <3>1. \E p \in 0..U64Max : pos' = [pos EXCEPT ![c] = p]
      <4>1. Len(data[fd[c]]) \in 0..U64Max /\ 0 \in 0..U64Max
        BY <1>len, <2>1
      <4> QED
        BY <1>4, <4>1 DEF Position
    <3> QED
      BY <3>1 DEF TypeOK
  <2>3. /\ UNCHANGED <<tree, data, used, guards, fd, mode, goal, count>>
        /\ pc' = [pc EXCEPT ![c] = "open"] /\ pc[c] = "position"
        /\ \A d \in Clients : d # c => pos'[d] = pos[d]
    BY <1>4 DEF Position, At, TypeOK
  <2> QED
    BY <2>1, <2>2, <2>3 DEF TypeOK, HandleInv, LengthInv, WithinCapacity
<1>5. ASSUME NEW c \in Clients, NEW n \in WriteLens, read(c, n) PROVE Inv'
  <2>1. fd[c] \in Files
    BY <1>5 DEF read, HandleInv
  <2>2. pos' \in [Clients -> 0..U64Max]
    <3>1. pos[c] + Least(n, SatSub(Len(data[fd[c]]), pos[c])) \in 0..U64Max
      BY <1>len, <2>1 DEF Least, SatSub, TypeOK
    <3> QED
      BY <1>5, <3>1 DEF read, TypeOK
  <2>3. /\ UNCHANGED <<tree, data, used, guards, pc, fd, mode, goal, count>>
        /\ pc[c] = "open"
        /\ \A d \in Clients : d # c => pos'[d] = pos[d]
    BY <1>5 DEF read, TypeOK
  <2> QED
    BY <2>2, <2>3 DEF TypeOK, HandleInv, LengthInv, WithinCapacity
<1>6. ASSUME NEW c \in Clients, NEW from \in {"start", "end", "current"}, NEW off \in Offsets,
             seek(c, from, off)
      PROVE  Inv'
  <2>1. PICK p \in 0..U64Max : pos' = [pos EXCEPT ![c] = p]
    BY <1>6 DEF seek
  <2>2. /\ UNCHANGED <<tree, data, used, guards, pc, fd, mode, goal, count>>
        /\ pc[c] = "open"
    BY <1>6 DEF seek
  <2> QED
    BY <2>1, <2>2 DEF TypeOK, HandleInv, LengthInv, WithinCapacity
<1>7. ASSUME NEW c \in Clients, NEW n \in WriteLens, write(c, n) PROVE Inv'
  <2> DEFINE old == Len(data[fd[c]])
             desired == Greatest(pos[c] + n, old)
             granted == reserve(old, desired)
             fits == Least(SatSub(granted, pos[c]), n)
  <2>1. fd[c] \in Files /\ pos[c] \in Nat /\ n \in Nat /\ pos[c] + n <= U64Max
    BY <1>7 DEF write, HandleInv, TypeOK
  <2>2. old \in Nat /\ old <= U64Max
    BY <1>len, <2>1
  <2>3. /\ used' = used + (granted - old)
        /\ goal' = [goal EXCEPT ![c] = granted]
        /\ count' = [count EXCEPT ![c] = fits]
        /\ \E p \in {"undoing", "filling"} : pc' = [pc EXCEPT ![c] = p]
        /\ UNCHANGED <<tree, data, guards, fd, mode, pos>>
    BY <1>7 DEF write
  <2>4. desired \in Nat /\ old <= desired /\ desired <= U64Max
    BY <2>1, <2>2 DEF Greatest
  <2>5. granted \in Nat /\ granted <= U64Max /\ old <= granted /\ used + (granted - old) <= Capacity
    <3> HIDE DEF old, desired
    <3>1. used \in Nat /\ used <= Capacity
      BY DEF TypeOK, WithinCapacity
    <3>2. /\ granted \in Nat /\ old <= granted /\ granted <= desired
          /\ used + (granted - old) <= Capacity
      BY <2>2, <2>4, <3>1, ReserveBounds
    <3> HIDE DEF granted
    <3> QED
      BY <2>2, <2>4, <3>2
  <2>6. fits \in Nat /\ pos[c] + fits <= U64Max
    BY <2>1, <2>5 DEF SatSub, Least
  <2> HIDE DEF old, desired, granted, fits
  <2>7. used' \in Nat /\ used' <= Capacity
    BY <2>2, <2>3, <2>5 DEF TypeOK
  <2> QED
    <3>1. TypeOK'
      <4>1. goal' \in [Clients -> 0..U64Max] /\ count' \in [Clients -> Nat]
        BY <2>3, <2>5, <2>6 DEF TypeOK
      <4> QED
        BY <2>3, <2>7, <4>1 DEF TypeOK
    <3>2. HandleInv'
      BY <2>1, <2>3 DEF TypeOK, HandleInv
    <3>3. LengthInv'
      BY <2>3, <2>6 DEF TypeOK, LengthInv
    <3> QED
      BY <2>7, <3>1, <3>2, <3>3 DEF WithinCapacity

<1>8. ASSUME NEW c \in Clients, Fill(c) PROVE Inv'
  <2> DEFINE f == fd[c]
             old == data[f]
             grown == ResizedTo(old, Greatest(goal[c], Len(old)))
             filled == [i \in DOMAIN grown |->
                          IF i \in (pos[c] + 1)..(pos[c] + count[c]) THEN 1 ELSE grown[i]]
  <2>1. f \in Files /\ pc[c] = "filling" /\ pc' = [pc EXCEPT ![c] = "open"]
    BY <1>8 DEF Fill, At, HandleInv
  <2>2. /\ Greatest(goal[c], Len(old)) \in Nat
        /\ Greatest(goal[c], Len(old)) <= U64Max
    BY <1>len, <2>1 DEF Greatest, TypeOK
  <2>3. old \in Seq(0..1)
    BY <2>1 DEF TypeOK
  <2>4. grown \in Seq(0..1) /\ Len(grown) <= U64Max
    BY <2>2, <2>3, ResizedToType
  <2>5. data' = [data EXCEPT ![f] = filled]
    BY <1>8 DEF Fill
  <2>6. pos' = [pos EXCEPT ![c] = pos[c] + count[c]] /\ pos[c] + count[c] \in 0..U64Max
    BY <1>8, <2>1 DEF Fill, LengthInv, TypeOK
  <2>7. /\ UNCHANGED <<tree, used, guards, fd, mode>>
        /\ goal' = [goal EXCEPT ![c] = 0] /\ count' = [count EXCEPT ![c] = 0]
    BY <1>8 DEF Fill, Return
  <2> HIDE DEF grown
  <2>8. filled \in Seq(0..1) /\ Len(filled) <= U64Max
    BY <2>4
  <2> HIDE DEF filled, f, old
  <2> QED
    BY <2>1, <2>5, <2>6, <2>7, <2>8 DEF TypeOK, HandleInv, LengthInv, WithinCapacity
<1>9. ASSUME NEW c \in Clients, Undo(c) PROVE Inv'
  <2>1. used' \in Nat /\ used' <= Capacity
    BY <1>9, SatSubType DEF Undo, release, TypeOK, WithinCapacity
  <2> QED
    BY <1>9, <2>1 DEF Undo, Return, At, TypeOK, HandleInv, LengthInv, WithinCapacity
<1>10. ASSUME NEW c \in Clients, NEW len \in SetLens, set_len(c, len) PROVE Inv'
  <2>1. fd[c] \in Files
    BY <1>10 DEF set_len, At, HandleInv
  <2>2. used' \in Nat /\ used' <= Capacity
    BY <1>10, <1>len, <2>1, ResizeBounds DEF set_len, TypeOK, WithinCapacity
  <2> QED
    BY <1>10, <2>2 DEF set_len, At, TypeOK, HandleInv, LengthInv, WithinCapacity
<1>11. ASSUME NEW c \in Clients, ResizeData(c) PROVE Inv'
  <2>1. fd[c] \in Files
    BY <1>11 DEF ResizeData, At, HandleInv
  <2>2. ResizedTo(data[fd[c]], goal[c]) \in Seq(0..1)
          /\ Len(ResizedTo(data[fd[c]], goal[c])) <= U64Max
    BY <2>1, ResizedToType DEF TypeOK
  <2>3. data' \in [Files -> Seq(0..1)] /\ \A f \in Files : Len(data'[f]) <= U64Max
    BY <1>11, <1>len, <2>1, <2>2 DEF ResizeData, TypeOK
  <2>4. /\ UNCHANGED <<tree, used, guards, mode, pos>>
        /\ goal' = [goal EXCEPT ![c] = 0] /\ count' = [count EXCEPT ![c] = 0]
        /\ pc[c] # "filling"
        /\ \/ fd' = fd /\ \E p \in {"position", "open"} : pc' = [pc EXCEPT ![c] = p]
           \/ fd' = [fd EXCEPT ![c] = None] /\ pc' = [pc EXCEPT ![c] = "idle"]
    BY <1>11 DEF ResizeData, Return, At
  <2> QED
    <3>1. TypeOK'
      <4>1. pc' \in [Clients -> PC]
        BY <2>4 DEF TypeOK
      <4>2. fd' \in [Clients -> Files \cup {None}]
        BY <2>4 DEF TypeOK
      <4>3. goal' \in [Clients -> 0..U64Max] /\ count' \in [Clients -> Nat]
        <5>1. 0 \in 0..U64Max /\ 0 \in Nat
          OBVIOUS
        <5> QED
          BY <2>4, <5>1 DEF TypeOK
      <4> QED
        BY <2>3, <2>4, <4>1, <4>2, <4>3 DEF TypeOK
    <3>2. HandleInv'
      BY <2>1, <2>4 DEF TypeOK, HandleInv
    <3>3. LengthInv'
      BY <2>3, <2>4 DEF TypeOK, LengthInv
    <3> QED
      BY <2>4, <3>1, <3>2, <3>3 DEF WithinCapacity
<1>12. ASSUME NEW c \in Clients, Close(c) PROVE Inv'
  <2>1. /\ used' \in Nat /\ used' <= Capacity
        /\ data' \in [Files -> Seq(0..1)]
        /\ \A f \in Files : Len(data'[f]) <= U64Max
    BY <1>12, DropFilesBounds DEF Close
  <2> QED
    BY <1>12, <2>1 DEF Close, At, TypeOK, HandleInv, LengthInv, WithinCapacity
<1>13. ASSUME NEW c \in Clients, NEW k \in Keys, SetLenByPath(c, k) PROVE Inv'
  BY <1>13 DEF SetLenByPath, At, call, TypeOK, HandleInv, LengthInv, WithinCapacity
<1>14. ASSUME NEW c \in Clients, NEW len \in SetLens, ResizeByPath(c, len) PROVE Inv'
  <2>1. fd[c] \in Files
    BY <1>14 DEF ResizeByPath, HandleInv
  <2>2. used' \in Nat /\ used' <= Capacity
    <3>1. CASE CanResize(Len(data[fd[c]]), len)
      BY <1>14, <1>len, <2>1, <3>1, ResizeBounds DEF ResizeByPath, TypeOK, WithinCapacity
    <3>2. CASE ~CanResize(Len(data[fd[c]]), len)
      BY <1>14, <3>2 DEF ResizeByPath, TypeOK, WithinCapacity
    <3> QED
      BY <3>1, <3>2
  <2> QED
    BY <1>14, <2>2 DEF ResizeByPath, TypeOK, HandleInv, LengthInv, WithinCapacity
<1> DEFINE TreeStep ==
      /\ IsTree(tree') /\ guards' \in [MountKeys -> 0..MaxMounts]
      /\ used' \in Nat /\ used' <= Capacity
      /\ data' \in [Files -> Seq(0..1)]
      /\ \A f \in Files : Len(data'[f]) <= U64Max
      /\ UNCHANGED <<pc, fd, call>>
<1>15. ASSUME TreeStep PROVE Inv'
  BY <1>15 DEF call, TypeOK, HandleInv, LengthInv, WithinCapacity
<1>16. ASSUME NEW k \in Keys, remove(k) PROVE TreeStep
  BY <1>16, WithoutType, DropFilesBounds DEF remove, TypeOK
<1>17. ASSUME NEW from \in Keys, NEW to \in Keys, Rename(from, to) PROVE TreeStep
  BY <1>17, RenameType, DropFilesBounds DEF Rename, TypeOK
<1>18. ASSUME NEW k \in Keys, create_dir(k) PROVE TreeStep
  BY <1>18, <1>len, InsertType DEF create_dir, TypeOK, WithinCapacity
<1>19. ASSUME NEW k \in MountKeys, NEW node \in {"source"} \cup Files, InsertMount(k, node)
       PROVE  TreeStep
  BY <1>19, InsertType, DropFilesBounds DEF InsertMount, TypeOK
<1>20. ASSUME NEW k \in MountKeys, mount(k) \/ mount_writable(k) PROVE TreeStep
  BY <1>19, <1>20, FreshType DEF mount, mount_writable
<1>21. ASSUME NEW k \in MountKeys, Unmount(k) PROVE TreeStep
  BY <1>21, RemoveSubtreeType, DropFilesBounds DEF Unmount, TypeOK
<1>22. CASE UNCHANGED vars
  BY <1>22 DEF vars, TypeOK, HandleInv, LengthInv, WithinCapacity
<1> HIDE DEF TreeStep
<1> QED
  BY <1>1, <1>2, <1>3, <1>4, <1>5, <1>6, <1>7, <1>8, <1>9, <1>10, <1>11, <1>12, <1>13, <1>14,
     <1>15, <1>16, <1>17, <1>18, <1>20, <1>21, <1>22
  DEF Next

(***************************************************************************)
(* TypeOK holds in every state MemoryFs reaches: among others, positions   *)
(* and lengths stay u64s, and what renames and unmounts leave is a tree    *)
(* over the keys.                                                          *)
(***************************************************************************)
THEOREM TypeCorrect == Spec => []TypeOK
<1>1. Inv => TypeOK
  BY DEF Inv
<1> QED
  BY <1>1, InvInit, InvStep, PTL DEF Spec

(***************************************************************************)
(* However many clients reserve, undo, resize and drop at once, what       *)
(* Volume.used accounts for never exceeds the capacity (reserve, resize).  *)
(***************************************************************************)
THEOREM CapacityRespected == Spec => []WithinCapacity
<1>1. Inv => WithinCapacity
  BY DEF Inv
<1> QED
  BY <1>1, InvInit, InvStep, PTL DEF Spec

LEMMA InvInvariant == Spec => []Inv
BY InvInit, InvStep, PTL DEF Spec

-----------------------------------------------------------------------------
(* What one step does to the bytes. *)

(* The step formula of WritesStayInRange, for one file. *)
InRange(f) ==
  \A i \in 1..Len(data'[f]) :
    \/ i <= Len(data[f]) /\ data'[f][i] = data[f][i]
    \/ i > Len(data[f]) /\ data'[f][i] = 0
    \/ \E c \in Clients : fd[c] = f /\ i \in (pos[c] + 1)..pos'[c]

LEMMA SameBytes ==
  ASSUME TypeOK, NEW f \in Files, data'[f] = data[f]
  PROVE  InRange(f)
<1>1. Len(data[f]) \in Nat
  BY DEF TypeOK
<1> QED
  BY <1>1 DEF InRange

(* Only a file whose last reference goes loses its bytes. *)
LEMMA DroppedBytes ==
  ASSUME TypeOK, DropFiles(tree', fd'),
         NEW f \in Referenced(tree, fd) \cap Referenced(tree', fd')
  PROVE  InRange(f)
<1>1. f \in Files
  BY DEF Referenced
<1>2. data'[f] = data[f]
  BY <1>1 DEF DropFiles
<1> QED
  BY <1>1, <1>2, SameBytes

LEMMA ResizedBytes ==
  ASSUME TypeOK, NEW f \in Files, NEW n \in Nat, data'[f] = ResizedTo(data[f], n)
  PROVE  InRange(f)
<1>1. data[f] \in Seq(0..1)
  BY DEF TypeOK
<1>2. Len(data'[f]) = n /\ Len(data[f]) \in Nat
  BY <1>1, ResizedToType
<1>3. \A i \in 1..n : data'[f][i] = IF i <= Len(data[f]) THEN data[f][i] ELSE 0
  BY DEF ResizedTo
<1> QED
  BY <1>2, <1>3 DEF InRange

(***************************************************************************)
(* However cursors, grants and truncations of several clients interleave,  *)
(* a step changes a byte of a file that stays referenced only inside the   *)
(* range its writer's cursor moves over, and adds nothing but zeros beyond *)
(* it (write_at, set_len, Drop for MemFile).                               *)
(***************************************************************************)
THEOREM BytesAreTheWriters == Spec => WritesStayInRange
<1> DEFINE Files2 == Referenced(tree, fd) \cap Referenced(tree', fd')
<1>1. Inv /\ [Next]_vars => [\A f \in Files2 : InRange(f)]_vars
  <2> SUFFICES ASSUME Inv, Next, NEW f \in Files2 PROVE InRange(f)
    BY DEF vars
  <2>0. TypeOK /\ f \in Files
    BY DEF Inv, Referenced
  <2>1. ASSUME UNCHANGED data PROVE InRange(f)
    BY <2>0, <2>1, SameBytes
  <2>2. ASSUME DropFiles(tree', fd') PROVE InRange(f)
    BY <2>0, <2>2, DroppedBytes
  <2>3. ASSUME NEW c \in Clients, Fill(c) PROVE InRange(f)
    <3>1. fd[c] \in Files
      BY <2>3 DEF Fill, At, Inv, HandleInv
    <3>2. CASE f # fd[c]
      <4>1. data'[f] = data[f]
        BY <2>0, <2>3, <3>1, <3>2 DEF Fill, TypeOK
      <4> QED
        BY <2>0, <4>1, SameBytes
    <3>3. CASE f = fd[c]
      <4> DEFINE n == Greatest(goal[c], Len(data[f]))
                 grown == ResizedTo(data[f], n)
                 filled == [i \in DOMAIN grown |->
                              IF i \in (pos[c] + 1)..(pos[c] + count[c]) THEN 1 ELSE grown[i]]
      <4>1. data[f] \in Seq(0..1) /\ goal[c] \in Nat /\ n \in Nat
        BY <2>0 DEF TypeOK, Greatest
      <4>2. data' = [data EXCEPT ![fd[c]] = filled] /\ pos' = [pos EXCEPT ![c] = pos[c] + count[c]]
        BY <2>3, <3>3 DEF Fill
      <4>3. data'[f] = filled /\ pos'[c] = pos[c] + count[c]
        <5> HIDE DEF filled
        <5> QED
          BY <2>0, <3>3, <4>2 DEF TypeOK
      <4>4. DOMAIN grown = 1..n
        BY DEF ResizedTo
      <4>5. Len(filled) = n
        BY <4>1, <4>4
      <4>6. \A i \in 1..n : grown[i] = IF i <= Len(data[f]) THEN data[f][i] ELSE 0
        BY DEF ResizedTo
      <4>7. \A i \in 1..n : filled[i] = IF i \in (pos[c] + 1)..(pos[c] + count[c])
                                          THEN 1 ELSE grown[i]
        BY <4>4
      <4>8. Len(data[f]) \in Nat
        BY <4>1
      <4> HIDE DEF n, grown, filled
      <4>9. ASSUME NEW i \in 1..n
            PROVE  \/ i <= Len(data[f]) /\ data'[f][i] = data[f][i]
                   \/ i > Len(data[f]) /\ data'[f][i] = 0
                   \/ fd[c] = f /\ i \in (pos[c] + 1)..pos'[c]
        <5>1. CASE i \in (pos[c] + 1)..(pos[c] + count[c])
          BY <3>3, <4>3, <5>1
        <5>2. CASE i \notin (pos[c] + 1)..(pos[c] + count[c])
          BY <4>1, <4>3, <4>6, <4>7, <4>8, <5>2
        <5> QED
          BY <5>1, <5>2
      <4> QED
        BY <4>3, <4>5, <4>9 DEF InRange
    <3> QED
      BY <3>2, <3>3
  <2>4. ASSUME NEW c \in Clients, ResizeData(c) PROVE InRange(f)
    <3>1. fd[c] \in Files /\ goal[c] \in Nat
      BY <2>0, <2>4 DEF ResizeData, At, Inv, HandleInv, TypeOK
    <3>2. data'[f] = data[f] \/ data'[f] = ResizedTo(data[f], goal[c])
      BY <2>0, <2>4, <3>1 DEF ResizeData, TypeOK
    <3> QED
      BY <2>0, <3>1, <3>2, SameBytes, ResizedBytes
  <2>5. ASSUME NEW c \in Clients, Close(c) PROVE InRange(f)
    BY <2>2, <2>5 DEF Close
  <2>6. ASSUME NEW c \in Clients, NEW k \in Keys,
               \/ open(c, k) \/ SetLenByPath(c, k)
               \/ \E opts \in OpenModes : open_write(c, k, opts)
        PROVE  InRange(f)
    BY <2>1, <2>6 DEF open, SetLenByPath, open_write
  <2>7. ASSUME NEW c \in Clients,
               \/ \E n \in WriteLens : read(c, n) \/ write(c, n)
               \/ \E from \in {"start", "end", "current"}, off \in Offsets : seek(c, from, off)
               \/ \E len \in SetLens : set_len(c, len) \/ ResizeByPath(c, len)
               \/ TruncateOnOpen(c) \/ Position(c) \/ Undo(c)
        PROVE  InRange(f)
    <3>1. UNCHANGED data
      BY <2>7 DEF read, write, seek, set_len, ResizeByPath, TruncateOnOpen, Position, Undo
    <3> QED
      BY <2>1, <3>1
  <2>8. ASSUME NEW k \in Keys, create_dir(k) PROVE InRange(f)
    BY <2>1, <2>8 DEF create_dir
  <2>9. ASSUME NEW k \in Keys, remove(k) PROVE InRange(f)
    BY <2>2, <2>9 DEF remove
  <2>10. ASSUME NEW from \in Keys, NEW to \in Keys, Rename(from, to) PROVE InRange(f)
    BY <2>2, <2>10 DEF Rename
  <2>11. ASSUME NEW k \in MountKeys, mount(k) \/ mount_writable(k) \/ Unmount(k) PROVE InRange(f)
    BY <2>2, <2>11 DEF mount, mount_writable, InsertMount, Unmount
  <2> QED
    BY <2>3, <2>4, <2>5, <2>6, <2>7, <2>8, <2>9, <2>10, <2>11 DEF Next
<1> QED
  BY <1>1, InvInvariant, PTL DEF Spec, WritesStayInRange, InRange

(***************************************************************************)
(* write_at stores less than its buffer only when the volume has no byte   *)
(* left, whatever the cursor, the gap before it and the other clients'     *)
(* reservations are.                                                       *)
(***************************************************************************)
THEOREM ShortWritesFillTheVolume == Spec => ShortOnlyWhenFull
<1> DEFINE Short == \A c \in Clients, n \in WriteLens :
                      write(c, n) /\ count'[c] < n => used' = Capacity
<1>1. Inv /\ [Next]_vars => [Short]_vars
  <2> SUFFICES ASSUME Inv, NEW c \in Clients, NEW n \in WriteLens, write(c, n), count'[c] < n
               PROVE  used' = Capacity
    BY DEF vars
  <2> DEFINE old == Len(data[fd[c]])
             desired == Greatest(pos[c] + n, old)
             granted == reserve(old, desired)
             fits == Least(SatSub(granted, pos[c]), n)
  <2>1. fd[c] \in Files /\ pos[c] \in Nat /\ n \in Nat /\ n > 0 /\ used \in Nat /\ used <= Capacity
    BY VolumeAssumption DEF write, Inv, HandleInv, TypeOK, WithinCapacity
  <2>2. old \in Nat
    BY <2>1 DEF Inv, TypeOK
  <2>3. used' = used + (granted - old) /\ count' = [count EXCEPT ![c] = fits]
    BY DEF write
  <2>4. fits < n
    <3> HIDE DEF fits
    <3> QED
      BY <2>3 DEF Inv, TypeOK
  <2> HIDE DEF old
  <2>5. desired \in Nat /\ old <= desired /\ pos[c] + n <= desired
    BY <2>1, <2>2 DEF Greatest
  <2> HIDE DEF desired
  <2>6. granted \in Nat
    BY <2>1, <2>2, <2>5, ReserveBounds
  <2>7. granted < desired
    <3> HIDE DEF granted
    <3> QED
      BY <2>1, <2>4, <2>5, <2>6 DEF Least, SatSub
  <2> QED
    BY <2>1, <2>2, <2>3, <2>5, <2>7, VolumeAssumption DEF reserve, Least, SatSub
<1> QED
  BY <1>1, InvInvariant, PTL DEF Spec, ShortOnlyWhenFull

-----------------------------------------------------------------------------
(* Keys: prefixes, position by position. *)

Key == Seq(Component)

Pre(a, k) == Len(a) <= Len(k) /\ \A j \in 1..Len(a) : a[j] = k[j]

LEMMA LeastNumber ==
  ASSUME NEW T, T \subseteq Nat, T # {}
  PROVE  \E x \in T : \A y \in T : x <= y
<1> DEFINE R == OpToRel(<, Nat)
<1>1. \E x \in T : \A y \in T : ~ (<<y, x>> \in R)
  <2>1. IsWellFoundedOn(R, Nat)
    BY NatLessThanWellFounded
  <2> HIDE DEF R
  <2> QED
    BY <2>1, WFMin
<1>2. \A x, y \in Nat : <<y, x>> \in R <=> y < x
  BY DEF OpToRel
<1> HIDE DEF R
<1>3. PICK x \in T : \A y \in T : ~ (<<y, x>> \in R)
  BY <1>1
<1>4. ASSUME NEW y \in T PROVE x <= y
  <2>1. x \in Nat /\ y \in Nat
    OBVIOUS
  <2>2. ~ (y < x)
    BY <1>2, <1>3, <2>1
  <2> QED
    BY <2>1, <2>2
<1> QED
  BY <1>4

LEMMA SamePrefix ==
  ASSUME NEW a \in Key, NEW b \in Key, Pre(a, b), Len(a) = Len(b)
  PROVE  a = b
BY DEF Key, Pre

LEMMA PrePre ==
  ASSUME NEW a \in Key, NEW b \in Key, NEW k \in Key
  PROVE  /\ Pre(a, b) /\ Pre(b, k) => Pre(a, k)
         /\ Pre(a, k) /\ Pre(b, k) /\ Len(a) <= Len(b) => Pre(a, b)
<1>1. Len(a) \in Nat /\ Len(b) \in Nat /\ Len(k) \in Nat
  BY DEF Key
<1> QED
  BY <1>1 DEF Pre

LEMMA Cut ==
  ASSUME NEW k \in Key, NEW n \in 0..Len(k)
  PROVE  SubSeq(k, 1, n) \in Key /\ Len(SubSeq(k, 1, n)) = n /\ Pre(SubSeq(k, 1, n), k)
BY DEF Key, Pre

LEMMA CutPrefix ==
  ASSUME NEW k \in Key, NEW a \in Key, Pre(a, k)
  PROVE  a = SubSeq(k, 1, Len(a))
<1>1. Len(a) \in 0..Len(k)
  BY DEF Key, Pre
<1>2. /\ SubSeq(k, 1, Len(a)) \in Key /\ Len(SubSeq(k, 1, Len(a))) = Len(a)
      /\ Pre(SubSeq(k, 1, Len(a)), k)
  BY <1>1, Cut
<1>3. PICK b \in Key : b = SubSeq(k, 1, Len(a))
  BY <1>2
<1>4. Len(b) = Len(a) /\ Pre(b, k)
  BY <1>2, <1>3
<1>5. Pre(a, b)
  BY <1>1, <1>4, PrePre DEF Key
<1> QED
  BY <1>3, <1>4, <1>5, SamePrefix

LEMMA AncestorsPre ==
  ASSUME NEW k \in Key, NEW a
  PROVE  a \in Ancestors(k) <=> a \in Key /\ Pre(a, k) /\ Len(a) < Len(k)
<1>0. Len(k) \in Nat
  BY DEF Key
<1>1. ASSUME a \in Ancestors(k) PROVE a \in Key /\ Pre(a, k) /\ Len(a) < Len(k)
  <2>1. PICK n \in 0..(Len(k) - 1) : a = SubSeq(k, 1, n)
    BY <1>1 DEF Ancestors
  <2>2. n \in 0..Len(k) /\ n < Len(k)
    BY <1>0
  <2> QED
    BY <2>1, <2>2, Cut
<1>2. ASSUME a \in Key, Pre(a, k), Len(a) < Len(k) PROVE a \in Ancestors(k)
  <2>1. a = SubSeq(k, 1, Len(a))
    BY <1>2, CutPrefix
  <2>2. Len(a) \in 0..(Len(k) - 1)
    BY <1>0, <1>2 DEF Key
  <2> QED
    BY <2>1, <2>2 DEF Ancestors
<1> QED
  BY <1>1, <1>2

LEMMA SubtreePre ==
  ASSUME NEW k \in Key, NEW key \in Key, key # Root
  PROVE  /\ InSubtree(k, key) <=> Pre(key, k)
         /\ Below(k, key) <=> Pre(key, k) /\ Len(key) < Len(k)
<1>0. Len(k) \in Nat /\ Len(key) \in Nat
  BY DEF Key
<1>1. IsPrefix(key, k) <=> Pre(key, k)
  <2>1. ASSUME IsPrefix(key, k) PROVE Pre(key, k)
    <3>1. Len(key) <= Len(k) /\ SubSeq(key, 1, Len(key)) = SubSeq(k, 1, Len(key))
      BY <2>1 DEF IsPrefix
    <3>2. ASSUME NEW j \in 1..Len(key) PROVE key[j] = k[j]
      <4>1. SubSeq(key, 1, Len(key))[j] = key[j] /\ SubSeq(k, 1, Len(key))[j] = k[j]
        BY <1>0, <3>1 DEF Key
      <4> QED
        BY <3>1, <4>1
    <3> QED
      BY <3>1, <3>2 DEF Pre
  <2>2. ASSUME Pre(key, k) PROVE IsPrefix(key, k)
    <3>1. Pre(key, key)
      BY <1>0 DEF Pre
    <3>2. key = SubSeq(k, 1, Len(key)) /\ key = SubSeq(key, 1, Len(key))
      BY <2>2, <3>1, CutPrefix
    <3> QED
      BY <2>2, <3>2 DEF IsPrefix, Pre
  <2> QED
    BY <2>1, <2>2
<1>2. Pre(key, k) => Len(key) <= Len(k)
  BY DEF Pre
<1>3. Pre(key, k) => (Len(key) < Len(k) <=> key # k)
  BY <1>0, <1>2, SamePrefix
<1>4. Below(k, key) <=> Pre(key, k) /\ Len(key) < Len(k)
  BY <1>1, <1>3 DEF Below, IsStrictPrefix
<1>5. k = key => Pre(key, k)
  BY <1>0 DEF Pre
<1>6. InSubtree(k, key) <=> Pre(key, k)
  BY <1>0, <1>2, <1>3, <1>4, <1>5 DEF InSubtree
<1> QED
  BY <1>4, <1>6

LEMMA ParentPre ==
  ASSUME NEW k \in Key, k # Root
  PROVE  /\ parent_key(k) \in Key /\ Pre(parent_key(k), k)
         /\ Len(parent_key(k)) = Len(k) - 1 /\ Len(k) > 0
<1>1. Len(k) \in Nat /\ Len(k) > 0
  BY DEF Key, Root
<1>2. Len(k) - 1 \in 0..Len(k)
  BY <1>1
<1> QED
  BY <1>1, <1>2, Cut DEF parent_key, Front

LEMMA Joined ==
  ASSUME NEW s \in Seq(Component), NEW r \in Seq(Component)
  PROVE  /\ s \o r \in Seq(Component) /\ Len(s \o r) = Len(s) + Len(r)
         /\ \A j \in 1..(Len(s) + Len(r)) :
              (s \o r)[j] = IF j <= Len(s) THEN s[j] ELSE r[j - Len(s)]
OBVIOUS

LEMMA Suffix ==
  ASSUME NEW s \in Seq(Component), NEW n \in 0..Len(s)
  PROVE  /\ SubSeq(s, n + 1, Len(s)) \in Seq(Component)
         /\ Len(SubSeq(s, n + 1, Len(s))) = Len(s) - n
         /\ \A j \in 1..(Len(s) - n) : SubSeq(s, n + 1, Len(s))[j] = s[n + j]
<1>1. Len(s) \in Nat /\ n \in Nat /\ n <= Len(s)
  OBVIOUS
<1> QED
  BY <1>1

(* rekey replaces the prefix from by to, and rekey back undoes it. *)
LEMMA RekeyPre ==
  ASSUME NEW m \in Key, NEW from \in Key, NEW to \in Key, Pre(from, m)
  PROVE  \E r \in Key :
           /\ r = rekey(m, from, to) /\ Pre(to, r)
           /\ Len(r) = Len(to) + Len(m) - Len(from)
           /\ \A j \in 1..(Len(m) - Len(from)) : r[Len(to) + j] = m[Len(from) + j]
<1>1. Len(m) \in Nat /\ Len(from) \in Nat /\ Len(to) \in Nat /\ Len(from) <= Len(m)
  BY DEF Key, Pre
<1>2. PICK tail \in Key : /\ tail = SubSeq(m, Len(from) + 1, Len(m))
                         /\ Len(tail) = Len(m) - Len(from)
                         /\ \A j \in 1..(Len(m) - Len(from)) : tail[j] = m[Len(from) + j]
  <2>1. Len(from) \in 0..Len(m)
    BY <1>1
  <2> QED
    BY <2>1, Suffix DEF Key
<1>3. /\ Len(tail) = Len(m) - Len(from) /\ Len(tail) \in Nat
      /\ \A j \in 1..(Len(m) - Len(from)) : tail[j] = m[Len(from) + j]
  BY <1>1, <1>2
<1>4. rekey(m, from, to) = to \o tail
  BY <1>2 DEF rekey
<1>5. /\ to \o tail \in Key /\ Len(to \o tail) = Len(to) + Len(tail)
      /\ \A j \in 1..Len(to) : (to \o tail)[j] = to[j]
      /\ \A j \in 1..Len(tail) : (to \o tail)[Len(to) + j] = tail[j]
  <2>1. to \o tail \in Key /\ Len(to \o tail) = Len(to) + Len(tail) /\ Len(tail) \in Nat
    BY <1>3, Joined DEF Key
  <2>2. \A j \in 1..(Len(to) + Len(tail)) :
          (to \o tail)[j] = IF j <= Len(to) THEN to[j] ELSE tail[j - Len(to)]
    BY Joined DEF Key
  <2>3. \A j \in 1..Len(tail) : /\ Len(to) + j \in 1..(Len(to) + Len(tail))
                                /\ ~(Len(to) + j <= Len(to)) /\ (Len(to) + j) - Len(to) = j
    BY <1>1, <2>1
  <2>4. \A j \in 1..Len(to) : j \in 1..(Len(to) + Len(tail)) /\ j <= Len(to)
    BY <1>1, <2>1
  <2> QED
    BY <2>1, <2>2, <2>3, <2>4
<1>6. PICK r \in Key : r = to \o tail
  BY <1>5
<1>7. /\ Len(r) = Len(to) + Len(m) - Len(from)
      /\ \A j \in 1..Len(to) : r[j] = to[j]
      /\ \A j \in 1..(Len(m) - Len(from)) : r[Len(to) + j] = m[Len(from) + j]
  BY <1>1, <1>3, <1>5, <1>6
<1>8. Pre(to, r)
  BY <1>1, <1>7 DEF Pre
<1> QED
  BY <1>4, <1>6, <1>7, <1>8

LEMMA RekeyBack ==
  ASSUME NEW m \in Key, NEW from \in Key, NEW to \in Key, Pre(from, m)
  PROVE  rekey(rekey(m, from, to), to, from) = m
<1>1. PICK r \in Key :
        /\ r = rekey(m, from, to) /\ Pre(to, r)
        /\ Len(r) = Len(to) + Len(m) - Len(from)
        /\ \A j \in 1..(Len(m) - Len(from)) : r[Len(to) + j] = m[Len(from) + j]
  BY RekeyPre
<1>2. /\ Pre(to, r) /\ Len(r) = Len(to) + Len(m) - Len(from)
      /\ \A j \in 1..(Len(m) - Len(from)) : r[Len(to) + j] = m[Len(from) + j]
  BY <1>1
<1>3. PICK b \in Key :
        /\ b = rekey(r, to, from) /\ Pre(from, b)
        /\ Len(b) = Len(from) + Len(r) - Len(to)
        /\ \A j \in 1..(Len(r) - Len(to)) : b[Len(from) + j] = r[Len(to) + j]
  BY <1>2, RekeyPre
<1>4. /\ Pre(from, b) /\ Len(b) = Len(from) + Len(r) - Len(to)
      /\ \A j \in 1..(Len(r) - Len(to)) : b[Len(from) + j] = r[Len(to) + j]
  BY <1>3
<1>5. /\ Len(m) \in Nat /\ Len(from) \in Nat /\ Len(to) \in Nat /\ Len(from) <= Len(m)
  BY DEF Key, Pre
<1>6. Len(b) = Len(m) /\ Len(r) - Len(to) = Len(m) - Len(from)
  BY <1>2, <1>4, <1>5
<1>7. ASSUME NEW j \in 1..Len(m) PROVE b[j] = m[j]
  <2>1. CASE j <= Len(from)
    BY <1>4, <1>5, <2>1 DEF Pre
  <2>2. CASE ~(j <= Len(from))
    <3>1. PICK x \in 1..(Len(m) - Len(from)) : j = Len(from) + x
      <4>1. j - Len(from) \in 1..(Len(m) - Len(from)) /\ j = Len(from) + (j - Len(from))
        BY <1>5, <2>2
      <4> QED
        BY <4>1
    <3> QED
      BY <1>2, <1>4, <1>6, <3>1
  <2> QED
    BY <2>1, <2>2
<1>8. Pre(m, b)
  BY <1>5, <1>6, <1>7 DEF Pre
<1> QED
  BY <1>1, <1>3, <1>6, <1>8, SamePrefix

LEMMA RekeyInjective ==
  ASSUME NEW m \in Key, NEW n \in Key, NEW from \in Key, NEW to \in Key, Pre(from, m), Pre(from, n),
         rekey(m, from, to) = rekey(n, from, to)
  PROVE  m = n
BY RekeyBack

(* A prefix of a moved key is above the new name, or moved with it. *)
LEMMA RekeyPrefix ==
  ASSUME NEW m \in Key, NEW from \in Key, NEW to \in Key, Pre(from, m),
         NEW a \in Key, Pre(a, rekey(m, from, to)), Len(a) >= Len(to)
  PROVE  \E b \in Key : /\ Pre(from, b) /\ Pre(b, m) /\ a = rekey(b, from, to)
                        /\ Len(b) = Len(a) - Len(to) + Len(from)
<1>0. /\ Len(m) \in Nat /\ Len(from) \in Nat /\ Len(to) \in Nat /\ Len(a) \in Nat
      /\ Len(from) <= Len(m)
  BY DEF Key, Pre
<1>1. PICK r \in Key :
        /\ r = rekey(m, from, to) /\ Pre(to, r)
        /\ Len(r) = Len(to) + Len(m) - Len(from)
        /\ \A j \in 1..(Len(m) - Len(from)) : r[Len(to) + j] = m[Len(from) + j]
  BY RekeyPre
<1>2. /\ Pre(to, r) /\ Len(r) = Len(to) + Len(m) - Len(from)
      /\ \A j \in 1..(Len(m) - Len(from)) : r[Len(to) + j] = m[Len(from) + j]
  BY <1>1
<1>3. Pre(a, r) /\ Len(a) <= Len(r)
  BY <1>1 DEF Pre
<1>4. PICK n \in 0..Len(m) : n = Len(a) - Len(to) + Len(from)
  <2>1. Len(a) <= Len(to) + Len(m) - Len(from)
    BY <1>2, <1>3
  <2>2. Len(a) - Len(to) + Len(from) \in 0..Len(m)
    BY <1>0, <2>1
  <2> QED
    BY <2>2
<1>5. PICK b \in Key : b = SubSeq(m, 1, n)
  BY <1>4, Cut
<1>6. Len(b) = n /\ Pre(b, m)
  BY <1>5, Cut
<1>7. Pre(from, b)
  BY <1>0, <1>4, <1>6, PrePre
<1>8. PICK s \in Key :
        /\ s = rekey(b, from, to) /\ Pre(to, s)
        /\ Len(s) = Len(to) + Len(b) - Len(from)
        /\ \A j \in 1..(Len(b) - Len(from)) : s[Len(to) + j] = b[Len(from) + j]
  BY <1>7, RekeyPre
<1>9. /\ Pre(to, s) /\ Len(s) = Len(to) + Len(b) - Len(from)
      /\ \A j \in 1..(Len(b) - Len(from)) : s[Len(to) + j] = b[Len(from) + j]
  BY <1>8
<1>10. Len(s) = Len(a)
  BY <1>0, <1>4, <1>6, <1>9
<1>11. ASSUME NEW j \in 1..Len(a) PROVE a[j] = s[j]
  <2>1. a[j] = r[j]
    BY <1>3 DEF Pre
  <2>2. CASE j <= Len(to)
    <3>1. r[j] = to[j] /\ s[j] = to[j]
      BY <1>0, <1>2, <1>9, <2>2 DEF Pre
    <3> QED
      BY <2>1, <3>1
  <2>3. CASE ~(j <= Len(to))
    <3>1. PICK x \in 1..(Len(b) - Len(from)) : j = Len(to) + x
      <4>1. j - Len(to) \in 1..(Len(b) - Len(from)) /\ j = Len(to) + (j - Len(to))
        BY <1>0, <1>4, <1>6, <2>3
      <4> QED
        BY <4>1
    <3>2. x \in 1..(Len(m) - Len(from)) /\ Len(from) + x \in 1..Len(b)
      BY <1>0, <1>4, <1>6, <3>1
    <3>3. r[j] = m[Len(from) + x] /\ s[j] = b[Len(from) + x]
      BY <1>2, <1>9, <3>1, <3>2
    <3>4. b[Len(from) + x] = m[Len(from) + x]
      BY <1>6, <3>2 DEF Pre
    <3> QED
      BY <2>1, <3>3, <3>4
  <2> QED
    BY <2>2, <2>3
<1>12. Pre(a, s)
  BY <1>0, <1>10, <1>11 DEF Pre
<1>13. a = s
  BY <1>10, <1>12, SamePrefix
<1> QED
  BY <1>4, <1>6, <1>7, <1>8, <1>13

-----------------------------------------------------------------------------
(* A tree in which every ancestor of an entry is a directory entry. *)

Closed(t) == \A k \in DOMAIN t : \A a \in Ancestors(k) : IsDir(t, a)

LEMMA TreeKeysAreKeys ==
  /\ Root \in Key /\ \A k \in Keys : k \in Key /\ k # Root
  /\ \A t : IsTree(t) => \A k \in DOMAIN t : k \in Key
<1>1. Root \in Key /\ \A k \in Keys : k \in Key /\ k # Root
  BY KeysAssumption, VolumeAssumption DEF Key, Root
<1> QED
  BY <1>1 DEF IsTree

(* Whatever is below a directory is below one of its children. *)
LEMMA ChildToward ==
  ASSUME NEW t, IsTree(t), Closed(t), NEW x \in DOMAIN t, NEW d \in Ancestors(x)
  PROVE  \E c \in DOMAIN t : c # Root /\ parent_key(c) = d /\ Pre(c, x)
<1>1. x \in Key /\ d \in Key /\ Pre(d, x) /\ Len(d) < Len(x)
  BY TreeKeysAreKeys, AncestorsPre
<1>2. Len(d) \in Nat /\ Len(x) \in Nat
  BY <1>1 DEF Key
<1>3. PICK n \in 0..Len(x) : n = Len(d) + 1
  BY <1>1, <1>2
<1>4. PICK c \in Key : c = SubSeq(x, 1, n)
  BY <1>1, <1>3, Cut
<1>5. Len(c) = n /\ Pre(c, x)
  BY <1>1, <1>4, Cut
<1>6. c \in DOMAIN t
  <2>1. CASE n = Len(x)
    BY <1>1, <1>5, <2>1, SamePrefix
  <2>2. CASE n # Len(x)
    <3>1. c \in Ancestors(x)
      BY <1>1, <1>2, <1>3, <1>5, <2>2, AncestorsPre
    <3> QED
      BY <3>1 DEF Closed, IsDir
  <2> QED
    BY <2>1, <2>2
<1>7. c # Root
  BY <1>2, <1>3, <1>5 DEF Root
<1>8. /\ parent_key(c) \in Key /\ Pre(parent_key(c), c) /\ Len(parent_key(c)) = Len(d)
  BY <1>2, <1>3, <1>5, <1>7, ParentPre
<1>9. Pre(parent_key(c), x)
  BY <1>1, <1>5, <1>8, PrePre
<1>10. parent_key(c) = d
  <2>1. PICK p \in Key : p = parent_key(c)
    BY <1>8
  <2>2. Pre(p, d)
    BY <1>1, <1>2, <1>8, <1>9, <2>1, PrePre
  <2> QED
    BY <1>1, <1>8, <2>1, <2>2, SamePrefix
<1> QED
  BY <1>5, <1>6, <1>7, <1>10

LEMMA ClosedInsert ==
  ASSUME NEW t, IsTree(t), Closed(t), NEW k \in Keys, NEW node,
         \A a \in Ancestors(k) : a \in DOMAIN t => t[a] = "dir",
         ~IsDir(t, k)
  PROVE  Closed(Insert(t, k, node))
<1> DEFINE u == Insert(t, k, node)
<1>1. k \in Key /\ \A x \in DOMAIN t : x \in Key
  BY TreeKeysAreKeys
<1>2. k \notin Ancestors(k)
  BY <1>1, AncestorsPre DEF Key
<1>3. /\ DOMAIN u = {k} \cup DOMAIN t \cup Ancestors(k)
      /\ \A x \in DOMAIN t : x # k => u[x] = t[x]
      /\ \A x \in Ancestors(k) : x # k /\ x \notin DOMAIN t => u[x] = "dir"
  BY DEF Insert, insert_ancestor_dirs, Over
<1> HIDE DEF u
<1>4. \A a \in Ancestors(k) : IsDir(u, a)
  BY <1>2, <1>3 DEF IsDir
<1>5. ASSUME NEW x \in DOMAIN t, NEW a \in Ancestors(x) PROVE IsDir(u, a)
  <2>1. IsDir(t, a)
    BY DEF Closed
  <2> QED
    BY <1>3, <2>1 DEF IsDir
<1>6. ASSUME NEW x \in Ancestors(k), NEW a \in Ancestors(x) PROVE a \in Ancestors(k)
  <2>1. x \in Key /\ Pre(x, k) /\ Len(x) < Len(k)
    BY <1>1, AncestorsPre
  <2>2. a \in Key /\ Pre(a, x) /\ Len(a) < Len(x)
    BY <2>1, AncestorsPre
  <2>3. Pre(a, k) /\ Len(a) < Len(k)
    BY <1>1, <2>1, <2>2, PrePre DEF Key
  <2> QED
    BY <1>1, <2>2, <2>3, AncestorsPre
<1> QED
  BY <1>3, <1>4, <1>5, <1>6 DEF Closed, u

LEMMA ClosedRemove ==
  ASSUME NEW t, IsTree(t), Closed(t), NEW k \in Keys, CanRemove(t, k)
  PROVE  Closed(Without(t, {k}))
<1>1. /\ DOMAIN Without(t, {k}) = DOMAIN t \ {k}
      /\ \A x \in DOMAIN t \ {k} : Without(t, {k})[x] = t[x]
  BY DEF Without, Restrict
<1>2. ASSUME NEW x \in DOMAIN t, NEW a \in Ancestors(x) PROVE IsDir(t, a) /\ a # k
  <2>1. IsDir(t, a)
    BY DEF Closed
  <2>2. HasChild(t, a)
    BY ChildToward DEF HasChild
  <2> QED
    BY <2>1, <2>2 DEF CanRemove, IsDir
<1> QED
  BY <1>1, <1>2 DEF Closed, IsDir

(* Nothing is below a rename's destination: it has no child, or is not there. *)
LEMMA NothingBelow ==
  ASSUME NEW t, IsTree(t), Closed(t), NEW from \in Keys, NEW to \in Keys, CanRename(t, from, to),
         NEW x \in DOMAIN t, Pre(to, x)
  PROVE  x = to
<1>1. x \in Key /\ to \in Key
  BY TreeKeysAreKeys
<1>2. CASE Len(to) = Len(x)
  BY <1>1, <1>2, SamePrefix
<1>3. CASE Len(to) # Len(x)
  <2>1. Len(to) < Len(x)
    BY <1>1, <1>3 DEF Pre, Key
  <2>2. to \in Ancestors(x)
    BY <1>1, <2>1, AncestorsPre
  <2>3. IsDir(t, to) /\ HasChild(t, to)
    BY <2>2, ChildToward DEF Closed, HasChild
  <2> QED
    BY <2>3 DEF CanRename, IsDir
<1> QED
  BY <1>2, <1>3

(***************************************************************************)
(* What rename leaves: an entry of the moved subtree under its new key, an *)
(* entry elsewhere, or a directory above the destination.                  *)
(***************************************************************************)
LEMMA RenameEntries ==
  ASSUME NEW t, IsTree(t), Closed(t), NEW from \in Keys, NEW to \in Keys, CanRename(t, from, to)
  PROVE  /\ \A m \in DOMAIN t : m # to /\ Pre(from, m) =>
              /\ rekey(m, from, to) \in DOMAIN rename(t, from, to)
              /\ rename(t, from, to)[rekey(m, from, to)] = t[m]
         /\ \A k \in DOMAIN t : k # to /\ ~Pre(from, k) =>
              k \in DOMAIN rename(t, from, to) /\ rename(t, from, to)[k] = t[k]
         /\ \A a \in Ancestors(to) :
              /\ a \in DOMAIN rename(t, from, to)
              /\ (a \in DOMAIN t => t[a] = "dir") => rename(t, from, to)[a] = "dir"
         /\ \A k \in DOMAIN rename(t, from, to) :
              \/ \E m \in DOMAIN t : m # to /\ Pre(from, m) /\ k = rekey(m, from, to)
              \/ k \in DOMAIN t /\ k # to /\ ~Pre(from, k)
              \/ k \in Ancestors(to)
<1> DEFINE cleared == Without(t, {to})
           to_move == {k \in DOMAIN cleared : InSubtree(k, from)}
           moved == [k \in {rekey(m, from, to) : m \in to_move} |->
                       cleared[CHOOSE m \in to_move : rekey(m, from, to) = k]]
           rest == Without(cleared, to_move)
           u == rename(t, from, to)
<1>0. from \in Key /\ to \in Key /\ from # Root /\ to # Root /\ \A k \in DOMAIN t : k \in Key
  BY TreeKeysAreKeys
<1>1. DOMAIN cleared = DOMAIN t \ {to} /\ \A k \in DOMAIN t \ {to} : cleared[k] = t[k]
  BY DEF Without, Restrict
<1>2. to_move = {k \in DOMAIN t : k # to /\ Pre(from, k)}
  BY <1>0, <1>1, SubtreePre
<1>3. /\ DOMAIN rest = DOMAIN cleared \ to_move
      /\ \A k \in DOMAIN rest : rest[k] = cleared[k]
  BY DEF Without, Restrict
<1>4. DOMAIN moved = {rekey(m, from, to) : m \in to_move}
  OBVIOUS
<1>5. ASSUME NEW m \in to_move PROVE moved[rekey(m, from, to)] = cleared[m]
  <2>1. PICK n : n = CHOOSE x \in to_move : rekey(x, from, to) = rekey(m, from, to)
    OBVIOUS
  <2>2. n \in to_move /\ rekey(n, from, to) = rekey(m, from, to)
    BY <2>1
  <2>3. m \in Key /\ n \in Key /\ Pre(from, m) /\ Pre(from, n)
    BY <1>0, <1>2, <2>2
  <2>4. n = m
    BY <1>0, <2>2, <2>3, RekeyInjective
  <2>5. rekey(m, from, to) \in DOMAIN moved
    BY <1>4
  <2> QED
    BY <2>1, <2>4, <2>5
<1>6. u = insert_ancestor_dirs(Over(moved, rest), to)
  BY DEF rename
<1> HIDE DEF cleared, to_move, moved, rest, u
<1>7. /\ DOMAIN u = DOMAIN moved \cup DOMAIN rest \cup Ancestors(to)
      /\ \A k \in DOMAIN moved : u[k] = moved[k]
      /\ \A k \in DOMAIN rest : k \notin DOMAIN moved => u[k] = rest[k]
      /\ \A k \in Ancestors(to) : k \notin DOMAIN moved \cup DOMAIN rest => u[k] = "dir"
  BY <1>6 DEF insert_ancestor_dirs, Over
<1>8. \A k \in DOMAIN moved : k \in Key /\ Pre(to, k)
  <2>1. ASSUME NEW m \in to_move PROVE rekey(m, from, to) \in Key /\ Pre(to, rekey(m, from, to))
    BY <1>0, <1>2, RekeyPre
  <2> QED
    BY <1>4, <2>1
<1>9. \A k \in DOMAIN rest : k \notin DOMAIN moved
  <2>1. \A k \in DOMAIN rest : k \in DOMAIN t /\ k # to
    BY <1>1, <1>3
  <2> QED
    BY <1>8, <2>1, NothingBelow
<1>10. \A a \in Ancestors(to) : a \notin DOMAIN moved
  <2>1. \A a \in Ancestors(to) : a \in Key /\ Len(a) < Len(to)
    BY <1>0, AncestorsPre
  <2> QED
    BY <1>0, <1>8, <2>1 DEF Pre, Key
<1>11. ASSUME NEW m \in DOMAIN t, m # to, Pre(from, m)
       PROVE  rekey(m, from, to) \in DOMAIN u /\ u[rekey(m, from, to)] = t[m]
  <2>1. m \in to_move /\ cleared[m] = t[m]
    BY <1>1, <1>2, <1>11
  <2>2. rekey(m, from, to) \in DOMAIN moved
    BY <1>4, <2>1
  <2> QED
    BY <1>5, <1>7, <2>1, <2>2
<1>12. ASSUME NEW k \in DOMAIN t, k # to, ~Pre(from, k) PROVE k \in DOMAIN u /\ u[k] = t[k]
  <2>1. k \in DOMAIN rest /\ rest[k] = t[k]
    BY <1>1, <1>2, <1>3, <1>12
  <2> QED
    BY <1>7, <1>9, <2>1
<1>13. ASSUME NEW a \in Ancestors(to)
       PROVE  a \in DOMAIN u /\ ((a \in DOMAIN t => t[a] = "dir") => u[a] = "dir")
  <2>1. a \in DOMAIN rest => a \in DOMAIN t /\ rest[a] = t[a]
    BY <1>1, <1>3
  <2> QED
    BY <1>7, <1>10, <2>1
<1>14. ASSUME NEW k \in DOMAIN u
       PROVE  \/ \E m \in DOMAIN t : m # to /\ Pre(from, m) /\ k = rekey(m, from, to)
              \/ k \in DOMAIN t /\ k # to /\ ~Pre(from, k)
              \/ k \in Ancestors(to)
  BY <1>1, <1>2, <1>3, <1>4, <1>7
<1> QED
  BY <1>11, <1>12, <1>13, <1>14 DEF u

LEMMA ClosedRename ==
  ASSUME NEW t, IsTree(t), Closed(t), NEW from \in Keys, NEW to \in Keys, CanRename(t, from, to),
         \A a \in Ancestors(to) : a \in DOMAIN t => t[a] = "dir"
  PROVE  Closed(rename(t, from, to))
<1> DEFINE u == rename(t, from, to)
<1>0. from \in Key /\ to \in Key /\ from # Root /\ to # Root /\ \A k \in DOMAIN t : k \in Key
  BY TreeKeysAreKeys
<1>1. \A m \in DOMAIN t : m # to /\ Pre(from, m) =>
        rekey(m, from, to) \in DOMAIN u /\ u[rekey(m, from, to)] = t[m]
  BY RenameEntries
<1>2. \A k \in DOMAIN t : k # to /\ ~Pre(from, k) => k \in DOMAIN u /\ u[k] = t[k]
  BY RenameEntries
<1>3. \A a \in Ancestors(to) : IsDir(u, a)
  BY RenameEntries DEF IsDir
<1>4. \A k \in DOMAIN u :
        \/ \E m \in DOMAIN t : m # to /\ Pre(from, m) /\ k = rekey(m, from, to)
        \/ k \in DOMAIN t /\ k # to /\ ~Pre(from, k)
        \/ k \in Ancestors(to)
  BY RenameEntries
<1> HIDE DEF u
<1>5. ASSUME NEW x \in DOMAIN t, NEW a \in Ancestors(x) PROVE IsDir(t, a) /\ a # to
  <2>1. IsDir(t, a) /\ HasChild(t, a)
    BY ChildToward DEF Closed, HasChild
  <2> QED
    BY <2>1 DEF CanRename, IsDir
<1>6. ASSUME NEW m \in DOMAIN t, m # to, Pre(from, m), NEW a \in Ancestors(rekey(m, from, to))
      PROVE  IsDir(u, a)
  <2>1. PICK r \in Key : /\ r = rekey(m, from, to) /\ Pre(to, r)
                         /\ Len(r) = Len(to) + Len(m) - Len(from)
    BY <1>0, <1>6, RekeyPre
  <2>2. a \in Key /\ Pre(a, r) /\ Len(a) < Len(r)
    BY <2>1, AncestorsPre
  <2>3. Len(a) \in Nat /\ Len(to) \in Nat /\ Len(m) \in Nat /\ Len(from) \in Nat
    BY <1>0, <2>2 DEF Key
  <2>4. CASE Len(a) < Len(to)
    <3>1. Pre(a, to)
      BY <1>0, <2>1, <2>2, <2>3, <2>4, PrePre
    <3>2. a \in Ancestors(to)
      BY <1>0, <2>2, <2>4, <3>1, AncestorsPre
    <3> QED
      BY <1>3, <3>2
  <2>5. CASE ~(Len(a) < Len(to))
    <3>1. PICK b \in Key : /\ Pre(from, b) /\ Pre(b, m) /\ a = rekey(b, from, to)
                           /\ Len(b) = Len(a) - Len(to) + Len(from)
      BY <1>0, <1>6, <2>1, <2>2, <2>3, <2>5, RekeyPrefix
    <3>2. Len(b) < Len(m)
      BY <2>1, <2>2, <2>3, <3>1
    <3>3. b \in Ancestors(m)
      BY <1>0, <3>1, <3>2, AncestorsPre
    <3>4. IsDir(t, b) /\ b # to
      BY <1>5, <3>3
    <3> QED
      BY <1>1, <3>1, <3>4 DEF IsDir
  <2> QED
    BY <2>4, <2>5
<1>7. ASSUME NEW k \in DOMAIN t, k # to, ~Pre(from, k), NEW a \in Ancestors(k) PROVE IsDir(u, a)
  <2>1. a \in Key /\ Pre(a, k)
    BY <1>0, AncestorsPre
  <2>2. ~Pre(from, a)
    BY <1>0, <1>7, <2>1, PrePre
  <2> QED
    BY <1>2, <1>5, <2>2 DEF IsDir
<1>8. ASSUME NEW k \in Ancestors(to), NEW a \in Ancestors(k) PROVE IsDir(u, a)
  <2>1. k \in Key /\ Pre(k, to) /\ Len(k) < Len(to)
    BY <1>0, AncestorsPre
  <2>2. a \in Key /\ Pre(a, k) /\ Len(a) < Len(k)
    BY <2>1, AncestorsPre
  <2>3. Pre(a, to) /\ Len(a) < Len(to)
    BY <1>0, <2>1, <2>2, PrePre DEF Key
  <2>4. a \in Ancestors(to)
    BY <1>0, <2>2, <2>3, AncestorsPre
  <2> QED
    BY <1>3, <2>4
<1>9. ASSUME NEW k \in DOMAIN u, NEW a \in Ancestors(k) PROVE IsDir(u, a)
  BY <1>4, <1>6, <1>7, <1>8, <1>9
<1> QED
  BY <1>9 DEF Closed, u

-----------------------------------------------------------------------------
(* remove_subtree: the subtree, and the directories above it that are idle. *)

Pruned(t, key) ==
  LET rest == {k \in DOMAIN t : ~Pre(key, k)}
  IN {d \in Ancestors(key) :
        \A e \in Ancestors(key) : Len(e) >= Len(d) =>
          /\ e \in rest /\ t[e] = "dir"
          /\ \A k \in rest : parent_key(k) = e => k # e /\ k \in Ancestors(key)}

LEMMA RemoveSubtreeEntries ==
  ASSUME NEW t, IsTree(t), NEW key \in Keys
  PROVE  /\ DOMAIN remove_subtree(t, key) = {k \in DOMAIN t : ~Pre(key, k) /\ k \notin Pruned(t, key)}
         /\ \A k \in DOMAIN remove_subtree(t, key) : remove_subtree(t, key)[k] = t[k]
<1>0. key \in Key /\ key # Root /\ \A k \in DOMAIN t : k \in Key
  BY TreeKeysAreKeys
<1> DEFINE gone == {k \in DOMAIN t : InSubtree(k, key)}
           rest == Without(t, gone)
           Childless(d) == \A k \in DOMAIN rest : parent_key(k) = d => k # d /\ k \in Ancestors(key)
           pruned == {d \in Ancestors(key) :
                        \A e \in Ancestors(key) : Len(e) >= Len(d) => IsDir(rest, e) /\ Childless(e)}
<1>1. remove_subtree(t, key) = Without(rest, pruned)
  BY DEF remove_subtree
<1>2. /\ DOMAIN rest = {k \in DOMAIN t : ~Pre(key, k)}
      /\ \A k \in DOMAIN rest : rest[k] = t[k]
  <2>1. DOMAIN rest = DOMAIN t \ gone /\ \A k \in DOMAIN rest : rest[k] = t[k]
    BY DEF Without, Restrict
  <2>2. \A k \in DOMAIN t : k \in gone <=> Pre(key, k)
    BY <1>0, SubtreePre
  <2> QED
    BY <2>1, <2>2
<1> HIDE DEF gone, rest
<1>3. pruned = Pruned(t, key)
  BY <1>2 DEF Pruned, IsDir
<1> HIDE DEF pruned
<1>4. /\ DOMAIN Without(rest, pruned) = DOMAIN rest \ pruned
      /\ \A k \in DOMAIN rest \ pruned : Without(rest, pruned)[k] = rest[k]
  BY DEF Without, Restrict
<1> QED
  BY <1>1, <1>2, <1>3, <1>4

(* A pruned directory has nothing below it but the subtree and pruned directories. *)
LEMMA BelowPruned ==
  ASSUME NEW t, IsTree(t), Closed(t), NEW key \in Keys,
         NEW d \in Pruned(t, key), NEW x \in DOMAIN t, Pre(d, x), ~Pre(key, x)
  PROVE  x \in Ancestors(key) /\ x \in Pruned(t, key)
<1>0. /\ key \in Key /\ x \in Key /\ Len(key) \in Nat /\ Len(x) \in Nat
      /\ d \in Ancestors(key)
  BY TreeKeysAreKeys DEF Key, Pruned
<1>1. d \in Key /\ Pre(d, key) /\ Len(d) < Len(key) /\ Len(d) \in Nat /\ Len(d) <= Len(x)
  BY <1>0, AncestorsPre DEF Pre, Key
<1>2. x \in Ancestors(key)
  <2>0. SUFFICES ASSUME x \notin Ancestors(key) PROVE FALSE
    OBVIOUS
  <2> DEFINE T == {n \in 0..Len(x) : n >= Len(d) /\ SubSeq(x, 1, n) \notin Ancestors(key)}
  <2>1. Len(x) \in T
    <3>1. Pre(x, x)
      BY <1>0 DEF Pre
    <3>2. x = SubSeq(x, 1, Len(x))
      BY <1>0, <3>1, CutPrefix
    <3>3. SubSeq(x, 1, Len(x)) \notin Ancestors(key)
      BY <2>0, <3>2
    <3>4. Len(x) \in 0..Len(x) /\ Len(x) >= Len(d)
      BY <1>0, <1>1
    <3> QED
      BY <3>3, <3>4
  <2>2. PICK n \in T : \A y \in T : n <= y
    <3>1. T \subseteq Nat /\ T # {}
      BY <1>0, <2>1
    <3> HIDE DEF T
    <3> QED
      BY <3>1, LeastNumber
  <2>3. n \in 0..Len(x) /\ n >= Len(d) /\ SubSeq(x, 1, n) \notin Ancestors(key)
    OBVIOUS
  <2>a. n \in Nat /\ n <= Len(x)
    BY <1>0, <2>3
  <2>4. n # Len(d)
    <3>1. d = SubSeq(x, 1, Len(d))
      BY <1>0, <1>1, CutPrefix
    <3> QED
      BY <1>0, <2>3, <3>1
  <2>5. n - 1 \in 0..Len(x) /\ n - 1 >= Len(d) /\ n - 1 \notin T
    BY <1>0, <1>1, <2>2, <2>3, <2>4
  <2>6. SubSeq(x, 1, n - 1) \in Ancestors(key)
    BY <2>5
  <2> HIDE DEF T
  <2>7. PICK e \in Key : e = SubSeq(x, 1, n - 1) /\ Len(e) = n - 1 /\ Pre(e, x)
    BY <1>0, <2>5, Cut
  <2>8. e \in Ancestors(x)
    <3>1. Len(e) < Len(x)
      BY <1>0, <2>a, <2>7
    <3> QED
      BY <1>0, <2>7, <3>1, AncestorsPre
  <2>9. PICK c \in DOMAIN t : c # Root /\ parent_key(c) = e /\ Pre(c, x)
    BY <2>8, ChildToward
  <2>10. c \in Key /\ ~Pre(key, c)
    BY <1>0, <2>9, PrePre, TreeKeysAreKeys
  <2>11. c \in Ancestors(key)
    BY <2>5, <2>6, <2>7, <2>9, <2>10 DEF Pruned
  <2>12. Len(c) = n
    <3>1. Len(c) \in Nat /\ Len(e) = Len(c) - 1
      BY <2>9, <2>10, ParentPre DEF Key
    <3>2. Len(e) = n - 1
      BY <2>7
    <3> QED
      BY <2>a, <3>1, <3>2
  <2>13. c = SubSeq(x, 1, n)
    BY <1>0, <2>9, <2>10, <2>12, CutPrefix
  <2> QED
    BY <2>3, <2>11, <2>13
<1>3. Len(x) >= Len(d)
  BY <1>0, <1>1
<1>4. \A e \in Ancestors(key) : Len(e) \in Nat
  BY <1>0, AncestorsPre DEF Key
<1>5. \A e \in Ancestors(key) : Len(e) >= Len(x) => Len(e) >= Len(d)
  BY <1>0, <1>1, <1>3, <1>4
<1> QED
  BY <1>2, <1>5 DEF Pruned

LEMMA ClosedRemoveSubtree ==
  ASSUME NEW t, IsTree(t), Closed(t), NEW key \in Keys
  PROVE  Closed(remove_subtree(t, key))
<1> DEFINE u == remove_subtree(t, key)
<1>0. key \in Key /\ \A k \in DOMAIN t : k \in Key
  BY TreeKeysAreKeys
<1>1. /\ DOMAIN u = {k \in DOMAIN t : ~Pre(key, k) /\ k \notin Pruned(t, key)}
      /\ \A k \in DOMAIN u : u[k] = t[k]
  BY RemoveSubtreeEntries
<1> HIDE DEF u
<1>2. ASSUME NEW k \in DOMAIN u, NEW a \in Ancestors(k) PROVE IsDir(u, a)
  <2>1. k \in DOMAIN t /\ ~Pre(key, k) /\ k \notin Pruned(t, key)
    BY <1>1
  <2>2. a \in Key /\ Pre(a, k) /\ IsDir(t, a)
    BY <1>0, <2>1, AncestorsPre DEF Closed
  <2>3. ~Pre(key, a)
    BY <1>0, <2>1, <2>2, PrePre
  <2>4. a \notin Pruned(t, key)
    BY <2>1, <2>2, BelowPruned
  <2> QED
    BY <1>1, <2>2, <2>3, <2>4 DEF IsDir
<1> QED
  BY <1>2 DEF Closed, u

-----------------------------------------------------------------------------
(* Callers that create nothing below a file keep the tree closed. *)

ClosedInv == Disciplined => Closed(tree)


LEMMA ClosedStep == Inv /\ ClosedInv /\ [Next]_vars => ClosedInv'
<1> SUFFICES ASSUME Inv, ClosedInv, [Next]_vars, Disciplined PROVE Closed(tree')
  BY DEF ClosedInv
<1>0. IsTree(tree) /\ Closed(tree)
  BY DEF Inv, TypeOK, ClosedInv
<1> USE VolumeAssumption
<1>1. ASSUME UNCHANGED tree PROVE Closed(tree')
  BY <1>0, <1>1
<1>2. ASSUME NEW c \in Clients, NEW k \in Keys, NEW opts \in OpenModes, open_write(c, k, opts)
      PROVE  Closed(tree')
  <2>1. CASE UNCHANGED tree
    BY <1>1, <2>1
  <2>2. CASE k \notin DOMAIN tree /\ FilesAreLeaves(tree, k) /\ tree' = Insert(tree, k, MemFileNew)
    <3>1. \A a \in Ancestors(k) : a \in DOMAIN tree => tree[a] = "dir"
      BY <2>2 DEF FilesAreLeaves
    <3>2. ~IsDir(tree, k)
      BY <2>2 DEF IsDir
    <3> QED
      BY <1>0, <2>2, <3>1, <3>2, ClosedInsert
  <2> QED
    BY <1>2, <2>1, <2>2 DEF open_write
<1>3. ASSUME NEW k \in Keys, create_dir(k) PROVE Closed(tree')
  <2>1. /\ \A a \in Ancestors(k) : a \in DOMAIN tree => tree[a] = "dir"
        /\ ~IsDir(tree, k) /\ tree' = Insert(tree, k, "dir")
    BY <1>3 DEF create_dir, FilesAreLeaves, IsDir
  <2> QED
    BY <1>0, <2>1, ClosedInsert
<1>4. ASSUME NEW k \in Keys, remove(k) PROVE Closed(tree')
  BY <1>0, <1>4, ClosedRemove DEF remove
<1>5. ASSUME NEW from \in Keys, NEW to \in Keys, Rename(from, to) PROVE Closed(tree')
  <2>1. /\ \A a \in Ancestors(to) : a \in DOMAIN tree => tree[a] = "dir"
        /\ CanRename(tree, from, to) /\ tree' = rename(tree, from, to)
    BY <1>5 DEF Rename, FilesAreLeaves
  <2> QED
    BY <1>0, <2>1, ClosedRename
<1>6. ASSUME NEW k \in MountKeys, NEW node, InsertMount(k, node) PROVE Closed(tree')
  <2>1. /\ \A a \in Ancestors(k) : a \in DOMAIN tree => tree[a] = "dir"
        /\ ~IsDir(tree, k) /\ tree' = Insert(tree, k, node) /\ k \in Keys
    BY <1>6 DEF InsertMount, FilesAreLeaves
  <2> QED
    BY <1>0, <2>1, ClosedInsert
<1>7. ASSUME NEW k \in MountKeys, mount(k) \/ mount_writable(k) PROVE Closed(tree')
  BY <1>6, <1>7 DEF mount, mount_writable
<1>8. ASSUME NEW k \in MountKeys, Unmount(k) PROVE Closed(tree')
  <2>1. k \in Keys /\ tree' = remove_subtree(tree, k)
    BY <1>8 DEF Unmount
  <2> QED
    BY <1>0, <2>1, ClosedRemoveSubtree
<1>9. ASSUME NEW c \in Clients,
             \/ \E k \in Keys : open(c, k) \/ SetLenByPath(c, k)
             \/ \E n \in WriteLens : read(c, n) \/ write(c, n)
             \/ \E from \in {"start", "end", "current"}, off \in Offsets : seek(c, from, off)
             \/ \E len \in SetLens : set_len(c, len) \/ ResizeByPath(c, len)
             \/ TruncateOnOpen(c) \/ Position(c) \/ Fill(c) \/ Undo(c) \/ ResizeData(c) \/ Close(c)
      PROVE  Closed(tree')
  <2>1. UNCHANGED tree
    BY <1>9 DEF open, SetLenByPath, read, write, seek, set_len, ResizeByPath, TruncateOnOpen,
                Position, Fill, Undo, ResizeData, Close
  <2> QED
    BY <1>1, <2>1
<1>10. CASE UNCHANGED vars
  BY <1>1, <1>10 DEF vars
<1> QED
  BY <1>2, <1>3, <1>4, <1>5, <1>7, <1>8, <1>9, <1>10 DEF Next

LEMMA ClosedInvariant == Spec => [](Inv /\ ClosedInv)
<1>1. Init => Inv /\ ClosedInv
  <2>1. ASSUME Init PROVE ClosedInv
    BY <2>1 DEF Init, ClosedInv, Closed
  <2> QED
    BY <2>1, InvInit
<1>2. (Inv /\ ClosedInv) /\ [Next]_vars => (Inv /\ ClosedInv)'
  BY InvStep, ClosedStep
<1> QED
  BY <1>1, <1>2, PTL DEF Spec

(***************************************************************************)
(* Every entry hangs from directories up to the root, for any tree and any *)
(* sequence of creates, renames, removals, mounts and unmounts.            *)
(***************************************************************************)
THEOREM EntriesReachable == Spec => []WellFormed
<1>1. Inv /\ ClosedInv => WellFormed
  <2> SUFFICES ASSUME Inv, ClosedInv, Disciplined, NEW k \in DOMAIN tree, k # Root
               PROVE  IsDir(tree, parent_key(k))
    BY DEF WellFormed
  <2>1. IsTree(tree) /\ Closed(tree)
    BY DEF Inv, TypeOK, ClosedInv
  <2>2. k \in Key
    BY <2>1, TreeKeysAreKeys
  <2>3. parent_key(k) \in Key /\ Pre(parent_key(k), k) /\ Len(parent_key(k)) < Len(k)
    <3>1. Len(k) \in Nat
      BY <2>2 DEF Key
    <3> QED
      BY <2>2, <3>1, ParentPre
  <2>4. parent_key(k) \in Ancestors(k)
    BY <2>2, <2>3, AncestorsPre
  <2> QED
    BY <2>1, <2>4 DEF Closed
<1> QED
  BY <1>1, ClosedInvariant, PTL

(***************************************************************************)
(* rename moves the subtree and nothing else: no entry is lost or          *)
(* overwritten besides the replaced one, none is left below the old name,  *)
(* and none was waiting below the new one.                                 *)
(***************************************************************************)
THEOREM RenamesAreExact == ASSUME Disciplined PROVE Spec => RenameMovesExactly
<1> DEFINE Moves(from, to) ==
             /\ \A k \in DOMAIN tree \ {to} :
                  LET new == IF InSubtree(k, from) THEN rekey(k, from, to) ELSE k
                  IN new \in DOMAIN tree' /\ tree'[new] = tree[k]
             /\ \A k \in DOMAIN tree' :
                  InSubtree(k, to) => rekey(k, to, from) \in DOMAIN tree
           Exact == \A from, to \in Keys : Rename(from, to) => Moves(from, to)
<1>1. (Inv /\ ClosedInv) /\ [Next]_vars => [Exact]_vars
  <2> SUFFICES ASSUME Inv, ClosedInv, NEW from \in Keys, NEW to \in Keys,
                      Rename(from, to)
               PROVE  Moves(from, to)
    BY DEF vars
  <2>0. IsTree(tree) /\ Closed(tree) /\ CanRename(tree, from, to) /\ tree' = rename(tree, from, to)
    BY DEF Inv, TypeOK, ClosedInv, Rename
  <2>1. from \in Key /\ to \in Key /\ from # Root /\ to # Root /\ \A k \in DOMAIN tree : k \in Key
    BY <2>0, TreeKeysAreKeys
  <2>2. \A k \in DOMAIN tree : InSubtree(k, from) <=> Pre(from, k)
    BY <2>1, SubtreePre
  <2>3. \A m \in DOMAIN tree : m # to /\ Pre(from, m) =>
          rekey(m, from, to) \in DOMAIN tree' /\ tree'[rekey(m, from, to)] = tree[m]
    BY <2>0, RenameEntries
  <2>4. \A k \in DOMAIN tree : k # to /\ ~Pre(from, k) => k \in DOMAIN tree' /\ tree'[k] = tree[k]
    BY <2>0, RenameEntries
  <2>5. \A k \in DOMAIN tree' :
          \/ \E m \in DOMAIN tree : m # to /\ Pre(from, m) /\ k = rekey(m, from, to)
          \/ k \in DOMAIN tree /\ k # to /\ ~Pre(from, k)
          \/ k \in Ancestors(to)
    BY <2>0, RenameEntries
  <2>6. ASSUME NEW k \in DOMAIN tree', InSubtree(k, to) PROVE rekey(k, to, from) \in DOMAIN tree
    <3>1. CASE \E m \in DOMAIN tree : m # to /\ Pre(from, m) /\ k = rekey(m, from, to)
      <4>1. PICK m \in DOMAIN tree : Pre(from, m) /\ k = rekey(m, from, to)
        BY <3>1
      <4>2. rekey(k, to, from) = m
        BY <2>1, <4>1, RekeyBack
      <4> QED
        BY <4>2
    <3>2. CASE k \in DOMAIN tree /\ k # to /\ ~Pre(from, k)
      <4>1. Pre(to, k)
        BY <2>1, <2>6, <3>2, SubtreePre
      <4> QED
        BY <2>0, <3>2, <4>1, NothingBelow
    <3>3. CASE k \in Ancestors(to)
      <4>1. k \in Key /\ Len(k) < Len(to)
        BY <2>1, <3>3, AncestorsPre
      <4>2. Pre(to, k)
        BY <2>1, <2>6, <4>1, SubtreePre
      <4> QED
        BY <2>1, <4>1, <4>2 DEF Pre, Key
    <3> QED
      BY <2>5, <3>1, <3>2, <3>3
  <2> QED
    BY <2>2, <2>3, <2>4, <2>6
<1> QED
  BY <1>1, ClosedInvariant, PTL DEF Spec, RenameMovesExactly

(***************************************************************************)
(* Dropping a MountGuard takes its own subtree and the directories above   *)
(* it that hold nothing else, and no sibling of either.                    *)
(***************************************************************************)
THEOREM UnmountsAreLocal == ASSUME Disciplined PROVE Spec => UnmountIsLocal
<1> DEFINE Idle(x, k) == x # Root /\ Below(k, x)
                           /\ \A y \in DOMAIN tree : Below(y, x) => InSubtree(y, k) \/ Below(k, y)
           Takes(x, k) == /\ x \notin DOMAIN tree' => InSubtree(x, k) \/ Idle(x, k)
                          /\ k \in DOMAIN tree /\ (InSubtree(x, k) \/ Idle(x, k)) => x \notin DOMAIN tree'
           Local == \A k \in MountKeys : guards'[k] < guards[k] => \A x \in DOMAIN tree : Takes(x, k)
<1>1. ASSUME Inv, ClosedInv, NEW k \in MountKeys, Unmount(k), NEW x \in DOMAIN tree
      PROVE  Takes(x, k)
  <2>0. IsTree(tree) /\ Closed(tree) /\ k \in Keys /\ tree' = remove_subtree(tree, k)
    BY <1>1, VolumeAssumption DEF Inv, TypeOK, ClosedInv, Unmount
  <2>1. k \in Key /\ k # Root /\ Len(k) \in Nat /\ \A y \in DOMAIN tree : y \in Key /\ Len(y) \in Nat
    BY <2>0, TreeKeysAreKeys DEF Key
  <2>2. \A y \in DOMAIN tree : InSubtree(y, k) <=> Pre(k, y)
    BY <2>1, SubtreePre
  <2>3. \A y \in DOMAIN tree : y # Root => (Below(k, y) <=> y \in Ancestors(k))
    BY <2>1, SubtreePre, AncestorsPre
  <2>4. \A y \in DOMAIN tree : y \in DOMAIN tree' <=> ~Pre(k, y) /\ y \notin Pruned(tree, k)
    BY <2>0, RemoveSubtreeEntries
  <2>5. ASSUME x \in Pruned(tree, k) PROVE Idle(x, k)
    <3>1. x \in Ancestors(k) /\ ~Pre(k, x)
      <4>1. x \in Ancestors(k)
        BY <2>5 DEF Pruned
      <4>2. Len(x) < Len(k)
        BY <2>1, <4>1, AncestorsPre
      <4> QED
        BY <2>1, <4>1, <4>2 DEF Pre
    <3>2. x # Root
      <4>1. SUFFICES ASSUME x = Root PROVE FALSE
        OBVIOUS
      <4>2. Len(x) >= Len(x) /\ parent_key(x) = x
        BY <2>1, <4>1 DEF parent_key
      <4> QED
        BY <2>5, <3>1, <4>2 DEF Pruned
    <3>3. ASSUME NEW y \in DOMAIN tree, Below(y, x), ~InSubtree(y, k) PROVE Below(k, y)
      <4>1. Pre(x, y) /\ Len(x) < Len(y) /\ ~Pre(k, y)
        BY <2>1, <2>2, <3>2, <3>3, SubtreePre
      <4>2. y \in Ancestors(k)
        BY <2>0, <2>5, <4>1, BelowPruned
      <4>3. y # Root
        BY <2>1, <4>1 DEF Root
      <4> QED
        BY <2>3, <4>2, <4>3
    <3> QED
      BY <2>3, <3>1, <3>2, <3>3
  <2>6. ASSUME k \in DOMAIN tree, Idle(x, k) PROVE x \in Pruned(tree, k)
    <3>1. x \in Ancestors(k) /\ x # Root /\ Len(x) > 0
      <4>1. x # Root /\ x \in Ancestors(k)
        BY <2>3, <2>6
      <4> QED
        BY <2>1, <4>1 DEF Key, Root
    <3>2. Pre(x, k) /\ Len(x) < Len(k)
      BY <2>1, <3>1, AncestorsPre
    <3>3. ASSUME NEW e \in Ancestors(k), Len(e) >= Len(x)
          PROVE  /\ e \in {y \in DOMAIN tree : ~Pre(k, y)} /\ tree[e] = "dir"
                 /\ \A y \in {z \in DOMAIN tree : ~Pre(k, z)} :
                      parent_key(y) = e => y # e /\ y \in Ancestors(k)
      <4>1. e \in Key /\ Pre(e, k) /\ Len(e) < Len(k) /\ IsDir(tree, e)
        BY <2>0, <2>1, <2>6, AncestorsPre DEF Closed
      <4>2. ~Pre(k, e)
        BY <2>1, <4>1 DEF Pre, Key
      <4>3. Pre(x, e)
        BY <2>1, <3>2, <3>3, <4>1, PrePre
      <4>4. ASSUME NEW y \in DOMAIN tree, ~Pre(k, y), parent_key(y) = e
            PROVE  y # e /\ y \in Ancestors(k)
        <5>1. y # Root
          <6>1. SUFFICES ASSUME y = Root PROVE FALSE
            OBVIOUS
          <6>2. e = Root
            BY <4>4, <6>1 DEF parent_key
          <6>3. Len(e) = 0
            BY <6>2 DEF Root
          <6> QED
            BY <2>1, <3>1, <3>3, <6>3
        <5>2. Pre(e, y) /\ Len(e) = Len(y) - 1
          BY <2>1, <4>4, <5>1, ParentPre
        <5>3. Pre(x, y) /\ Len(x) < Len(y)
          <6>1. Len(x) < Len(y)
            BY <2>1, <3>3, <4>1, <5>2 DEF Key
          <6>2. Pre(x, y)
            BY <2>1, <4>1, <4>3, <5>2, PrePre
          <6> QED
            BY <6>1, <6>2
        <5>4. Below(y, x) /\ ~InSubtree(y, k)
          BY <2>1, <2>2, <3>1, <4>4, <5>3, SubtreePre
        <5>5. y \in Ancestors(k)
          BY <2>3, <2>6, <5>1, <5>4
        <5>6. y # e
          BY <2>1, <5>2
        <5> QED
          BY <5>5, <5>6
      <4> QED
        BY <4>1, <4>2, <4>4 DEF IsDir
    <3> QED
      BY <3>1, <3>3 DEF Pruned
  <2> HIDE DEF Idle
  <2> QED
    BY <2>2, <2>4, <2>5, <2>6
<1>2. ASSUME Inv, Next, NEW k \in MountKeys, guards'[k] < guards[k] PROVE Unmount(k)
  <2>0. guards \in [MountKeys -> Nat]
    BY <1>2, VolumeAssumption DEF Inv, TypeOK
  <2>1. UNCHANGED guards => FALSE
    BY <1>2, <2>0
  <2>2. ASSUME NEW j \in MountKeys, NEW node, InsertMount(j, node) PROVE FALSE
    BY <1>2, <2>0, <2>2 DEF InsertMount
  <2>3. ASSUME NEW j \in MountKeys, Unmount(j) PROVE j = k
    BY <1>2, <2>0, <2>3 DEF Unmount
  <2>4. \E j \in MountKeys : mount(j) \/ mount_writable(j) \/ Unmount(j)
    BY <1>2, <2>1 DEF Next, open, SetLenByPath, open_write, read, write, seek,
           set_len, ResizeByPath,
       TruncateOnOpen, Position, Fill, Undo, ResizeData, Close, remove, create_dir, Rename
  <2> QED
    BY <2>2, <2>3, <2>4 DEF mount, mount_writable
<1>3. (Inv /\ ClosedInv) /\ [Next]_vars => [Local]_vars
  <2> HIDE DEF Takes
  <2> QED
    BY <1>1, <1>2
<1> HIDE DEF Local
<1>4. Local => \A k \in MountKeys : guards'[k] < guards[k] =>
       \A x \in DOMAIN tree :
         LET idle == x # Root /\ Below(k, x)
                       /\ \A y \in DOMAIN tree : Below(y, x) => InSubtree(y, k) \/ Below(k, y)
         IN /\ x \notin DOMAIN tree' => InSubtree(x, k) \/ idle
            /\ k \in DOMAIN tree /\ (InSubtree(x, k) \/ idle) => x \notin DOMAIN tree'
  BY DEF Local
<1> QED
  BY <1>3, <1>4, ClosedInvariant, PTL DEF Spec, UnmountIsLocal
=============================================================================
