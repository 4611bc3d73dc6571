------------------------------- MODULE MemTree -------------------------------
(***************************************************************************)
(* The map from normalized keys to nodes behind MemoryFs, and what each of *)
(* its operations does to that map.  A key is the sequence of the path's   *)
(* components, the filesystem root the empty one.  A tree is a function    *)
(* from its keys to nodes: "dir", "source" (a read-only mount) or the      *)
(* identity of a writable MemFile.  Display names are not kept.            *)
(***************************************************************************)
EXTENDS Integers, Sequences, SequencesExt, Functions

Root == <<>>

(* A root keeps its separator, so it is its own parent. *)
parent_key(k) == IF k = Root THEN Root ELSE Front(k)

(* strip_prefix(key), then a separator: nothing is below the root this way. *)
Below(k, key) == key # Root /\ IsStrictPrefix(key, k)

InSubtree(k, key) == k = key \/ Below(k, key)

Ancestors(k) == {SubSeq(k, 1, n) : n \in 0..(Len(k) - 1)}

IsDir(tree, k) == k \in DOMAIN tree /\ tree[k] = "dir"

HasChild(tree, d) == \E k \in DOMAIN tree : parent_key(k) = d

Without(tree, ks) == Restrict(tree, DOMAIN tree \ ks)

(* The entries of t and, at other keys, those of u. *)
Over(t, u) == [k \in DOMAIN t \cup DOMAIN u |-> IF k \in DOMAIN t THEN t[k] ELSE u[k]]

(* Whatever stands at an ancestor's key, a file included, is left alone. *)
insert_ancestor_dirs(tree, k) == Over(tree, [a \in Ancestors(k) |-> "dir"])

(* map.insert and the ancestors: insert_file, insert_writable, open_write, create_dir. *)
Insert(tree, k, node) == insert_ancestor_dirs(Over([x \in {k} |-> node], tree), k)

-----------------------------------------------------------------------------

(* Mutation: directories above the subtree go whether or not they have other children. *)
remove_subtree_greedy(tree, key) ==
  Without(tree, {k \in DOMAIN tree : InSubtree(k, key)}
                  \cup {d \in Ancestors(key) \ {Root} : IsDir(tree, d)})

(***************************************************************************)
(* MountGuard::drop: the subtree goes, then the walk up from key removes   *)
(* each directory it leaves childless and stops at the first ancestor that *)
(* is none.  A child on the way up is gone by the time its parent is       *)
(* looked at; the root, a child of itself, always stays.                   *)
(***************************************************************************)
remove_subtree(tree, key) ==
  LET rest == Without(tree, {k \in DOMAIN tree : InSubtree(k, key)})
      Childless(d) == \A k \in DOMAIN rest : parent_key(k) = d => k # d /\ k \in Ancestors(key)
      pruned == {d \in Ancestors(key) :
                   \A e \in Ancestors(key) : Len(e) >= Len(d) => IsDir(rest, e) /\ Childless(e)}
  IN Without(rest, pruned)

(* remove: a file, a source or an empty directory; else it fails. *)
CanRemove(tree, k) ==
  k \in DOMAIN tree /\ ~(tree[k] = "dir" /\ HasChild(tree, k))

-----------------------------------------------------------------------------
(* rename *)

(***************************************************************************)
(* The validation, in its order.  Renaming onto itself succeeds and does   *)
(* nothing; the other refusals are NotFound, InvalidInput (a directory     *)
(* into its own subtree), IsADirectory, NotADirectory, DirectoryNotEmpty.  *)
(***************************************************************************)
CanRename(tree, from, to) ==
  /\ from \in DOMAIN tree
  /\ to # from
  /\ ~(IsDir(tree, from) /\ Below(to, from))
  /\ to \in DOMAIN tree => /\ IsDir(tree, to) <=> IsDir(tree, from)
                           /\ IsDir(tree, to) => ~HasChild(tree, to)

rekey(k, from, to) == to \o SubSeq(k, Len(from) + 1, Len(k))

(* Mutation: only the named node moves, its subtree stays behind. *)
rename_shallow(tree, from, to) ==
  insert_ancestor_dirs(Over([k \in {to} |-> tree[from]], Without(tree, {from, to})), to)

(* Mutation: the ancestors of the new name are not created. *)
rename_no_ancestors(tree, from, to) ==
  LET cleared == Without(tree, {to})
      to_move == {k \in DOMAIN cleared : InSubtree(k, from)}
      moved == [k \in {rekey(m, from, to) : m \in to_move} |->
                  cleared[CHOOSE m \in to_move : rekey(m, from, to) = k]]
  IN Over(moved, Without(cleared, to_move))

(***************************************************************************)
(* The node it replaces goes, then from's subtree moves onto the to prefix *)
(* (the code moves one key at a time; no key moved to is one still to move *)
(* within the depths explored), then the ancestors of to are created.      *)
(***************************************************************************)
rename(tree, from, to) ==
  LET cleared == Without(tree, {to})
      to_move == {k \in DOMAIN cleared : InSubtree(k, from)}
      moved == [k \in {rekey(m, from, to) : m \in to_move} |->
                  cleared[CHOOSE m \in to_move : rekey(m, from, to) = k]]
  IN insert_ancestor_dirs(Over(moved, Without(cleared, to_move)), to)
=============================================================================
