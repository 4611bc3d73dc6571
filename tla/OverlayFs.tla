----------------------------- MODULE OverlayFs ------------------------------
(***************************************************************************)
(* A stack of file systems consulted front to back: the first layer that   *)
(* does not decline answers.  A layer is the kind of node it has at each   *)
(* key.  It answers a question about a key it has; whether it answers a    *)
(* change does not depend on the key: MemoryFs always does, if only to     *)
(* refuse it, and a provider that implements no change never does.         *)
(***************************************************************************)
EXTENDS Integers, Sequences, FiniteSetsExt

CONSTANTS Keys       \* the keys of the instance

Kinds == {"none", "file", "dir"}
KindOf(layer, k) == IF k \in Keys THEN layer[k] ELSE "none"

(* find_map: the first of the layers that answers, 0 if all decline. *)
FirstOf(S) == IF S = {} THEN 0 ELSE Min(S)

(* open, metadata, exists. *)
metadata(layers, k) ==
  LET i == FirstOf({l \in DOMAIN layers : KindOf(layers[l], k) # "none"})
  IN  IF i = 0 THEN "none" ELSE KindOf(layers[i], k)

(* MemoryFs::read_dir answers for a directory alone. *)
read_dir(layers, k) == \E l \in DOMAIN layers : KindOf(layers[l], k) = "dir"

(* Mutation: the last layer that answers takes the change. *)
changing_last(writable) == IF writable = {} THEN 0 ELSE Max(writable)

(* open_write, remove, rename, create_dir, set_len. *)
changing(writable) == FirstOf(writable)

-----------------------------------------------------------------------------
(* A change of one MemoryFs layer with a single directory level below root *)

(* insert_ancestor_dirs. *)
WithAncestors(layer, root) ==
  IF layer[root] = "none" THEN [layer EXCEPT ![root] = "dir"] ELSE layer

create(layer, root, k, kind) == [WithAncestors(layer, root) EXCEPT ![k] = kind]

Empty(layer, root, k) == k = root => \A c \in Keys \ {root} : layer[c] = "none"

MayRemove(layer, root, k) ==
  layer[k] # "none" /\ (layer[k] = "dir" => Empty(layer, root, k))

MayRename(layer, root, from, to) ==
  /\ layer[from] # "none" /\ from # to /\ root \notin {from, to}
  /\ layer[to] \in {"none", layer[from]}

rename(layer, from, to) == [layer EXCEPT ![to] = layer[from], ![from] = "none"]
=============================================================================
