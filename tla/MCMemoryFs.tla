----------------------------- MODULE MCMemoryFs -----------------------------
(***************************************************************************)
(* Instances of MemoryFs: a flat directory with concurrent clients for the *)
(* volume, a deeper one without for the tree.                              *)
(***************************************************************************)
EXTENDS MemoryFs

CONSTANTS c1, c2, f1, f2

FlatKeys == { <<"a">>, <<"b">> }

SeekOffsets == {-1, 0, 2}

Options(create, create_new, truncate, append) ==
  [create |-> create, create_new |-> create_new, truncate |-> truncate, append |-> append]

(* "w": O_CREAT|O_TRUNC, "a": O_CREAT|O_APPEND, "r+": nothing, "x": O_EXCL *)
AllModes == { Options(TRUE, FALSE, TRUE, FALSE), Options(TRUE, FALSE, FALSE, TRUE),
              Options(FALSE, FALSE, FALSE, FALSE), Options(FALSE, TRUE, FALSE, FALSE) }
CreateMode == { Options(TRUE, FALSE, FALSE, FALSE) }

TreeKeys == { <<"p">>, <<"p", "x">>, <<"p", "y">>, <<"q">>, <<"q", "x">>, <<"p", "x", "z">> }
TreeMounts == { <<"p", "x", "z">>, <<"p", "y">> }

ClientSymmetry == Permutations(Clients)
=============================================================================
