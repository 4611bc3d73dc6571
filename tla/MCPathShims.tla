----------------------------- MODULE MCPathShims ----------------------------
(***************************************************************************)
(* Spelling: every path of up to Longest characters, and some longer ones, *)
(* from every working directory that chdir accepts; on Windows, paths put  *)
(* together from pieces that matter there.                                 *)
(* Naming: changes of names in an overlay of two layers that take changes, *)
(* where they are allowed and where they are not.                          *)
(* Crossing: calls of two paths while the installation is replaced.        *)
(* Streaming: two threads with directory and FILE streams over two         *)
(* installations.                                                          *)
(***************************************************************************)
EXTENDS PathShims, SequencesExt

CONSTANTS t1, t2, a1, a2,
          Longest    \* bound: the length of a spelled path

MCRoot == <<"/", "h">>
MCKeys == {MCRoot, MCRoot \o <<"/", "a">>, MCRoot \o <<"/", "b">>}
MCLetters == {"c", "h", "x", "H", "C"}
MCLower == [c \in {"H", "C"} |-> IF c = "H" THEN "h" ELSE "c"]

WinRoot == <<"c", ":", "\\", "H">>

Layer(a, b) == [k \in MCKeys |-> IF k = MCRoot THEN "dir"
                                 ELSE IF k = MCRoot \o <<"/", "a">> THEN a ELSE b]

Alone(calls) == [t \in Threads |-> IF t = t1 THEN calls ELSE {}]

Program(windows, root, calls, paths, ls, allow, writable, engines) ==
  [windows |-> windows, root |-> root, calls |-> calls, paths |-> paths,
   layers |-> ls, allow |-> allow, writable |-> writable, engines |-> engines]

Paths ==
  UNION {[1..n -> {"/", "h", "a", "."}] : n \in 1..Longest}
    \cup {MCRoot \o s : s \in {<<"/", ".", ".">>, <<"/", ".", "/", "a">>, <<"/", "/", "a">>,
                               <<"a", "/", ".", ".">>, <<"/", ".", ".", "a">>}}
    \cup {<<"/", "a", "/", ".", ".", "/", "h">>}

Spelling == Program(FALSE, MCRoot, Alone({"stat", "chdir"}), Paths,
                    <<Layer("dir", "file")>>, TRUE, {1}, 1)

Pieces(S, T) == {s \o t : s \in S, t \in T}

WinPaths ==
  LET prefixes == {<<>>, <<"\\">>, <<"/", "/">>, <<"\\", "\\", "?", "\\">>,
                   <<"\\", "\\", "?", "\\", "U", "N", "C", "\\">>}
      drives == {<<"c", ":", "\\">>, <<"C", ":", ".", "\\">>, <<"c", ":">>, <<"C", ":", "/", "\\">>}
      names == {<<"h">>, <<"H">>, <<"h", "x">>, <<"h", ":", "x">>}
      tails == {<<>>, <<"\\">>, <<"/", "x">>, <<"\\", ".", ".">>, <<"/", ".", " ", "/", "x">>,
                <<"\\", "x", ":">>, <<"\\", " ">>}
  IN  Pieces(Pieces(Pieces(prefixes, drives), names), tails)

WinSpelling == Program(TRUE, WinRoot, Alone({"stat"}), WinPaths,
                       <<Layer("none", "none")>>, TRUE, {1}, 1)

Few == {MCRoot, MCRoot \o <<"/", "a">>, MCRoot \o <<"/", "b">>, <<"a">>}

Naming(allow) ==
  Program(FALSE, MCRoot,
          [t \in Threads |-> IF t = t1 THEN Queries \cup {"mkdir", "remove", "rename", "chdir"}
                             ELSE {"fopen", "truncate"}],
          Few, <<Layer("none", "dir"), Layer("file", "dir")>>, allow, {1, 2}, 1)

Crossing ==
  Program(FALSE, MCRoot, [t \in Threads |-> IF t = t1 THEN {"rename", "chdir"} ELSE {"link", "rename"}],
          {MCRoot, MCRoot \o <<"/", "b">>, <<"a">>, <<"/", "r">>, MCRoot \o <<"/", ".", ".">>},
          <<Layer("none", "file")>>, TRUE, {1}, 2)

Streaming ==
  Program(FALSE, MCRoot,
          [t \in Threads |-> {"opendir", "readdir", "closedir", "fopen", "fclose"}],
          {MCRoot, MCRoot \o <<"/", "a">>, <<"/", "r">>},
          <<Layer("file", "none")>>, FALSE, {1}, 2)

MCPrograms ==
  [spelling |-> Spelling, windows |-> WinSpelling, streams |-> Streaming,
   crossing |-> Crossing,   names |-> Naming(TRUE), read_only |-> Naming(FALSE)]

(* The overlays of the programs above are stacked as SeesItsChanges needs. *)
ASSUME FrontAssumption == FrontTakesChanges

Symmetric == Permutations({a1, a2})
=============================================================================
