----------------------------- MODULE Namespace ------------------------------
(***************************************************************************)
(* The reserved namespace of hookfs and the router's decision about one    *)
(* path, on POSIX and on Windows.  A path is the sequence of its           *)
(* characters: membership is decided on the characters alone, before the   *)
(* kernel has a say, so that a separator too many, a letter in the other   *)
(* case or a name that merely starts like the prefix must not lead a path  *)
(* past it.                                                                *)
(***************************************************************************)
EXTENDS Integers, Sequences, SequencesExt

CONSTANTS Windows,   \* BOOLEAN: which form of the functions is built
          Letters,   \* the letters of the instance
          Lower      \* [its capital letters -> the small ones]

Sep == IF Windows THEN "\\" ELSE "/"
IsSep(c) == c = "/" \/ (Windows /\ c = "\\")

(* One character of a key: Windows knows one separator and no capitals. *)
KeyChar(c) ==
  IF ~Windows THEN c
  ELSE IF c = "/" THEN "\\" ELSE IF c \in DOMAIN Lower THEN Lower[c] ELSE c

LongPath == <<"\\", "\\", "?", "\\">>
LongUnc == LongPath \o <<"U", "N", "C", "\\">>
From(s, n) == SubSeq(s, n, Len(s))

(* The \\?\ of a long path is no part of its key, and \\?\UNC\ is \\, the  *)
(* prefix of a long path again if a ? follows.                             *)
StripUnc(s) == IF IsPrefix(LongUnc, s) THEN <<"\\", "\\">> \o From(s, 9) ELSE s
StripLong(s) ==
  IF ~Windows THEN s
  ELSE IF IsPrefix(LongPath, StripUnc(s)) THEN From(StripUnc(s), 5) ELSE StripUnc(s)

(* The shortest key that keeps its trailing separator: / or c:\ *)
BareRoot == IF Windows THEN 3 ELSE 1

normalize_key_str(s) ==
  LET body == StripLong(s)
      Push(out, c) == IF c = Sep /\ out # <<>> /\ Last(out) = Sep THEN out ELSE Append(out, c)
      out[n \in 0..Len(body)] == IF n = 0 THEN <<>> ELSE Push(out[n - 1], KeyChar(body[n]))
      key == out[Len(body)]
  IN  IF Len(key) > BareRoot /\ Last(key) = Sep THEN Front(key) ELSE key

(* Mutation: the end of the prefix need not be the end of a name. *)
key_has_prefix_any(key, prefix) == IsPrefix(prefix, key)

key_has_prefix(key, prefix) ==
  /\ IsPrefix(prefix, key)
  /\ Len(key) = Len(prefix) \/ key[Len(prefix) + 1] = Sep

is_absolute(s) ==
  IF ~Windows THEN s # <<>> /\ s[1] = "/"
  ELSE \/ Len(s) >= 2 /\ s[1] = s[2] /\ IsSep(s[1])
       \/ Len(s) >= 3 /\ s[2] = ":" /\ IsSep(s[3]) /\ s[1] \in Letters

(* The names between the separators, the empty ones too. *)
Split(s) ==
  LET Put(parts, c) == IF IsSep(c) THEN Append(parts, <<>>)
                       ELSE Append(Front(parts), Append(Last(parts), c))
      parts[n \in 0..Len(s)] == IF n = 0 THEN <<(<<>>)>> ELSE Put(parts[n - 1], s[n])
  IN  parts[Len(s)]

Dots(s) == {i \in DOMAIN s : s[i] = "."}
Blank(s) == \A i \in DOMAIN s : s[i] \in {".", " "}

is_dot_component(name) == name # <<>> /\ Blank(name) /\ Dots(name) # {}

(* A drive designator, once Windows has dropped trailing dots and spaces. *)
DriveOnly(name) ==
  /\ Len(name) >= 2 /\ name[1] \in Letters /\ name[2] = ":" /\ Blank(From(name, 3))

is_lexically_safe(s) ==
  LET parts == Split(s)
      Safe(name) == IF Windows
                    THEN /\ ~is_dot_component(name)
                         /\ (\E k \in DOMAIN name : name[k] = ":") => DriveOnly(name)
                    ELSE name \notin {<<".">>, <<".", ".">>}
  IN  \A i \in DOMAIN parts : Safe(parts[i])

-----------------------------------------------------------------------------
(* The router *)

NoCwd == <<>>

(* Path::join of a relative path. *)
Join(cwd, s) == IF IsSep(Last(cwd)) THEN cwd \o s ELSE cwd \o <<Sep>> \o s

Absolute(cwd, s) == IF is_absolute(s) THEN s ELSE Join(cwd, s)

(* Engine::classify, for an engine whose namespace is the subtree of root  *)
(* and whose virtual working directory is cwd.                             *)
classify(root, cwd, s) ==
  LET full == Absolute(cwd, s)
  IN  IF ~is_absolute(s) /\ cwd = NoCwd THEN "real"
      ELSE IF ~key_has_prefix(normalize_key_str(full), normalize_key_str(root)) THEN "real"
      ELSE IF is_lexically_safe(full) THEN "virtual" ELSE "rejected"
=============================================================================
