----------------------------- MODULE RawImports -----------------------------
(***************************************************************************)
(* What the three import parsers of plthook share: the record they emit    *)
(* for a rebindable slot, and the way an error anywhere in a walk discards *)
(* everything that walk had pushed.                                        *)
(***************************************************************************)
EXTENDS Integers, Sequences, SequencesExt

CONSTANTS Malformed,      \* Err(Error::Malformed) or Err(Error::Unsupported)
          None            \* Option::None

RawImport(library, symbol, version, slot, kind, authenticated) ==
  [library |-> library, symbol |-> symbol, version |-> version, slot |-> slot,
   kind |-> kind, authenticated |-> authenticated]

(* s is a sequence, of whatever. *)
IsSequence(s) == s \in Seq(ToSet(s))

(* The ? operator: an error ends the walk, anything else goes on. *)
Try(x, Then(_)) == IF x = Malformed THEN Malformed ELSE Then(x)

(* One listing after another. *)
Join(first, second) ==
  IF Malformed \in {first, second} THEN Malformed ELSE first \o second

(* A loop of n turns, each pushing a sequence of imports or failing. *)
AllOf(turns) ==
  IF \E i \in DOMAIN turns : turns[i] = Malformed THEN Malformed ELSE FlattenSeq(turns)

Collect(n, Push(_)) == AllOf([i \in 1..n |-> Push(i)])

(* The elements that pass a test, in order: SelectSeq, as the loop that pushes them. *)
Filter(s, Test(_)) == FlattenSeq([i \in 1..Len(s) |-> IF Test(s[i]) THEN <<s[i]>> ELSE <<>>])

(* One pushed import, whose slot address may be an error. *)
PushAt(slot, Import(_)) == IF slot = Malformed THEN Malformed ELSE <<Import(slot)>>
=============================================================================
