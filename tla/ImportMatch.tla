----------------------------- MODULE ImportMatch -----------------------------
(***************************************************************************)
(* What plthook's install() decides before its first write: which import   *)
(* slots the requested replacements match (or the error), and which pages  *)
(* PageProtector::make_writable visits for them.  Pure: the parsed imports *)
(* and the requests determine the result.                                  *)
(***************************************************************************)
EXTENDS Integers, Sequences, SequencesExt

CONSTANTS PageSize, PtrSize

ASSUME PageAssumption == PageSize \in Nat \ {0} /\ PtrSize \in Nat \ {0}

(***************************************************************************)
(* An import is [slot, library, symbol, auth, resolves]: resolves says     *)
(* whether sys::resolve_original finds the real callee.  symbol is NoSymbol*)
(* for a slot whose name is unrecoverable.  A replacement is               *)
(* [library, symbol, required]; library AnyLibrary is the absent filter.   *)
(* Library names are equal when they match ignoring ASCII case.            *)
(***************************************************************************)
NoSymbol == "no symbol"
AnyLibrary == "any library"

library_matches(filter, actual) == filter = AnyLibrary \/ filter = actual

match_replacement(import, replacement) ==
  /\ import.symbol # NoSymbol
  /\ library_matches(replacement.library, import.library)
  /\ import.symbol = replacement.symbol

(* One turn of the inner loop; acc is [err, matched, slots]. *)
MatchImport(replacement, acc, import) ==
  CASE acc.err # "none" \/ ~match_replacement(import, replacement) -> acc
    [] OTHER ->
       LET hit == [acc EXCEPT !.matched = TRUE]
       IN CASE import.auth -> [hit EXCEPT !.err = "AuthenticatedSlot"]
            [] ~import.auth /\ Contains(hit.slots, import.slot) -> hit
            [] ~import.auth /\ ~Contains(hit.slots, import.slot) /\ import.resolves ->
                 [hit EXCEPT !.slots = Append(hit.slots, import.slot)]
            [] OTHER ->
                 IF replacement.required THEN [hit EXCEPT !.err = "OriginalUnresolved"] ELSE hit

(* One turn of the outer loop: all imports, then the required check. *)
MatchReplacement(imports, acc, replacement) ==
  LET scan == FoldLeft(LAMBDA a, import : MatchImport(replacement, a, import),
                       [acc EXCEPT !.matched = FALSE], imports)
  IN IF scan.err = "none" /\ ~scan.matched /\ replacement.required
       THEN [scan EXCEPT !.err = "SymbolNotFound"]
       ELSE scan

Resolve(imports, replacements) ==
  FoldLeft(LAMBDA acc, r : MatchReplacement(imports, acc, r),
           [err |-> "none", matched |-> FALSE, slots |-> <<>>], replacements)

(* The pages a slot's bytes lie on, from the first to the last. *)
SlotPages(slot) ==
  LET first == slot \div PageSize
      last  == (slot + PtrSize - 1) \div PageSize
  IN [i \in 1..(last - first + 1) |-> first + i - 1]

PushNew(acc, page) == IF Contains(acc, page) THEN acc ELSE Append(acc, page)

(* The pages of make_writable, each once, in the order it changes them. *)
PageOrder(slots) ==
  FoldLeft(LAMBDA acc, slot : FoldLeft(PushNew, acc, SlotPages(slot)), <<>>, slots)

(* install() up to apply(): the plan SlotTransaction carries out. *)
PlanOf(imports, replacements) ==
  LET r == Resolve(imports, replacements)
  IN [ok |-> r.err = "none",
      slots |-> IF r.err = "none" THEN r.slots ELSE <<>>,
      pages |-> IF r.err = "none" THEN PageOrder(r.slots) ELSE <<>>]
=============================================================================
