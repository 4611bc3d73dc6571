-------------------------- MODULE MCSlotTransaction --------------------------
(***************************************************************************)
(* One image with three slots on two pages: a read-only (RELRO) page with  *)
(* two slots and a writable one, and four install() calls over them.       *)
(* g1 and g2 overlap on slots 0 and 16; g3 asks for a symbol the image     *)
(* does not import; g4's only, optional symbol is absent, so its guard is  *)
(* empty.                                                                  *)
(***************************************************************************)
EXTENDS SlotTransaction, ImportMatch

CONSTANTS g1, g2, g3, g4

Import(slot, symbol) ==
  [slot |-> slot, library |-> "libc", symbol |-> symbol, auth |-> FALSE, resolves |-> TRUE]

Imports == << Import(0, "open"), Import(8, "read"), Import(16, "stat"), Import(0, "open") >>

Want(symbol, required) ==
  [library |-> AnyLibrary, symbol |-> symbol, required |-> required]

Requests(g) ==
  CASE g = g1 -> << Want("open", TRUE), Want("stat", FALSE) >>
    [] g = g2 -> << Want("stat", TRUE), Want("open", FALSE), Want("read", FALSE) >>
    [] g = g3 -> << Want("open", TRUE), Want("mmap", TRUE) >>
    [] g = g4 -> << Want("mmap", FALSE) >>

Ready(slots, pages) == [ok |-> TRUE, slots |-> slots, pages |-> pages]

MCPlan == [g \in Guards |->
  CASE g = g1 -> Ready(<<0, 16>>, <<0, 1>>)
    [] g = g2 -> Ready(<<16, 0, 8>>, <<1, 0>>)
    [] g = g3 -> [ok |-> FALSE, slots |-> <<>>, pages |-> <<>>]
    [] g = g4 -> Ready(<<>>, <<>>)]

(* The plans above are the ones install() computes for these requests. *)
ASSUME PlansAreComputed == \A g \in Guards : MCPlan[g] = PlanOf(Imports, Requests(g))

MCSlots == {0, 8, 16}
MCPages == {0, 1}
MCPagesOf == [s \in MCSlots |-> {s \div 16}]
ASSUME PagesAreComputed == \A s \in MCSlots : MCPagesOf[s] = ToSet(SlotPages(s))

MCLoaded == [s \in MCSlots |-> "callee"]
MCLoadProt == [p \in MCPages |-> IF p = 0 THEN "r" ELSE "rw"]
MCRepl == [g \in Guards |-> CASE g = g1 -> "shim1" [] g = g2 -> "shim2"
                              [] g = g3 -> "shim3" [] g = g4 -> "shim4"]
MCValues == {"callee", "shim1", "shim2", "shim3", "shim4", "foreign"}
=============================================================================
