------------------------ MODULE SlotTransactionProofs ------------------------
(***************************************************************************)
(* For every image, plan and set of guards, and every number of kernel     *)
(* failures: the transaction is type correct, writes slots only on         *)
(* writable pages, and puts every protection back that the kernel lets it; *)
(* a failed install leaves no slot patched, overlapping guards give the    *)
(* originals back in any order of drops, and a drop changes nothing but    *)
(* what its own guard put there.                                           *)
(***************************************************************************)
EXTENDS SlotTransaction, TLAPS

(* How many of the planned pages the running PageProtector holds captured. *)
Depth ==
  CASE txn.phase = "protect" -> txn.i - 1
    [] txn.phase = "write"   -> NPages(txn.owner)
    [] OTHER                 -> txn.i

IndexInv ==
  Busy => /\ txn.phase = "protect" => txn.i \in 1..(NPages(txn.owner) + 1)
          /\ txn.phase = "write" => txn.i >= 1
          /\ txn.phase \in {"undo", "restore"} => txn.i \in 0..NPages(txn.owner)

(* Captured pages are writable until they are given back. *)
OpenInv ==
  Busy /\ txn.phase \in {"protect", "write"} =>
    \A j \in 1..Depth : prot[PageAt(txn.owner, j)] = "rw"

(* What was captured is the load-time protection, stuck pages apart. *)
CaptureInv ==
  Busy => \A j \in 1..Depth :
            PageAt(txn.owner, j) \notin stuck =>
              old[PageAt(txn.owner, j)] = LoadProt[PageAt(txn.owner, j)]

(* Every page not captured has its load-time protection, stuck pages apart. *)
RestInv ==
  \A p \in Pages \ stuck :
    \/ prot[p] = LoadProt[p]
    \/ Busy /\ \E j \in 1..Depth : PageAt(txn.owner, j) = p

PageInv == TypeOK /\ IndexInv /\ OpenInv /\ CaptureInv /\ RestInv

(* The owner of a transaction and its plan are well-formed. *)
LEMMA PlanFacts ==
  ASSUME NEW g \in Guards
  PROVE  /\ NSlots(g) \in Nat
         /\ NPages(g) \in Nat
         /\ \A i \in 1..NSlots(g) : SlotAt(g, i) \in Slots
         /\ \A i \in 1..NPages(g) : PageAt(g, i) \in Pages
         /\ \A i, j \in 1..NPages(g) : PageAt(g, i) = PageAt(g, j) => i = j
BY PlanAssumption DEF PlanType, NSlots, NPages, SlotAt, PageAt, Distinct

LEMMA OwnerFacts ==
  ASSUME TypeOK, Busy
  PROVE  txn \in TxnType /\ txn.owner \in Guards /\ txn.i \in Nat /\ txn.phase \in Phases
BY DEF TypeOK, Busy, TxnType

(* The first state satisfies the page invariant: no transaction has run. *)
LEMMA PageInit == Init => PageInv
<1> SUFFICES ASSUME Init PROVE PageInv
  OBVIOUS
<1>1. TypeOK
  BY ImageAssumption, BoundsAssumption DEF Init, TypeOK, Idle, Status, Prot
<1>2. ~Busy
  BY DEF Init, Busy
<1> QED
  BY <1>1, <1>2 DEF PageInv, IndexInv, OpenInv, CaptureInv, RestInv, Init

(***************************************************************************)
(* Each action preserves type correctness.  One step per action.           *)
(***************************************************************************)
LEMMA TypeStep == TypeOK /\ IndexInv /\ [Next]_vars => TypeOK'
<1> SUFFICES ASSUME TypeOK, IndexInv, [Next]_vars PROVE TypeOK'
  OBVIOUS
<1> USE ImageAssumption, BoundsAssumption
<1>1. ASSUME NEW g \in Guards, Install(g) PROVE TypeOK'
  BY <1>1 DEF Install, TypeOK, TxnType, Uses, Phases, Idle, Status, image_vars, history
<1>2. ASSUME NEW g \in Guards, Drop(g) PROVE TypeOK'
  BY <1>2 DEF Drop, TypeOK, TxnType, Uses, Phases, Idle, Status, image_vars, history
<1>3. ASSUME NEW g \in Guards, Engine(g) PROVE TypeOK'
  <2>1. Busy /\ txn.owner = g /\ txn \in TxnType
    BY <1>3, OwnerFacts DEF Engine
  <2>2. ASSUME NEW u \in Uses, NEW ph \in Phases, NEW i \in Nat, NEW e \in {"ok", "err"},
               Goto(u, ph, i, e)
        PROVE  txn' \in TxnType \cup {Idle} /\ status' \in [Guards -> Status]
    BY <2>1, <2>2 DEF Goto, TxnType, TypeOK
  <2>3. ASSUME NEW s \in Status, Return(g, s)
        PROVE  txn' \in TxnType \cup {Idle} /\ status' \in [Guards -> Status]
    BY <2>3 DEF Return, TypeOK
  <2>4. /\ txn.use \in Uses /\ txn.phase \in Phases /\ txn.err \in {"ok", "err"} /\ txn.i \in Nat
        /\ "protect" \in Phases /\ "undo" \in Phases /\ "write" \in Phases
        /\ "restore" \in Phases /\ "rollback" \in Uses
        /\ "active" \in Status /\ "inactive" \in Status /\ "failed" \in Status
    BY <2>1 DEF TxnType, Phases, Uses, Status
  <2>5. CASE Protect(g)
    <3>1. PageAt(g, txn.i) \in Pages
      BY <2>1, <2>4, <2>5, PlanFacts DEF Protect, IndexInv
    <3>2. txn.i + 1 \in Nat
      BY <2>4
    <3> QED
      BY <2>2, <2>4, <2>5, <3>1, <3>2 DEF Protect, TypeOK, image_vars, history, Prot
  <2>6. CASE ProtectFails(g)
    <3>1. txn.i - 1 \in Nat
      BY <2>1, <2>4, <2>6, PlanFacts DEF ProtectFails, IndexInv
    <3> QED
      BY <2>2, <2>4, <2>6, <3>1 DEF ProtectFails, TypeOK, image_vars, history
  <2>7. CASE Protected(g)
    BY <2>2, <2>4, <2>7 DEF Protected, TypeOK, image_vars, history
  <2>8. CASE GiveBack(g)
    <3>1. PageAt(g, txn.i) \in Pages /\ txn.i - 1 \in Nat
      BY <2>1, <2>4, <2>8, PlanFacts DEF GiveBack, IndexInv
    <3> QED
      BY <2>2, <2>4, <2>8, <3>1 DEF GiveBack, TypeOK, image_vars, history, Prot
  <2>9. CASE GiveBackFails(g)
    <3>1. PageAt(g, txn.i) \in Pages /\ txn.i - 1 \in Nat
      BY <2>1, <2>4, <2>9, PlanFacts DEF GiveBackFails, IndexInv
    <3> QED
      BY <2>2, <2>4, <2>9, <3>1 DEF GiveBackFails, TypeOK, image_vars
  <2>10. CASE MakeWritableFailed(g)
    BY <2>3, <2>4, <2>10 DEF MakeWritableFailed, TypeOK, image_vars
  <2>11. CASE Swap(g)
    <3>1. SlotAt(g, txn.i) \in Slots /\ txn.i + 1 \in Nat
      BY <2>1, <2>4, <2>11, PlanFacts DEF Swap, IndexInv
    <3> QED
      BY <2>2, <2>4, <2>11, <3>1 DEF Swap, TypeOK, image_vars, history
  <2>12. CASE SwapBack(g)
    <3>1. SlotAt(g, txn.i) \in Slots /\ txn.i + 1 \in Nat
      BY <2>1, <2>4, <2>12, PlanFacts DEF SwapBack, IndexInv
    <3> QED
      BY <2>2, <2>4, <2>12, <3>1 DEF SwapBack, TypeOK, image_vars, history
  <2>13. CASE CompareExchange(g)
    <3>1. SlotAt(g, txn.i) \in Slots /\ txn.i + 1 \in Nat
      BY <2>1, <2>4, <2>13, PlanFacts DEF CompareExchange, IndexInv
    <3> QED
      BY <2>2, <2>4, <2>13, <3>1 DEF CompareExchange, TypeOK, image_vars
  <2>14. CASE Written(g)
    <3>1. NPages(g) \in Nat
      BY PlanFacts
    <3> QED
      BY <2>2, <2>4, <2>14, <3>1 DEF Written, TypeOK, image_vars, history
  <2>15. CASE Finish(g)
    <3>1. txn.use \in {"apply", "rollback", "guard"}
      BY <2>4 DEF Uses
    <3>2. txn' \in TxnType \cup {Idle} /\ status' \in [Guards -> Status]
      BY <2>2, <2>3, <2>4, <2>15, <3>1 DEF Finish
    <3> QED
      BY <2>15, <3>2 DEF Finish, TypeOK, image_vars, history
  <2> QED
    BY <1>3, <2>5, <2>6, <2>7, <2>8, <2>9, <2>10, <2>11, <2>12, <2>13, <2>14, <2>15
    DEF Engine
<1>4. ASSUME NEW s \in Slots, Foreign(s) PROVE TypeOK'
  BY <1>4 DEF Foreign, TypeOK, image_vars, history
<1>5. CASE Unload
  BY <1>5 DEF Unload, TypeOK, history
<1>6. CASE Load
  BY <1>6 DEF Load, TypeOK
<1>7. CASE UNCHANGED vars
  BY <1>7 DEF vars, TypeOK
<1> QED
  BY <1>1, <1>2, <1>3, <1>4, <1>5, <1>6, <1>7 DEF Next

(***************************************************************************)
(* Each action preserves the page invariant.  Outside the engine only Load *)
(* changes a protection, and it resets all of them; inside, Protect pushes *)
(* one page on the captured prefix of the plan and GiveBack pops one.      *)
(***************************************************************************)
LEMMA PageStep == PageInv /\ [Next]_vars => PageInv'
<1> SUFFICES ASSUME PageInv, [Next]_vars PROVE PageInv'
  OBVIOUS
<1> USE DEF PageInv
<1>0. TypeOK'
  BY TypeStep
<1> DEFINE Rest == IndexInv' /\ OpenInv' /\ CaptureInv' /\ RestInv'
<1>1. ASSUME NEW g \in Guards, Install(g) PROVE Rest
  <2>1. ~Busy /\ UNCHANGED <<prot, old, stuck>>
    BY <1>1 DEF Install, history
  <2>2. CASE UNCHANGED txn
    BY <2>1, <2>2 DEF Busy, IndexInv, OpenInv, CaptureInv, RestInv
  <2>3. CASE txn' = [owner |-> g, use |-> "apply", phase |-> "protect", i |-> 1, err |-> "ok"]
    BY <2>1, <2>3, PlanFacts DEF Busy, IndexInv, OpenInv, CaptureInv, RestInv, Depth
  <2> QED
    BY <1>1, <2>2, <2>3 DEF Install
<1>2. ASSUME NEW g \in Guards, Drop(g) PROVE Rest
  <2>1. ~Busy /\ UNCHANGED <<prot, old, stuck>>
    BY <1>2 DEF Drop, history
  <2>2. CASE UNCHANGED txn
    BY <2>1, <2>2 DEF Busy, IndexInv, OpenInv, CaptureInv, RestInv
  <2>3. CASE txn' = [owner |-> g, use |-> "guard", phase |-> "protect", i |-> 1, err |-> "ok"]
    BY <2>1, <2>3, PlanFacts DEF Busy, IndexInv, OpenInv, CaptureInv, RestInv, Depth
  <2> QED
    BY <1>2, <2>2, <2>3 DEF Drop
<1>3. ASSUME NEW g \in Guards, Engine(g) PROVE Rest
  <2>1. Busy /\ txn.owner = g /\ txn \in TxnType /\ txn.i \in Nat
    BY <1>3, OwnerFacts DEF Engine
  <2>2. ASSUME NEW u, NEW ph, NEW i, NEW e, Goto(u, ph, i, e)
        PROVE  /\ txn'.owner = g /\ txn'.phase = ph /\ txn'.i = i /\ txn'.use = u
    BY <2>1, <2>2 DEF Goto, TxnType
  <2>3. ASSUME NEW s, Return(g, s) PROVE ~Busy'
    BY <2>3 DEF Return, Busy
  <2>4. CASE Protect(g)
    <3> DEFINE p == PageAt(g, txn.i)
    <3>1. /\ txn'.owner = g /\ txn'.phase = "protect" /\ txn'.i = txn.i + 1
          /\ txn.phase = "protect" /\ txn.i \in 1..NPages(g)
          /\ old' = [old EXCEPT ![p] = prot[p]] /\ prot' = [prot EXCEPT ![p] = "rw"]
          /\ stuck' = stuck
      BY <2>1, <2>2, <2>4, PlanFacts DEF Protect, history, IndexInv
    <3>2. Depth = txn.i - 1 /\ Depth' = txn.i
      BY <2>1, <3>1 DEF Depth
    <3>3. \A j \in 1..(txn.i - 1) : PageAt(g, j) # p /\ PageAt(g, j) \in Pages
      BY <2>1, <3>1, PlanFacts
    <3>4. p \in Pages /\ (p \notin stuck => prot[p] = LoadProt[p])
      BY <2>1, <3>1, <3>2, <3>3, PlanFacts DEF RestInv
    <3>5. Busy'
      BY <3>1, <2>4 DEF Busy, Idle
    <3>6. IndexInv'
      BY <2>1, <3>1, <3>5, PlanFacts DEF IndexInv
    <3>7. OpenInv'
      <4>1. ASSUME NEW j \in 1..txn.i PROVE prot'[PageAt(g, j)] = "rw"
        <5>1. CASE j = txn.i
          BY <3>1, <3>4, <5>1 DEF TypeOK
        <5>2. CASE j # txn.i
          <6>1. j \in 1..(txn.i - 1)
            BY <2>1, <5>2
          <6>2. prot[PageAt(g, j)] = "rw"
            BY <2>1, <3>1, <3>2, <6>1 DEF OpenInv
          <6> QED
            BY <3>1, <3>3, <6>1, <6>2 DEF TypeOK
        <5> QED
          BY <5>1, <5>2
      <4> QED
        BY <2>1, <3>1, <3>2, <4>1 DEF OpenInv, PageAt
    <3>8. CaptureInv'
      <4>1. ASSUME NEW j \in 1..txn.i, PageAt(g, j) \notin stuck
            PROVE  old'[PageAt(g, j)] = LoadProt[PageAt(g, j)]
        <5>1. CASE j = txn.i
          BY <3>1, <3>4, <4>1, <5>1 DEF TypeOK
        <5>2. CASE j # txn.i
          <6>1. j \in 1..(txn.i - 1)
            BY <2>1, <5>2
          <6>2. old[PageAt(g, j)] = LoadProt[PageAt(g, j)]
            BY <2>1, <3>2, <4>1, <6>1 DEF CaptureInv
          <6> QED
            BY <3>1, <3>3, <6>1, <6>2 DEF TypeOK
        <5> QED
          BY <5>1, <5>2
      <4> QED
        BY <2>1, <3>1, <3>2, <4>1 DEF CaptureInv, PageAt
    <3>9. RestInv'
      BY <2>1, <3>1, <3>2, <3>3, <3>4, <3>5 DEF RestInv, TypeOK, PageAt
    <3> QED
      BY <3>6, <3>7, <3>8, <3>9
  <2>5. CASE ProtectFails(g)
    <3>1. /\ txn'.owner = g /\ txn'.phase = "undo" /\ txn'.i = txn.i - 1
          /\ txn.phase = "protect" /\ txn.i \in 1..NPages(g)
          /\ UNCHANGED <<old, prot, stuck>>
      BY <2>1, <2>2, <2>5, PlanFacts DEF ProtectFails, history, IndexInv
    <3>2. Depth = txn.i - 1 /\ Depth' = txn.i - 1 /\ Busy'
      BY <2>1, <3>1 DEF Depth, Busy, Idle
    <3> QED
      BY <2>1, <3>1, <3>2, PlanFacts
      DEF IndexInv, OpenInv, CaptureInv, RestInv, PageAt
  <2>6. CASE Protected(g)
    <3>1. /\ txn'.owner = g /\ txn'.phase = "write" /\ txn'.i = 1
          /\ txn.phase = "protect" /\ txn.i = NPages(g) + 1
          /\ UNCHANGED <<old, prot, stuck>>
      BY <2>1, <2>2, <2>6, PlanFacts DEF Protected, history, IndexInv
    <3>2. Depth = NPages(g) /\ Depth' = NPages(g) /\ Busy'
      BY <2>1, <3>1, PlanFacts DEF Depth, Busy, Idle, NPages
    <3> QED
      BY <2>1, <3>1, <3>2, PlanFacts
      DEF IndexInv, OpenInv, CaptureInv, RestInv, PageAt
  <2>7. CASE GiveBack(g)
    <3> DEFINE p == PageAt(g, txn.i)
    <3>1. /\ txn'.owner = g /\ txn'.phase = txn.phase /\ txn'.i = txn.i - 1
          /\ txn.phase \in {"undo", "restore"} /\ txn.i \in 1..NPages(g)
          /\ prot' = [prot EXCEPT ![p] = old[p]]
          /\ UNCHANGED <<old, stuck>>
      BY <2>1, <2>2, <2>7, PlanFacts DEF GiveBack, history, IndexInv
    <3>2. Depth = txn.i /\ Depth' = txn.i - 1 /\ Busy'
      BY <2>1, <3>1 DEF Depth, Busy, Idle
    <3>3. p \in Pages /\ (p \notin stuck => old[p] = LoadProt[p])
      BY <2>1, <3>1, <3>2, PlanFacts DEF CaptureInv
    <3>4. IndexInv' /\ OpenInv' /\ CaptureInv'
      BY <2>1, <3>1, <3>2, PlanFacts DEF IndexInv, OpenInv, CaptureInv, PageAt
    <3>5. ASSUME NEW q \in Pages, q \notin stuck
          PROVE  prot'[q] = LoadProt[q] \/ \E j \in 1..(txn.i - 1) : PageAt(g, j) = q
      <4>1. CASE q = p
        BY <3>1, <3>3, <3>5, <4>1 DEF TypeOK
      <4>2. CASE q # p
        <5>1. prot'[q] = prot[q]
          BY <3>1, <4>2 DEF TypeOK
        <5>2. prot[q] = LoadProt[q] \/ \E j \in 1..txn.i : PageAt(g, j) = q
          BY <2>1, <3>2, <3>5 DEF RestInv
        <5> QED
          BY <3>1, <4>2, <5>1, <5>2
      <4> QED
        BY <4>1, <4>2
    <3>6. RestInv'
      BY <2>1, <3>1, <3>2, <3>5 DEF RestInv, PageAt
    <3> QED
      BY <3>4, <3>6
  <2>8. CASE GiveBackFails(g)
    <3> DEFINE p == PageAt(g, txn.i)
    <3>1. /\ txn'.owner = g /\ txn'.phase = txn.phase /\ txn'.i = txn.i - 1
          /\ txn.phase \in {"undo", "restore"} /\ txn.i \in 1..NPages(g)
          /\ stuck' = stuck \cup {p}
          /\ UNCHANGED <<old, prot>>
      BY <2>1, <2>2, <2>8, PlanFacts DEF GiveBackFails, IndexInv
    <3>2. Depth = txn.i /\ Depth' = txn.i - 1 /\ Busy'
      BY <2>1, <3>1 DEF Depth, Busy, Idle
    <3>4. IndexInv' /\ OpenInv' /\ CaptureInv'
      BY <2>1, <3>1, <3>2, PlanFacts DEF IndexInv, OpenInv, CaptureInv, PageAt
    <3>5. ASSUME NEW q \in Pages, q \notin stuck'
          PROVE  prot[q] = LoadProt[q] \/ \E j \in 1..(txn.i - 1) : PageAt(g, j) = q
      <4>1. q # p /\ q \notin stuck
        BY <3>1, <3>5
      <4>2. prot[q] = LoadProt[q] \/ \E j \in 1..txn.i : PageAt(g, j) = q
        BY <2>1, <3>2, <4>1 DEF RestInv
      <4> QED
        BY <3>1, <4>1, <4>2
    <3>6. RestInv'
      BY <2>1, <3>1, <3>2, <3>5 DEF RestInv, PageAt
    <3> QED
      BY <3>4, <3>6
  <2>9. CASE MakeWritableFailed(g)
    <3>1. ~Busy' /\ UNCHANGED <<old, prot, stuck>> /\ txn.phase = "undo" /\ txn.i = 0
      BY <2>3, <2>9 DEF MakeWritableFailed
    <3>2. Depth = 0
      BY <3>1 DEF Depth
    <3> QED
      BY <3>1, <3>2 DEF IndexInv, OpenInv, CaptureInv, RestInv
  <2>10. CASE Swap(g) \/ SwapBack(g) \/ CompareExchange(g)
    <3>1. /\ txn'.owner = g /\ txn'.phase = "write" /\ txn'.i = txn.i + 1
          /\ txn.phase = "write"
          /\ UNCHANGED <<old, prot, stuck>>
      BY <2>1, <2>2, <2>10 DEF Swap, SwapBack, CompareExchange, history
    <3>2. Depth = NPages(g) /\ Depth' = NPages(g) /\ Busy'
      BY <2>1, <3>1 DEF Depth, Busy, Idle, NPages
    <3> QED
      BY <2>1, <3>1, <3>2 DEF IndexInv, OpenInv, CaptureInv, RestInv, PageAt
  <2>11. CASE Written(g)
    <3>1. /\ txn'.owner = g /\ txn'.phase = "restore" /\ txn'.i = NPages(g)
          /\ txn.phase = "write"
          /\ UNCHANGED <<old, prot, stuck>>
      BY <2>1, <2>2, <2>11 DEF Written, history
    <3>2. Depth = NPages(g) /\ Depth' = NPages(g) /\ Busy'
      BY <2>1, <3>1 DEF Depth, Busy, Idle, NPages
    <3> QED
      BY <2>1, <3>1, <3>2, PlanFacts DEF IndexInv, OpenInv, CaptureInv, RestInv, PageAt, NPages
  <2>12. CASE Finish(g)
    <3>1. UNCHANGED <<old, prot, stuck>> /\ txn.phase = "restore" /\ txn.i = 0
      BY <2>12 DEF Finish, history
    <3>2. Depth = 0
      BY <3>1 DEF Depth
    <3>3. \A p \in Pages \ stuck : prot[p] = LoadProt[p]
      BY <3>2 DEF RestInv
    <3>4. ~Busy' \/ (txn'.phase = "protect" /\ txn'.i = 1 /\ txn'.owner = g)
      BY <2>1, <2>2, <2>3, <2>12 DEF Finish, TxnType, Uses
    <3>5. CASE ~Busy'
      BY <3>1, <3>3, <3>5 DEF IndexInv, OpenInv, CaptureInv, RestInv
    <3>6. CASE txn'.phase = "protect" /\ txn'.i = 1 /\ txn'.owner = g
      BY <3>1, <3>3, <3>6, PlanFacts DEF IndexInv, OpenInv, CaptureInv, RestInv, Depth, NPages
    <3> QED
      BY <3>4, <3>5, <3>6
  <2> QED
    BY <1>3, <2>4, <2>5, <2>6, <2>7, <2>8, <2>9, <2>10, <2>11, <2>12 DEF Engine
<1>4. ASSUME NEW s \in Slots, Foreign(s) PROVE Rest
  BY <1>4 DEF Foreign, history, IndexInv, OpenInv, CaptureInv, RestInv, Depth, Busy,
              PageAt, NPages
<1>5. CASE Unload
  <2>1. ~Busy /\ ~Busy' /\ UNCHANGED <<prot, stuck>>
    BY <1>5 DEF Unload, history, Busy
  <2> QED
    BY <1>0, <2>1 DEF IndexInv, OpenInv, CaptureInv, RestInv
<1>6. CASE Load
  <2>1. ~Busy' /\ prot' = LoadProt
    BY <1>6 DEF Load, Busy
  <2> QED
    BY <1>0, <2>1 DEF IndexInv, OpenInv, CaptureInv, RestInv
<1>7. CASE UNCHANGED vars
  <2>1. UNCHANGED <<prot, old, stuck, txn>> /\ Busy' = Busy /\ Depth' = Depth
    BY <1>7 DEF vars, Busy, Depth, NPages
  <2> QED
    BY <1>0, <2>1 DEF IndexInv, OpenInv, CaptureInv, RestInv, PageAt, NPages
<1> QED
  BY <1>0, <1>1, <1>2, <1>3, <1>4, <1>5, <1>6, <1>7 DEF Next

LEMMA PageInvariant == Spec => []PageInv
BY PageInit, PageStep, PTL DEF Spec

(***************************************************************************)
(* Type correctness of the transaction, for every plan and every bound.    *)
(***************************************************************************)
THEOREM TypeCorrect == Spec => []TypeOK
<1>1. PageInv => TypeOK
  BY DEF PageInv
<1> QED
  BY <1>1, PageInvariant, PTL

(***************************************************************************)
(* No slot is ever written while one of its pages is not writable: apply() *)
(* and HookGuard::restore cannot fault on a page make_writable missed.     *)
(***************************************************************************)
THEOREM WritesAreSafe == Spec => []WritesOnWritablePages
<1>1. PageInv => WritesOnWritablePages
  <2> SUFFICES ASSUME PageInv, Busy, txn.phase = "write",
                      NEW i \in 1..NSlots(txn.owner),
                      NEW p \in PagesOf[SlotAt(txn.owner, i)]
               PROVE  prot[p] = "rw"
    BY DEF WritesOnWritablePages, Writable
  <2>1. txn.owner \in Guards
    BY OwnerFacts DEF PageInv
  <2>2. \E j \in 1..NPages(txn.owner) : PageAt(txn.owner, j) = p
    BY <2>1, PlanAssumption DEF NPages, PageAt, NSlots, SlotAt
  <2> QED
    BY <2>2 DEF PageInv, OpenInv, Depth
<1> QED
  BY <1>1, PageInvariant, PTL

(***************************************************************************)
(* Between transactions every page the kernel let the engine restore has   *)
(* its load-time protection, however many calls failed before.             *)
(***************************************************************************)
THEOREM ProtectionIsRestored == Spec => []ProtectionRestored
<1>1. PageInv => ProtectionRestored
  BY DEF PageInv, RestInv, ProtectionRestored
<1> QED
  BY <1>1, PageInvariant, PTL

-----------------------------------------------------------------------------
(* Who owns a slot *)

(* The status of a guard says who holds the lock and for what. *)
LockInv ==
  /\ Busy => status[txn.owner] = IF txn.use = "guard" THEN "restoring" ELSE "installing"
  /\ \A g \in Guards : status[g] \in {"installing", "restoring"} => Busy /\ txn.owner = g
  /\ \A g \in orphaned : status[g] = "failed"

(* The i-th slot of an install() that runs holds its replacement, unless   *)
(* somebody else has written it since.                                     *)
Swapped(i) ==
  \/ txn.use = "apply" /\ (txn.phase = "restore" \/ (txn.phase = "write" /\ i < txn.i))
  \/ /\ txn.use = "rollback"
     /\ txn.phase \in {"protect", "undo"} \/ (txn.phase = "write" /\ i >= txn.i)

(* A replacement is in no slot and no saved value before its install()     *)
(* writes it, nor after it has failed; while it runs it is only where      *)
(* apply() has put it.                                                     *)
UnusedInv ==
  \A g \in Guards \ orphaned : status[g] \in {"new", "failed"} =>
    \A s \in Slots : mem[s] # Repl[g] /\ \A h \in Guards : prior[h][s] # Repl[g]

InstallInv ==
  \A g \in Guards : status[g] = "installing" =>
    \A s \in Slots :
      /\ \A h \in Guards : prior[h][s] # Repl[g]
      /\ mem[s] = Repl[g] => \E i \in 1..NSlots(g) : SlotAt(g, i) = s /\ Swapped(i)

(* Without a failing mprotect there is no error and no rollback. *)
FaultInv ==
  Busy /\ faults = 0 => txn.err = "ok" /\ txn.use # "rollback" /\ txn.phase # "undo"

(* The guard still has to restore the slot. *)
Holds(g, i) ==
  \/ status[g] = "active"
  \/ status[g] = "installing" /\ Swapped(i)
  \/ status[g] = "restoring" /\ (txn.phase = "protect" \/ (txn.phase = "write" /\ i >= txn.i))

LiveAt(g, s) == \E i \in 1..NSlots(g) : SlotAt(g, i) = s /\ Holds(g, i)

(* The guards in C are stacked over the slot: its content and what each of *)
(* them saved are the original and the replacements of the others, each    *)
(* once.                                                                   *)
Below(s, C) == {Loaded[s]} \cup {Repl[g] : g \in C}

Chain(s, C) ==
  /\ mem[s] \in Below(s, C)
  /\ \A g \in C : LiveAt(g, s) /\ prior[g][s] \in Below(s, C) /\ prior[g][s] # mem[s]
  /\ \A g, h \in C : prior[g][s] = prior[h][s] => g = h

Quiet == faults = 0 /\ foreign = 0 /\ conflict = {} /\ image = "ours"

ChainInv == Quiet => \A s \in Slots : \E C \in SUBSET Guards : Chain(s, C)

SlotInv == LockInv /\ UnusedInv /\ InstallInv /\ FaultInv /\ ChainInv

(* A step inside the critical section, and one that leaves it. *)
LEMMA GotoFacts ==
  ASSUME TypeOK, Busy, NEW u, NEW ph \in Phases, NEW i, NEW e, Goto(u, ph, i, e)
  PROVE  /\ txn'.owner = txn.owner /\ txn'.use = u /\ txn'.phase = ph /\ txn'.i = i
         /\ txn'.err = e /\ Busy' /\ status' = status
<1>1. txn \in TxnType
  BY OwnerFacts
<1>2. /\ txn'.owner = txn.owner /\ txn'.use = u /\ txn'.phase = ph /\ txn'.i = i
      /\ txn'.err = e /\ status' = status
  BY <1>1 DEF Goto, TxnType
<1>3. Busy'
  BY <1>2 DEF Busy, Idle, Phases
<1>. QED
  BY <1>2, <1>3

LEMMA ReturnFacts ==
  ASSUME TypeOK, NEW g \in Guards, NEW s, Return(g, s)
  PROVE  /\ ~Busy' /\ status' = [status EXCEPT ![g] = s] /\ status'[g] = s
         /\ \A h \in Guards : h # g => status'[h] = status[h]
BY DEF Return, Busy, TypeOK

(* The slots of a plan are different. *)
LEMMA SlotFacts ==
  ASSUME NEW g \in Guards
  PROVE  \A i, j \in 1..NSlots(g) : SlotAt(g, i) = SlotAt(g, j) => i = j
BY PlanAssumption DEF NSlots, SlotAt, Distinct

(* The steps of the engine, by what they do to the lock. *)
LEMMA EngineFacts ==
  ASSUME TypeOK, NEW g \in Guards, Engine(g)
  PROVE  /\ Busy /\ txn.owner = g /\ txn.i \in Nat
         /\ txn.use \in Uses /\ txn.phase \in Phases /\ txn.err \in {"ok", "err"}
         /\ UNCHANGED <<foreign, image, loads>>
<1>1. Busy /\ txn.owner = g
  BY DEF Engine
<1>2. txn \in TxnType /\ txn.i \in Nat
  BY <1>1, OwnerFacts
<1>3. UNCHANGED <<foreign, image, loads>>
  BY DEF Engine, Protect, ProtectFails, Protected, GiveBack, GiveBackFails, MakeWritableFailed,
         Swap, SwapBack, CompareExchange, Written, Finish, image_vars
<1>. QED
  BY <1>1, <1>2, <1>3 DEF TxnType

(* What each step of the engine does to the transaction, the slots and the *)
(* saved values.                                                           *)
LEMMA EngineMoves ==
  ASSUME TypeOK, NEW g \in Guards, Engine(g)
  PROVE  \/ /\ Protect(g) /\ UNCHANGED <<mem, prior, status, conflict, orphaned, faults>> /\ Busy'
            /\ txn.phase = "protect" /\ txn'.phase = "protect"
            /\ txn'.owner = g /\ txn'.use = txn.use /\ txn'.err = txn.err
         \/ /\ ProtectFails(g) /\ UNCHANGED <<mem, prior, status, conflict, orphaned>> /\ Busy'
            /\ faults' = faults + 1 /\ txn.phase = "protect" /\ txn'.phase = "undo"
            /\ txn'.owner = g /\ txn'.use = txn.use
         \/ /\ Protected(g) /\ UNCHANGED <<mem, prior, status, conflict, orphaned, faults>> /\ Busy'
            /\ txn.phase = "protect" /\ txn'.phase = "write" /\ txn'.i = 1
            /\ txn'.owner = g /\ txn'.use = txn.use /\ txn'.err = txn.err
         \/ /\ GiveBack(g) /\ UNCHANGED <<mem, prior, status, conflict, orphaned, faults>> /\ Busy'
            /\ txn.phase \in {"undo", "restore"} /\ txn'.phase = txn.phase
            /\ txn'.owner = g /\ txn'.use = txn.use /\ txn'.err = txn.err
         \/ /\ GiveBackFails(g) /\ UNCHANGED <<mem, prior, status, conflict, orphaned>> /\ Busy'
            /\ faults' = faults + 1 /\ txn.phase \in {"undo", "restore"}
            /\ txn'.phase = txn.phase /\ txn'.owner = g /\ txn'.use = txn.use
         \/ /\ Written(g) /\ UNCHANGED <<mem, prior, status, conflict, orphaned, faults>> /\ Busy'
            /\ txn.phase = "write" /\ txn.i > NSlots(g) /\ txn'.phase = "restore"
            /\ txn'.owner = g /\ txn'.use = txn.use /\ txn'.err = txn.err
         \/ /\ Swap(g) \/ SwapBack(g) \/ CompareExchange(g)
            /\ UNCHANGED <<status, orphaned, faults>> /\ Busy'
            /\ txn.phase = "write" /\ txn.i <= NSlots(g)
            /\ txn'.phase = "write" /\ txn'.i = txn.i + 1
            /\ txn'.owner = g /\ txn'.use = txn.use /\ txn'.err = txn.err
         \/ /\ MakeWritableFailed(g) /\ UNCHANGED <<mem, prior, conflict, faults>> /\ ~Busy'
            /\ txn.phase = "undo"
            /\ orphaned' = IF txn.use = "rollback" THEN orphaned \cup {g} ELSE orphaned
            /\ status'[g] = IF txn.use = "guard" THEN "inactive" ELSE "failed"
            /\ \A h \in Guards : h # g => status'[h] = status[h]
         \/ /\ Finish(g) /\ UNCHANGED <<mem, prior, conflict, orphaned, faults>> /\ ~Busy'
            /\ txn.phase = "restore" /\ (txn.use = "apply" => txn.err = "ok")
            /\ status'[g] = (CASE txn.use = "apply" -> "active"
                               [] txn.use = "rollback" -> "failed"
                               [] txn.use = "guard" -> "inactive")
            /\ \A h \in Guards : h # g => status'[h] = status[h]
         \/ /\ Finish(g) /\ UNCHANGED <<mem, prior, conflict, orphaned, faults, status>> /\ Busy'
            /\ txn.phase = "restore" /\ txn.use = "apply" /\ txn.err = "err"
            /\ txn'.owner = g /\ txn'.use = "rollback" /\ txn'.phase = "protect"
<1>1. /\ Busy /\ txn.owner = g
      /\ txn.use \in Uses /\ txn.phase \in Phases /\ txn.err \in {"ok", "err"}
  BY EngineFacts
<1>2. "protect" \in Phases /\ "undo" \in Phases /\ "write" \in Phases /\ "restore" \in Phases
  BY DEF Phases
<1>3. CASE Protect(g)
  BY <1>1, <1>2, <1>3, GotoFacts DEF Protect, history
<1>4. CASE ProtectFails(g)
  BY <1>1, <1>2, <1>4, GotoFacts DEF ProtectFails, history
<1>5. CASE Protected(g)
  BY <1>1, <1>2, <1>5, GotoFacts DEF Protected, history
<1>6. CASE GiveBack(g)
  BY <1>1, <1>6, GotoFacts DEF GiveBack, history
<1>7. CASE GiveBackFails(g)
  BY <1>1, <1>7, GotoFacts DEF GiveBackFails
<1>8. CASE MakeWritableFailed(g)
  <2>1. /\ UNCHANGED <<mem, prior, conflict, faults>> /\ txn.phase = "undo"
        /\ orphaned' = IF txn.use = "rollback" THEN orphaned \cup {g} ELSE orphaned
    BY <1>8 DEF MakeWritableFailed
  <2>2. /\ ~Busy' /\ status'[g] = IF txn.use = "guard" THEN "inactive" ELSE "failed"
        /\ \A h \in Guards : h # g => status'[h] = status[h]
    BY <1>8, ReturnFacts DEF MakeWritableFailed
  <2>. QED
    BY <1>8, <2>1, <2>2
<1>9. CASE Swap(g) \/ SwapBack(g) \/ CompareExchange(g)
  <2>1. Goto(txn.use, "write", txn.i + 1, txn.err) /\ UNCHANGED <<orphaned, faults>>
        /\ txn.phase = "write" /\ txn.i <= NSlots(g)
    BY <1>9 DEF Swap, SwapBack, CompareExchange, history
  <2>2. /\ UNCHANGED status /\ Busy' /\ txn'.phase = "write" /\ txn'.i = txn.i + 1
        /\ txn'.owner = g /\ txn'.use = txn.use /\ txn'.err = txn.err
    BY <1>1, <1>2, <2>1, GotoFacts
  <2>. QED
    BY <1>9, <2>1, <2>2
<1>10. CASE Written(g)
  BY <1>1, <1>2, <1>10, GotoFacts DEF Written, history
<1>11. CASE Finish(g)
  <2>1. UNCHANGED <<mem, prior, conflict, orphaned, faults>> /\ txn.phase = "restore"
    BY <1>11 DEF Finish, history
  <2>2. CASE txn.use = "apply" /\ txn.err = "err"
    <3>1. Goto("rollback", "protect", 1, "err")
      BY <1>11, <2>2 DEF Finish
    <3>. QED
      BY <1>1, <1>2, <1>11, <2>1, <2>2, <3>1, GotoFacts
  <2>3. CASE ~(txn.use = "apply" /\ txn.err = "err")
    <3>1. Return(g, CASE txn.use = "apply" -> "active" [] txn.use = "rollback" -> "failed"
                      [] txn.use = "guard" -> "inactive")
      BY <1>1, <1>11, <2>3 DEF Finish, Uses
    <3>2. txn.use = "apply" => txn.err = "ok"
      BY <1>1, <2>3
    <3>. QED
      BY <1>11, <2>1, <3>1, <3>2, ReturnFacts
  <2>. QED
    BY <2>2, <2>3
<1>. QED
  BY <1>3, <1>4, <1>5, <1>6, <1>7, <1>8, <1>9, <1>10, <1>11 DEF Engine

(* The lock is held by the guard that installs or restores. *)
LEMMA LockStep ==
  ASSUME TypeOK, LockInv, FaultInv, [Next]_vars
  PROVE  LockInv' /\ FaultInv'
<1>f. faults \in Nat
  BY BoundsAssumption DEF TypeOK
<1>1. ASSUME NEW g \in Guards, Install(g) \/ Drop(g) PROVE LockInv' /\ FaultInv'
  <2>1. /\ ~Busy /\ UNCHANGED <<faults, orphaned>> /\ status[g] \in {"new", "active"}
        /\ \A h \in Guards : status[h] \notin {"installing", "restoring"}
    BY <1>1 DEF Install, Drop, history, LockInv
  <2>2. CASE \/ UNCHANGED txn /\ status' = [status EXCEPT ![g] = "failed"]
             \/ UNCHANGED txn /\ status' = [status EXCEPT ![g] = "active"]
             \/ UNCHANGED txn /\ status' = [status EXCEPT ![g] = "inactive"]
    BY <2>1, <2>2 DEF LockInv, FaultInv, Busy, TypeOK
  <2>3. ASSUME NEW u \in {"apply", "guard"},
               txn' = [owner |-> g, use |-> u, phase |-> "protect", i |-> 1, err |-> "ok"],
               status' = [status EXCEPT ![g] = IF u = "guard" THEN "restoring" ELSE "installing"]
        PROVE  LockInv' /\ FaultInv'
    <3>1. Busy' /\ txn'.owner = g /\ txn'.use = u /\ txn'.phase = "protect" /\ txn'.err = "ok"
      BY <2>3 DEF Busy, Idle
    <3>2. /\ status'[g] = IF u = "guard" THEN "restoring" ELSE "installing"
          /\ \A h \in Guards : h # g => status'[h] = status[h]
      BY <2>3 DEF TypeOK
    <3>3. g \notin orphaned /\ orphaned \subseteq Guards
      BY <2>1 DEF LockInv, TypeOK
    <3>. QED
      BY <2>1, <2>3, <3>1, <3>2, <3>3 DEF LockInv, FaultInv
  <2>. QED
    BY <1>1, <2>2, <2>3 DEF Install, Drop
<1>2. ASSUME NEW g \in Guards, Engine(g) PROVE LockInv' /\ FaultInv'
  <2>1. /\ Busy /\ txn.owner = g /\ orphaned \subseteq Guards
        /\ status[g] = IF txn.use = "guard" THEN "restoring" ELSE "installing"
        /\ \A h \in Guards : h # g => status[h] \notin {"installing", "restoring"}
    BY <1>2, EngineFacts DEF LockInv, TypeOK
  <2>2. CASE /\ UNCHANGED <<status, orphaned>> /\ Busy' /\ txn'.owner = g
             /\ txn'.use = txn.use \/ (txn.use = "apply" /\ txn'.use = "rollback")
             /\ \/ /\ UNCHANGED faults
                   /\ txn'.err = txn.err /\ txn'.use = txn.use
                   /\ txn'.phase = "undo" => txn.phase = "undo"
                \/ faults' = faults + 1
                \/ UNCHANGED faults /\ txn.err = "err"
    <3>1. LockInv'
      BY <2>1, <2>2 DEF LockInv
    <3>2. FaultInv'
      BY <1>f, <2>1, <2>2 DEF FaultInv
    <3>. QED
      BY <3>1, <3>2
  <2>3. CASE /\ ~Busy' /\ status'[g] \in {"active", "inactive", "failed"}
             /\ \A h \in Guards : h # g => status'[h] = status[h]
             /\ orphaned' = orphaned \/ (orphaned' = orphaned \cup {g} /\ status'[g] = "failed")
    <3>1. g \notin orphaned
      BY <2>1 DEF LockInv
    <3>. QED
      BY <2>1, <2>3, <3>1 DEF LockInv, FaultInv
  <2>. QED
    BY <1>2, <2>2, <2>3, EngineMoves, EngineFacts DEF Uses
<1>3. CASE \/ \E s \in Slots : Foreign(s)
           \/ Unload \/ Load \/ UNCHANGED vars
  <2>1. UNCHANGED <<txn, status, faults, orphaned>>
    BY <1>3 DEF Foreign, Unload, Load, vars, history
  <2>. QED
    BY <2>1 DEF LockInv, FaultInv, Busy
<1>. QED
  BY <1>1, <1>2, <1>3 DEF Next

(* A step of the engine that touches no slot and no saved value. *)
LEMMA UnusedKept ==
  ASSUME UnusedInv, InstallInv, UNCHANGED <<mem, prior>>, orphaned \subseteq orphaned',
         \A g \in Guards : status'[g] \in {"new", "failed"} /\ g \notin orphaned' =>
           \/ status[g] \in {"new", "failed"}
           \/ status[g] = "installing" /\ \A i \in 1..NSlots(g) : ~Swapped(i),
         \A g \in Guards : status'[g] = "installing" =>
           \/ status[g] = "new" /\ g \notin orphaned
           \/ status[g] = "installing" /\ \A i \in 1..NSlots(g) : Swapped(i) => Swapped(i)'
  PROVE  UnusedInv' /\ InstallInv'
<1>1. UnusedInv'
  <2> SUFFICES ASSUME NEW g \in Guards, g \notin orphaned', status'[g] \in {"new", "failed"},
                      NEW s \in Slots
               PROVE  mem[s] # Repl[g] /\ \A h \in Guards : prior[h][s] # Repl[g]
    BY DEF UnusedInv
  <2>. QED
    BY DEF UnusedInv, InstallInv
<1>2. InstallInv'
  <2> SUFFICES ASSUME NEW g \in Guards, status'[g] = "installing", NEW s \in Slots
               PROVE  /\ \A h \in Guards : prior[h][s] # Repl[g]
                      /\ mem[s] = Repl[g] => \E i \in 1..NSlots(g) : SlotAt(g, i) = s /\ Swapped(i)'
    BY DEF InstallInv
  <2>. QED
    BY DEF UnusedInv, InstallInv
<1>. QED
  BY <1>1, <1>2

LEMMA UnusedStep ==
  ASSUME TypeOK, IndexInv, LockInv, UnusedInv, InstallInv, [Next]_vars
  PROVE  UnusedInv' /\ InstallInv'
<1>1. ASSUME NEW g \in Guards, Install(g) \/ Drop(g) PROVE UnusedInv' /\ InstallInv'
  <2>1. /\ ~Busy /\ UNCHANGED <<mem, prior, orphaned>>
        /\ \A h \in Guards : h # g => status'[h] = status[h]
        /\ \A h \in Guards : status[h] # "installing"
        /\ \/ status[g] = "new" /\ status'[g] \in {"failed", "active", "installing"}
           \/ status[g] = "active" /\ status'[g] \in {"inactive", "restoring"}
    BY <1>1 DEF Install, Drop, history, LockInv, TypeOK
  <2>2. status[g] = "new" => g \notin orphaned
    BY DEF LockInv
  <2>. QED
    BY <2>1, <2>2, UnusedKept
<1>2. ASSUME NEW g \in Guards, Engine(g) PROVE UnusedInv' /\ InstallInv'
  <2>1. /\ Busy /\ txn.owner = g /\ txn.i \in Nat /\ NSlots(g) \in Nat
        /\ txn.use \in Uses /\ txn.phase \in Phases
        /\ status[g] = IF txn.use = "guard" THEN "restoring" ELSE "installing"
        /\ \A h \in Guards : h # g => status[h] # "installing"
        /\ txn.phase = "write" => txn.i >= 1
    BY <1>2, EngineFacts, PlanFacts DEF LockInv, IndexInv
  <2>p. "protect" \in Phases /\ "undo" \in Phases /\ "write" \in Phases /\ "restore" \in Phases
    BY DEF Phases
  <2>2. CASE /\ UNCHANGED <<mem, prior, status, orphaned>>
             /\ \A i \in 1..NSlots(g) : Swapped(i) => Swapped(i)'
    <3>1. \A h \in Guards : status[h] = "installing" =>
            h = g /\ \A i \in 1..NSlots(h) : Swapped(i) => Swapped(i)'
      BY <2>1, <2>2
    <3>. QED
      BY <2>2, <3>1, UnusedKept
  <2>3. CASE Protect(g) \/ ProtectFails(g) \/ Protected(g) \/ GiveBack(g) \/ GiveBackFails(g)
               \/ Written(g)
    <3>1. UNCHANGED <<mem, prior, status, orphaned>>
      BY <1>2, <2>3, EngineMoves
      DEF Protect, ProtectFails, Protected, GiveBack, GiveBackFails, Written, Goto, history
    <3>2. \A i \in 1..NSlots(g) : Swapped(i) => Swapped(i)'
      <4>1. CASE Protect(g) \/ GiveBack(g) \/ GiveBackFails(g)
        <5>1. txn'.use = txn.use /\ txn'.phase = txn.phase /\ txn.phase # "write"
          <6>1. CASE Protect(g)
            BY <2>1, <2>p, <6>1, GotoFacts DEF Protect
          <6>2. CASE GiveBack(g)
            BY <2>1, <6>2, GotoFacts DEF GiveBack
          <6>3. CASE GiveBackFails(g)
            BY <2>1, <6>3, GotoFacts DEF GiveBackFails
          <6>. QED
            BY <4>1, <6>1, <6>2, <6>3
        <5>. QED
          BY <5>1 DEF Swapped
      <4>2. CASE ProtectFails(g)
        <5>1. txn'.use = txn.use /\ txn'.phase = "undo" /\ txn.phase = "protect"
          BY <2>1, <2>p, <4>2, GotoFacts DEF ProtectFails
        <5>. QED
          BY <5>1 DEF Swapped
      <4>3. CASE Protected(g)
        <5>1. txn'.use = txn.use /\ txn'.phase = "write" /\ txn'.i = 1 /\ txn.phase = "protect"
          BY <2>1, <2>p, <4>3, GotoFacts DEF Protected
        <5>. QED
          BY <5>1 DEF Swapped
      <4>4. CASE Written(g)
        <5>1. /\ txn'.use = txn.use /\ txn'.phase = "restore" /\ txn.phase = "write"
              /\ txn.i > NSlots(g)
          BY <2>1, <2>p, <4>4, GotoFacts DEF Written
        <5>. QED
          BY <2>1, <5>1 DEF Swapped
      <4>. QED
        BY <2>3, <4>1, <4>2, <4>3, <4>4
    <3>. QED
      BY <2>2, <3>1, <3>2
  <2>4. CASE MakeWritableFailed(g)
    <3>1. /\ UNCHANGED <<mem, prior>> /\ txn.phase = "undo"
          /\ orphaned' = IF txn.use = "rollback" THEN orphaned \cup {g} ELSE orphaned
          /\ status'[g] \in {"inactive", "failed"}
          /\ status'[g] = "failed" => txn.use # "guard"
          /\ \A h \in Guards : h # g => status'[h] = status[h]
      BY <2>4, ReturnFacts DEF MakeWritableFailed
    <3>2. txn.use = "apply" => \A i \in 1..NSlots(g) : ~Swapped(i)
      BY <3>1 DEF Swapped
    <3>. QED
      BY <2>1, <3>1, <3>2, UnusedKept DEF Uses
  <2>5. CASE Finish(g)
    <3>0. UNCHANGED <<mem, prior, orphaned>> /\ txn.phase = "restore"
      BY <2>5 DEF Finish, history
    <3>1. CASE txn.use = "apply" /\ txn.err = "err"
      <4>1. Goto("rollback", "protect", 1, "err") /\ "protect" \in Phases
        BY <2>5, <3>1 DEF Finish, Phases
      <4>2. UNCHANGED status /\ txn'.use = "rollback" /\ txn'.phase = "protect"
        BY <2>1, <4>1, GotoFacts
      <4>3. \A i \in 1..NSlots(g) : Swapped(i)'
        BY <4>2 DEF Swapped
      <4>. QED
        BY <2>2, <3>0, <4>2, <4>3
    <3>2. CASE ~(txn.use = "apply" /\ txn.err = "err")
      <4>1. /\ status'[g] \in {"active", "inactive", "failed"}
            /\ status'[g] = "failed" => txn.use = "rollback"
            /\ \A h \in Guards : h # g => status'[h] = status[h]
        <5>1. txn.err \in {"ok", "err"} /\ txn.use \in {"apply", "rollback", "guard"}
          BY <1>2, EngineFacts DEF Uses
        <5>2. PICK v \in {"active", "inactive", "failed"} :
                Return(g, v) /\ (v = "failed" => txn.use = "rollback")
          BY <2>5, <3>2, <5>1 DEF Finish
        <5>. QED
          BY <5>2, ReturnFacts
      <4>2. txn.use = "rollback" => \A i \in 1..NSlots(g) : ~Swapped(i)
        BY <3>0 DEF Swapped
      <4>. QED
        BY <2>1, <3>0, <4>1, <4>2, UnusedKept
    <3>. QED
      BY <3>1, <3>2
  <2>6. CASE Swap(g) \/ SwapBack(g) \/ CompareExchange(g)
    <3>0. PICK n, x : n = txn.i /\ x = SlotAt(g, n)
      OBVIOUS
    <3>1. /\ Goto(txn.use, "write", n + 1, txn.err) /\ UNCHANGED orphaned
          /\ txn.phase = "write" /\ n <= NSlots(g) /\ "write" \in Phases
      BY <2>6, <3>0 DEF Swap, SwapBack, CompareExchange, history, Phases
    <3>2. /\ UNCHANGED <<status, orphaned>> /\ n \in 1..NSlots(g) /\ x \in Slots
          /\ txn'.use = txn.use /\ txn'.phase = "write" /\ txn'.i = n + 1
      BY <2>1, <3>0, <3>1, GotoFacts, PlanFacts
    <3>3. /\ mem \in [Slots -> Values] /\ prior \in [Guards -> [Slots -> Values]]
      BY DEF TypeOK
    <3>4. \A h \in Guards : status[h] = "installing" => \A s \in Slots, v \in Guards : prior[v][s] # Repl[h]
      BY DEF InstallInv
    <3>5. CASE SwapBack(g) \/ CompareExchange(g)
      <4>1. UNCHANGED prior /\ (UNCHANGED mem \/ mem' = [mem EXCEPT ![x] = prior[g][x]])
        BY <3>0, <3>5 DEF SwapBack, CompareExchange
      <4>2. \A s \in Slots : mem'[s] = mem[s] \/ mem'[s] = prior[g][s]
        BY <3>2, <3>3, <4>1
      <4>3. UnusedInv'
        BY <3>2, <4>1, <4>2 DEF UnusedInv
      <4>4. InstallInv'
        <5>1. CASE CompareExchange(g)
          <6>1. \A h \in Guards : status[h] # "installing"
            BY <2>1, <5>1 DEF CompareExchange
          <6>. QED
            BY <3>2, <6>1 DEF InstallInv
        <5>2. CASE SwapBack(g)
          <6>1. txn.use = "rollback" /\ mem' = [mem EXCEPT ![x] = prior[g][x]]
            BY <3>0, <5>2 DEF SwapBack
          <6>2. ASSUME NEW s \in Slots, mem'[s] = Repl[g]
                PROVE  \E i \in 1..NSlots(g) : SlotAt(g, i) = s /\ Swapped(i)'
            <7>1. s # x /\ mem[s] = Repl[g]
              BY <2>1, <3>2, <3>3, <3>4, <6>1, <6>2
            <7>2. PICK i \in 1..NSlots(g) : SlotAt(g, i) = s /\ Swapped(i)
              BY <2>1, <6>1, <7>1 DEF InstallInv
            <7>3. i >= n /\ i # n
              BY <3>0, <3>1, <6>1, <7>1, <7>2 DEF Swapped
            <7>4. Swapped(i)'
              BY <2>1, <3>2, <6>1, <7>3 DEF Swapped
            <7>. QED
              BY <7>2, <7>4
          <6>. QED
            BY <2>1, <3>2, <4>1, <3>4, <6>2 DEF InstallInv
        <5>. QED
          BY <3>5, <5>1, <5>2
      <4>. QED
        BY <4>3, <4>4
    <3>6. CASE Swap(g)
      <4>1. /\ txn.use = "apply" /\ mem' = [mem EXCEPT ![x] = Repl[g]]
            /\ prior' = [prior EXCEPT ![g][x] = mem[x]]
        BY <3>0, <3>6 DEF Swap
      <4>2. /\ mem'[x] = Repl[g] /\ \A s \in Slots : s # x => mem'[s] = mem[s]
            /\ prior'[g][x] = mem[x]
            /\ \A s \in Slots, h \in Guards : h # g \/ s # x => prior'[h][s] = prior[h][s]
        BY <3>2, <3>3, <4>1
      <4>3. UnusedInv'
        <5>1. \A h \in Guards : h # g => Repl[h] # Repl[g]
          BY ReplAssumption
        <5>2. status[g] \notin {"new", "failed"}
          BY <2>1, <4>1
        <5> SUFFICES ASSUME NEW h \in Guards, h \notin orphaned, status[h] \in {"new", "failed"},
                            NEW s \in Slots
                     PROVE  mem'[s] # Repl[h] /\ \A v \in Guards : prior'[v][s] # Repl[h]
          BY <3>2 DEF UnusedInv
        <5>3. mem[s] # Repl[h] /\ \A v \in Guards : prior[v][s] # Repl[h]
          BY DEF UnusedInv
        <5>4. mem'[s] = mem[s] \/ mem'[s] = Repl[g]
          BY <4>2
        <5>5. \A v \in Guards : prior'[v][s] = prior[v][s] \/ prior'[v][s] = mem[s]
          BY <4>2
        <5>. QED
          BY <5>1, <5>2, <5>3, <5>4, <5>5
      <4>4. InstallInv'
        <5>1. mem[x] # Repl[g]
          <6> SUFFICES ASSUME mem[x] = Repl[g] PROVE FALSE
            OBVIOUS
          <6>1. PICK i \in 1..NSlots(g) : SlotAt(g, i) = x /\ Swapped(i)
            BY <2>1, <3>2, <4>1 DEF InstallInv
          <6>2. i < n
            BY <3>0, <3>1, <4>1, <6>1 DEF Swapped
          <6>3. i = n
            BY <3>0, <3>2, <6>1, SlotFacts
          <6>. QED
            BY <2>1, <6>2, <6>3
        <5>2. \A s \in Slots, v \in Guards : prior'[v][s] # Repl[g]
          BY <2>1, <3>4, <4>1, <4>2, <5>1
        <5>3. ASSUME NEW s \in Slots, mem'[s] = Repl[g]
              PROVE  \E i \in 1..NSlots(g) : SlotAt(g, i) = s /\ Swapped(i)'
          <6>1. CASE s = x
            <7>1. Swapped(n)'
              BY <2>1, <3>2, <4>1 DEF Swapped
            <7>. QED
              BY <3>0, <3>2, <6>1, <7>1
          <6>2. CASE s # x
            <7>1. PICK i \in 1..NSlots(g) : SlotAt(g, i) = s /\ Swapped(i)
              BY <2>1, <4>1, <4>2, <5>3, <6>2 DEF InstallInv
            <7>2. i < n
              BY <3>0, <3>1, <4>1, <7>1 DEF Swapped
            <7>3. Swapped(i)'
              BY <2>1, <3>2, <4>1, <7>2 DEF Swapped
            <7>. QED
              BY <7>1, <7>3
          <6>. QED
            BY <6>1, <6>2
        <5>. QED
          BY <2>1, <3>2, <5>2, <5>3 DEF InstallInv
      <4>. QED
        BY <4>3, <4>4
    <3>. QED
      BY <2>6, <3>5, <3>6
  <2>. QED
    BY <1>2, <2>3, <2>4, <2>5, <2>6 DEF Engine
<1>3. ASSUME NEW s \in Slots, Foreign(s) PROVE UnusedInv' /\ InstallInv'
  <2>1. /\ UNCHANGED <<txn, status, orphaned, prior>> /\ mem' = [mem EXCEPT ![s] = ForeignValue]
    BY <1>3 DEF Foreign, history
  <2>2. \A x \in Slots : mem'[x] = mem[x] \/ mem'[x] = ForeignValue
    BY <2>1 DEF TypeOK
  <2>3. \A g \in Guards : Repl[g] # ForeignValue
    BY ReplAssumption
  <2>4. \A i : Swapped(i)' = Swapped(i)
    BY <2>1 DEF Swapped
  <2>5. UnusedInv'
    BY <2>1, <2>2, <2>3 DEF UnusedInv
  <2>6. InstallInv'
    BY <2>1, <2>2, <2>3, <2>4 DEF InstallInv
  <2>. QED
    BY <2>5, <2>6
<1>4. CASE Load
  <2>1. ~Busy /\ UNCHANGED <<status, orphaned, prior>> /\ mem' = Loaded
    BY <1>4 DEF Load
  <2>2. \A g \in Guards, s \in Slots : Repl[g] # Loaded[s]
    BY ReplAssumption
  <2>3. \A g \in Guards : status[g] # "installing"
    BY <2>1 DEF LockInv
  <2>. QED
    BY <2>1, <2>2, <2>3 DEF UnusedInv, InstallInv
<1>5. CASE Unload \/ UNCHANGED vars
  <2>1. UNCHANGED <<mem, txn, status, orphaned, prior>>
    BY <1>5 DEF Unload, vars, history
  <2>2. \A i : Swapped(i)' = Swapped(i)
    BY <2>1 DEF Swapped
  <2>3. UnusedInv'
    BY <2>1 DEF UnusedInv
  <2>4. InstallInv'
    BY <2>1, <2>2 DEF InstallInv
  <2>. QED
    BY <2>3, <2>4
<1>. QED
  BY <1>1, <1>2, <1>3, <1>4, <1>5 DEF Next

LEMMA ChainKept ==
  ASSUME NEW s, NEW C, Chain(s, C), mem'[s] = mem[s],
         \A g \in C : prior'[g][s] = prior[g][s] /\ LiveAt(g, s)'
  PROVE  Chain(s, C)'
BY DEF Chain, Below

(* No guard lets go of a slot and no slot changes: the stacks stay. *)
LEMMA ChainsKept ==
  ASSUME ChainInv, Quiet, UNCHANGED <<mem, prior>>,
         \A g \in Guards : \A i \in 1..NSlots(g) : Holds(g, i) => Holds(g, i)'
  PROVE  ChainInv'
<1> SUFFICES ASSUME NEW s \in Slots PROVE \E C \in SUBSET Guards : Chain(s, C)'
  BY DEF ChainInv
<1>1. PICK C \in SUBSET Guards : Chain(s, C)
  BY DEF ChainInv
<1>2. \A g \in C : LiveAt(g, s)'
  BY <1>1 DEF Chain, LiveAt, NSlots, SlotAt
<1>. QED
  BY <1>1, <1>2, ChainKept

(* apply() puts its guard on top of the stack. *)
LEMMA SwapChain ==
  ASSUME TypeOK, IndexInv, LockInv, InstallInv, ChainInv, Quiet,
         NEW g \in Guards, Engine(g), Swap(g)
  PROVE  ChainInv'
<1>0. PICK n, x : n = txn.i /\ x = SlotAt(g, n)
  OBVIOUS
<1>1. /\ Busy /\ txn.owner = g /\ NSlots(g) \in Nat /\ n \in 1..NSlots(g) /\ x \in Slots
      /\ txn.phase = "write" /\ txn.use = "apply" /\ "write" \in Phases
      /\ status[g] = "installing"
  BY <1>0, EngineFacts, PlanFacts DEF Swap, LockInv, IndexInv, Phases
<1>2. /\ UNCHANGED status /\ txn'.use = "apply" /\ txn'.phase = "write" /\ txn'.i = n + 1
  BY <1>0, <1>1, GotoFacts DEF Swap
<1>3. mem' = [mem EXCEPT ![x] = Repl[g]] /\ prior' = [prior EXCEPT ![g][x] = mem[x]]
  BY <1>0 DEF Swap
<1>4. /\ mem'[x] = Repl[g] /\ \A s \in Slots : s # x => mem'[s] = mem[s]
      /\ prior'[g][x] = mem[x]
      /\ \A s \in Slots, h \in Guards : h # g \/ s # x => prior'[h][s] = prior[h][s]
  BY <1>1, <1>3 DEF TypeOK
<1>5. \A h \in Guards : \A i \in 1..NSlots(h) : Holds(h, i) => Holds(h, i)'
  <2>1. \A i \in 1..NSlots(g) : Swapped(i) => Swapped(i)'
    BY <1>0, <1>1, <1>2 DEF Swapped
  <2>2. \A h \in Guards : h # g => status[h] \notin {"installing", "restoring"}
    BY <1>1 DEF LockInv
  <2>. QED
    BY <1>1, <1>2, <2>1, <2>2 DEF Holds
<1>6. \A h \in Guards, s \in Slots : LiveAt(h, s) => LiveAt(h, s)'
  BY <1>5 DEF LiveAt, NSlots, SlotAt
<1>7. \A i \in 1..NSlots(g) : SlotAt(g, i) = x => ~Swapped(i)
  BY <1>0, <1>1, SlotFacts DEF Swapped
<1>8. mem[x] # Repl[g] /\ \A h \in Guards : prior[h][x] # Repl[g]
  BY <1>1, <1>7 DEF InstallInv
<1> SUFFICES ASSUME NEW s \in Slots PROVE \E C \in SUBSET Guards : Chain(s, C)'
  BY DEF ChainInv
<1>9. PICK C \in SUBSET Guards : Chain(s, C)
  BY DEF ChainInv
<1>10. CASE s # x
  <2>1. \A h \in C : prior'[h][s] = prior[h][s] /\ LiveAt(h, s)'
    BY <1>4, <1>6, <1>9, <1>10 DEF Chain
  <2>. QED
    BY <1>4, <1>9, <1>10, <2>1, ChainKept
<1>11. CASE s = x
  <2>1. g \notin C
    BY <1>1, <1>7, <1>9, <1>11 DEF Chain, LiveAt, Holds
  <2>2. PICK D \in SUBSET Guards : D = C \cup {g}
    BY <1>9
  <2>3. \A h \in C : prior'[h][s] = prior[h][s]
    BY <1>4, <1>9, <2>1
  <2>4. LiveAt(g, s)'
    <3>1. Swapped(n)'
      BY <1>1, <1>2 DEF Swapped
    <3>. QED
      BY <1>0, <1>1, <1>2, <1>11, <3>1 DEF LiveAt, Holds, NSlots, SlotAt
  <2>5. \A h \in D : LiveAt(h, s)'
    BY <1>6, <1>9, <2>2, <2>4 DEF Chain
  <2>6. mem'[s] \in Below(s, D) /\ Below(s, C) \subseteq Below(s, D)
    BY <1>4, <1>11, <2>2 DEF Below
  <2>7. \A h \in D : prior'[h][s] \in Below(s, D) /\ prior'[h][s] # mem'[s]
    <3>1. mem[s] \in Below(s, C) /\ \A h \in C : prior[h][s] \in Below(s, C)
      BY <1>9 DEF Chain
    <3>2. mem'[s] = Repl[g] /\ mem[s] # Repl[g] /\ prior'[g][s] = mem[s]
      BY <1>4, <1>8, <1>11
    <3>3. \A h \in C : prior[h][s] # Repl[g]
      BY <1>8, <1>9, <1>11
    <3>4. prior'[g][s] \in Below(s, D) /\ prior'[g][s] # mem'[s]
      BY <2>6, <3>1, <3>2
    <3>5. \A h \in C : prior'[h][s] \in Below(s, D) /\ prior'[h][s] # mem'[s]
      BY <2>3, <2>6, <3>1, <3>2, <3>3
    <3>. QED
      BY <2>2, <3>4, <3>5
  <2>8. \A h, k \in D : prior'[h][s] = prior'[k][s] => h = k
    BY <1>4, <1>9, <1>11, <2>2, <2>3 DEF Chain
  <2>9. Chain(s, D)'
    BY <2>5, <2>6, <2>7, <2>8 DEF Chain, Below
  <2>. QED
    BY <2>9
<1>. QED
  BY <1>10, <1>11

(* HookGuard::restore takes its guard off the top of the stack, or reports *)
(* a conflict: no other guard of the stack is in the way unnoticed.        *)
LEMMA CompareExchangeChain ==
  ASSUME TypeOK, IndexInv, LockInv, ChainInv, Quiet, Quiet',
         NEW g \in Guards, Engine(g), CompareExchange(g)
  PROVE  ChainInv'
<1>0. PICK n, x : n = txn.i /\ x = SlotAt(g, n)
  OBVIOUS
<1>1. /\ Busy /\ txn.owner = g /\ NSlots(g) \in Nat /\ n \in 1..NSlots(g) /\ x \in Slots
      /\ txn.phase = "write" /\ txn.use = "guard" /\ "write" \in Phases
      /\ status[g] = "restoring"
  BY <1>0, EngineFacts, PlanFacts DEF CompareExchange, LockInv, IndexInv, Phases
<1>2. /\ UNCHANGED <<status, prior>> /\ txn'.use = "guard" /\ txn'.phase = "write"
      /\ txn'.i = n + 1
  BY <1>0, <1>1, GotoFacts DEF CompareExchange
<1>3. /\ mem[x] \in {Repl[g], prior[g][x]}
      /\ mem' = IF mem[x] = Repl[g] THEN [mem EXCEPT ![x] = prior[g][x]] ELSE mem
  BY <1>0 DEF CompareExchange, Quiet
<1>4. \A h \in Guards : \A i \in 1..NSlots(h) : h # g \/ i # n => (Holds(h, i) => Holds(h, i)')
  <2>1. \A h \in Guards : h # g => status[h] \notin {"installing", "restoring"}
    BY <1>1 DEF LockInv
  <2>. QED
    BY <1>0, <1>1, <1>2, <2>1 DEF Holds
<1>5. \A h \in Guards, s \in Slots : h # g \/ s # x => (LiveAt(h, s) => LiveAt(h, s)')
  BY <1>0, <1>4 DEF LiveAt, NSlots, SlotAt
<1> SUFFICES ASSUME NEW s \in Slots PROVE \E C \in SUBSET Guards : Chain(s, C)'
  BY DEF ChainInv
<1>6. PICK C \in SUBSET Guards : Chain(s, C)
  BY DEF ChainInv
<1>7. CASE s # x
  <2>1. mem'[s] = mem[s]
    BY <1>1, <1>3, <1>7 DEF TypeOK
  <2>2. \A h \in C : prior'[h][s] = prior[h][s] /\ LiveAt(h, s)'
    BY <1>2, <1>5, <1>6, <1>7 DEF Chain
  <2>. QED
    BY <1>6, <2>1, <2>2, ChainKept
<1>8. CASE s = x /\ mem[x] # Repl[g]
  <2>1. mem' = mem /\ g \notin C
    BY <1>3, <1>6, <1>8 DEF Chain
  <2>2. \A h \in C : prior'[h][s] = prior[h][s] /\ LiveAt(h, s)'
    BY <1>2, <1>5, <1>6, <2>1 DEF Chain
  <2>. QED
    BY <1>6, <2>1, <2>2, ChainKept
<1>9. CASE s = x /\ mem[x] = Repl[g]
  <2>1. mem'[s] = prior[g][s]
    BY <1>1, <1>3, <1>9 DEF TypeOK
  <2>2. g \in C
    BY <1>6, <1>9, ReplAssumption DEF Chain, Below
  <2>3. PICK D \in SUBSET Guards : D = C \ {g}
    BY <1>6
  <2>4. ASSUME NEW v \in Below(s, C), v # Repl[g] PROVE v \in Below(s, D)
    BY <2>3, <2>4 DEF Below
  <2>5. \A h \in C : prior[h][s] \in Below(s, D)
    BY <1>6, <1>9, <2>4 DEF Chain
  <2>6. \A h \in D : LiveAt(h, s)' /\ prior[h][s] # prior[g][s]
    BY <1>5, <1>6, <2>2, <2>3 DEF Chain
  <2>7. \A h, k \in D : prior[h][s] = prior[k][s] => h = k
    BY <1>6, <2>3 DEF Chain
  <2>8. Chain(s, D)'
    BY <1>2, <2>1, <2>2, <2>3, <2>5, <2>6, <2>7 DEF Chain, Below
  <2>. QED
    BY <2>8
<1>. QED
  BY <1>7, <1>8, <1>9

LEMMA ChainStep ==
  ASSUME TypeOK, IndexInv, LockInv, InstallInv, FaultInv, ChainInv, TypeOK', [Next]_vars
  PROVE  ChainInv'
<1> SUFFICES ASSUME Quiet' PROVE ChainInv'
  BY DEF ChainInv
<1>f. faults \in Nat /\ foreign \in Nat
  BY BoundsAssumption DEF TypeOK
<1>1. ASSUME NEW g \in Guards, Install(g) \/ Drop(g) PROVE ChainInv'
  <2>1. /\ ~Busy /\ UNCHANGED <<mem, prior, faults, foreign, conflict, image>>
        /\ \A h \in Guards : h # g => status'[h] = status[h]
        /\ \A h \in Guards : status[h] \notin {"installing", "restoring"}
    BY <1>1 DEF Install, Drop, history, image_vars, LockInv, TypeOK
  <2>2. Quiet
    BY <2>1 DEF Quiet
  <2>3. \A h \in Guards : \A i \in 1..NSlots(h) : h # g => (Holds(h, i) => Holds(h, i)')
    BY <2>1 DEF Holds
  <2>4. \A i \in 1..NSlots(g) : Holds(g, i) => Holds(g, i)'
    <3>1. CASE Install(g)
      BY <2>1, <3>1 DEF Install, Holds
    <3>2. CASE Drop(g)
      <4> SUFFICES ASSUME NEW i \in 1..NSlots(g) PROVE Holds(g, i)'
        OBVIOUS
      <4>1. NSlots(g) # 0 /\ image # "none"
        BY <2>2, PlanFacts DEF Quiet
      <4>2. /\ status' = [status EXCEPT ![g] = "restoring"]
            /\ txn' = [owner |-> g, use |-> "guard", phase |-> "protect", i |-> 1, err |-> "ok"]
        BY <3>2, <4>1 DEF Drop
      <4>3. status'[g] = "restoring" /\ txn'.phase = "protect"
        BY <4>2 DEF TypeOK
      <4>. QED
        BY <4>3 DEF Holds
    <3>. QED
      BY <1>1, <3>1, <3>2
  <2>. QED
    BY <2>1, <2>2, <2>3, <2>4, ChainsKept
<1>2. ASSUME NEW g \in Guards, Engine(g) PROVE ChainInv'
  <2>1. /\ Busy /\ txn.owner = g /\ txn.i \in Nat /\ NSlots(g) \in Nat
        /\ UNCHANGED <<foreign, image>>
        /\ status[g] = IF txn.use = "guard" THEN "restoring" ELSE "installing"
        /\ \A h \in Guards : h # g => status[h] \notin {"installing", "restoring"}
    BY <1>2, EngineFacts, PlanFacts DEF LockInv
  <2>2. conflict = {}
    BY <1>2 DEF Engine, Protect, ProtectFails, Protected, GiveBack, GiveBackFails, Swap, SwapBack,
                MakeWritableFailed, CompareExchange, Written, Finish, history, Quiet
  <2>3. UNCHANGED faults
    BY <1>2, <1>f, EngineMoves DEF Quiet
  <2>4. Quiet /\ txn.err = "ok" /\ txn.use # "rollback" /\ txn.phase # "undo"
    BY <2>1, <2>2, <2>3 DEF Quiet, FaultInv
  <2>5. ASSUME UNCHANGED <<mem, prior>>, \A h \in Guards : h # g => status'[h] = status[h],
               \A i \in 1..NSlots(g) : Holds(g, i) => Holds(g, i)'
        PROVE  ChainInv'
    <3>1. \A h \in Guards : \A i \in 1..NSlots(h) : h # g => (Holds(h, i) => Holds(h, i)')
      BY <2>1, <2>5 DEF Holds
    <3>. QED
      BY <2>4, <2>5, <3>1, ChainsKept
  <2>6. CASE /\ UNCHANGED <<mem, prior, status>> /\ txn'.use = txn.use
             /\ \/ txn.phase # "write" /\ txn'.phase = txn.phase
                \/ txn.phase = "protect" /\ txn'.phase = "write" /\ txn'.i = 1
                \/ txn.phase = "write" /\ txn.i > NSlots(g) /\ txn'.phase = "restore"
    <3>1. \A i \in 1..NSlots(g) : Holds(g, i) => Holds(g, i)'
      BY <2>1, <2>4, <2>6 DEF Holds, Swapped
    <3>. QED
      BY <2>5, <2>6, <3>1
  <2>7. CASE /\ UNCHANGED <<mem, prior>> /\ txn.phase = "restore"
             /\ status'[g] = (CASE txn.use = "apply" -> "active"
                                [] txn.use = "rollback" -> "failed"
                                [] txn.use = "guard" -> "inactive")
             /\ \A h \in Guards : h # g => status'[h] = status[h]
    <3>1. \A i \in 1..NSlots(g) : Holds(g, i) => Holds(g, i)'
      <4>1. CASE txn.use = "apply"
        BY <2>7, <4>1 DEF Holds
      <4>2. CASE txn.use = "guard"
        BY <2>1, <2>7, <4>2 DEF Holds
      <4>. QED
        BY <1>2, <2>4, <4>1, <4>2, EngineFacts DEF Uses
    <3>. QED
      BY <2>5, <2>7, <3>1
  <2>8. CASE Swap(g)
    BY <1>2, <2>4, <2>8, SwapChain
  <2>9. CASE CompareExchange(g)
    BY <1>2, <2>4, <2>9, CompareExchangeChain
  <2>10. ~SwapBack(g)
    BY <2>4 DEF SwapBack
  <2>11. faults' # faults + 1
    BY <1>f, <2>3
  <2>. QED
    BY <1>2, <2>3, <2>4, <2>6, <2>7, <2>8, <2>9, <2>10, <2>11, EngineMoves
<1>3. ASSUME NEW s \in Slots, Foreign(s) PROVE ChainInv'
  BY <1>f, <1>3 DEF Foreign, Quiet
<1>4. CASE Unload
  BY <1>4 DEF Unload, Quiet
<1>5. CASE Load
  <2>1. mem' = Loaded
    BY <1>5 DEF Load
  <2>2. \A s \in Slots : Chain(s, {})'
    BY <2>1 DEF Chain, Below
  <2>. QED
    BY <2>2 DEF ChainInv
<1>6. CASE UNCHANGED vars
  <2>1. UNCHANGED <<mem, prior, txn, status>> /\ Quiet
    BY <1>6 DEF vars, Quiet
  <2>2. \A g \in Guards : \A i \in 1..NSlots(g) : Holds(g, i) => Holds(g, i)'
    BY <2>1 DEF Holds, Swapped
  <2>. QED
    BY <2>1, <2>2, ChainsKept
<1>. QED
  BY <1>1, <1>2, <1>3, <1>4, <1>5, <1>6 DEF Next

LEMMA SlotInit == Init => SlotInv
<1> SUFFICES ASSUME Init PROVE SlotInv
  OBVIOUS
<1>1. ~Busy /\ \A g \in Guards : status[g] = "new"
  BY DEF Init, Busy
<1>2. LockInv /\ FaultInv
  BY <1>1 DEF LockInv, FaultInv, Init
<1>3. UnusedInv
  BY ReplAssumption DEF UnusedInv, Init
<1>4. InstallInv
  BY <1>1 DEF InstallInv
<1>5. \A s \in Slots : Chain(s, {})
  BY DEF Chain, Below, Init
<1>. QED
  BY <1>2, <1>3, <1>4, <1>5 DEF SlotInv, ChainInv

LEMMA SlotInvariant == Spec => [](PageInv /\ SlotInv)
<1>1. PageInv /\ SlotInv /\ [Next]_vars => SlotInv'
  BY PageStep, LockStep, UnusedStep, ChainStep DEF PageInv, SlotInv
<1>. QED
  BY <1>1, PageInit, PageStep, SlotInit, PTL DEF Spec

(***************************************************************************)
(* A failed install() has no slot left that points at its replacement,     *)
(* whichever call of apply() failed, unless its rollback could not make    *)
(* the pages writable.                                                     *)
(***************************************************************************)
THEOREM FailureLeavesNothing == Spec => []FailedInstallUnpatched
<1>1. SlotInv => FailedInstallUnpatched
  BY DEF SlotInv, UnusedInv, FailedInstallUnpatched
<1>. QED
  BY <1>1, SlotInvariant, PTL

(***************************************************************************)
(* Guards over the same slots, with the image unloaded and mapped again in *)
(* between, give every slot its original back when they are dropped in an  *)
(* order in which none of them reports a conflict or meets an error.       *)
(***************************************************************************)
THEOREM OriginalsComeBack == Spec => []AllRestored
<1>1. PageInv /\ SlotInv => AllRestored
  <2> SUFFICES ASSUME TypeOK, ChainInv, Quiet,
                      \A g \in Guards : status[g] \in {"new", "inactive", "failed"}
               PROVE  mem = Loaded
    BY DEF PageInv, SlotInv, AllRestored, Quiet
  <2>1. ASSUME NEW s \in Slots PROVE mem[s] = Loaded[s]
    <3>1. PICK C \in SUBSET Guards : Chain(s, C)
      BY DEF ChainInv
    <3>2. C = {}
      BY <3>1 DEF Chain, LiveAt, Holds
    <3>. QED
      BY <3>1, <3>2 DEF Chain, Below
  <2>. QED
    BY <2>1, ImageAssumption DEF TypeOK
<1>. QED
  BY <1>1, SlotInvariant, PTL

(***************************************************************************)
(* While a guard is dropped, the only slots that change are those that     *)
(* hold its own replacement, in the image it patched: a hook installed     *)
(* later, or what the lazy binder bound, survives.                         *)
(***************************************************************************)
THEOREM LaterHooksAreKept == Spec => LaterHooksSurvive
<1> DEFINE Kept == \A g \in Guards : status[g] = "restoring" /\ foreign' = foreign =>
                     \A s \in Slots : mem'[s] # mem[s] => mem[s] = Repl[g] /\ image = "ours"
<1>1. PageInv /\ SlotInv /\ [Next]_vars => [Kept]_vars
  <2> SUFFICES ASSUME PageInv, SlotInv, Next PROVE Kept
    OBVIOUS
  <2> SUFFICES ASSUME NEW g \in Guards, status[g] = "restoring", foreign' = foreign,
                      NEW s \in Slots, mem'[s] # mem[s]
               PROVE  mem[s] = Repl[g] /\ image = "ours"
    OBVIOUS
  <2>0. TypeOK /\ IndexInv
    BY DEF PageInv
  <2>1. Busy /\ txn.owner = g
    BY DEF SlotInv, LockInv
  <2>2. txn.use = "guard"
    BY <2>1 DEF SlotInv, LockInv
  <2>3. foreign \in Nat
    BY <2>0, BoundsAssumption DEF TypeOK
  <2>4. Engine(g)
    BY <2>1, <2>3 DEF Next, Install, Drop, Engine, Foreign, Unload, Load
  <2>5. CompareExchange(g)
    BY <2>0, <2>2, <2>4, EngineMoves DEF Swap, SwapBack
  <2>. QED
    BY <2>0, <2>5 DEF CompareExchange, TypeOK
<1>. QED
  BY <1>1, SlotInvariant, PTL DEF Spec, LaterHooksSurvive
=============================================================================
