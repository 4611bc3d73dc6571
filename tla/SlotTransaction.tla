--------------------------- MODULE SlotTransaction ---------------------------
(***************************************************************************)
(* plthook's slot transaction: install() patches the import slots of one   *)
(* loaded image and returns a HookGuard; dropping the guard restores them. *)
(* Every page-protection change, slot write and compare-exchange is a step *)
(* of its own.  All of it runs under one process-wide install_lock; what   *)
(* interleaves are the kernel's failures, writes by code that does not     *)
(* take the lock (the lazy binder, another hooking library) and the        *)
(* loader, which unloads the image or maps another one at its base.        *)
(***************************************************************************)
EXTENDS Integers, Sequences, FiniteSets

CONSTANTS Guards,      \* calls of install(), each the owner of at most one HookGuard
          Slots,       \* import-slot addresses of the image
          Pages,       \* memory pages those slots lie on
          Values,      \* pointer values a slot may hold
          PagesOf,     \* [Slots -> SUBSET Pages]: the pages a slot's bytes span
          Loaded,      \* [Slots -> Values]: slot contents after the image is loaded
          LoadProt,    \* [Pages -> Prot]: page protections after the image is loaded
          Repl,        \* [Guards -> Values]: the replacement each install() writes
          Plan,        \* [Guards -> what install() decided before its first write]
          ForeignValue,\* a pointer stored by code outside the engine
          MaxFaults,   \* bound: failing mprotect calls
          MaxForeign,  \* bound: writes by foreign code
          MaxLoads     \* bound: images mapped at the base after the first one

Prot == {"r", "rw"}

(***************************************************************************)
(* Plan[g] is the outcome of the resolution phase of install(): an error,  *)
(* or the patched slots in order with the pages make_writable visits.      *)
(***************************************************************************)
PlanType == [ok: BOOLEAN, slots: Seq(Slots), pages: Seq(Pages)]

Distinct(s) == \A i, j \in 1..Len(s) : s[i] = s[j] => i = j

ASSUME BoundsAssumption == MaxFaults \in Nat /\ MaxForeign \in Nat /\ MaxLoads \in Nat

ASSUME ImageAssumption ==
  /\ PagesOf \in [Slots -> SUBSET Pages]
  /\ Loaded \in [Slots -> Values]
  /\ LoadProt \in [Pages -> Prot]
  /\ Repl \in [Guards -> Values]
  /\ ForeignValue \in Values

(* Every install() has a replacement of its own: a slot tells who wrote it. *)
ASSUME ReplAssumption ==
  /\ \A g, h \in Guards : Repl[g] = Repl[h] => g = h
  /\ \A g \in Guards : Repl[g] # ForeignValue /\ \A s \in Slots : Repl[g] # Loaded[s]

ASSUME PlanAssumption ==
  /\ Plan \in [Guards -> PlanType]
  /\ \A g \in Guards :
       /\ Distinct(Plan[g].slots)
       /\ Distinct(Plan[g].pages)
       /\ \A i \in 1..Len(Plan[g].slots) : \A p \in PagesOf[Plan[g].slots[i]] :
            \E j \in 1..Len(Plan[g].pages) : Plan[g].pages[j] = p

VARIABLES
  mem,      \* [Slots -> Values], the slots' contents
  prot,     \* [Pages -> Prot], the pages' protections
  image,    \* what is mapped at the module base: "ours", "other" or "none"
  status,   \* [Guards -> Status]
  txn,      \* the critical section of install_lock
  old,      \* [Pages -> Prot], protections the current PageProtector captured
  prior,    \* [Guards -> [Slots -> Values]], values the swaps returned
  faults, foreign, loads,  \* how much of each bound is used
  stuck,    \* history: pages a restore_protection call failed on
  conflict, \* history: guards whose restore reported RestoreConflict
  orphaned  \* history: installs whose rollback could not make the pages writable

image_vars == <<image, loads>>
history    == <<stuck, conflict, orphaned>>
vars == <<mem, prot, image, status, txn, old, prior, faults, foreign, loads,
          stuck, conflict, orphaned>>

Status == {"new", "installing", "active", "restoring", "inactive", "failed"}

(***************************************************************************)
(* txn.owner holds the lock.  PageProtector is used three ways, told apart *)
(* by use: by apply() at first, by apply()'s rollback, and by              *)
(* HookGuard::restore.  phase is the loop that runs, i its index.          *)
(***************************************************************************)
Uses   == {"apply", "rollback", "guard"}
Phases == {"protect", "undo", "write", "restore"}
TxnType == [owner: Guards, use: Uses, phase: Phases, i: Nat, err: {"ok", "err"}]
Idle == [phase |-> "idle"]
Busy == txn # Idle

SlotAt(g, i) == Plan[g].slots[i]
PageAt(g, i) == Plan[g].pages[i]
NSlots(g) == Len(Plan[g].slots)
NPages(g) == Len(Plan[g].pages)

Writable(s) == \A p \in PagesOf[s] : prot[p] = "rw"

TypeOK ==
  /\ mem \in [Slots -> Values]
  /\ prot \in [Pages -> Prot]
  /\ image \in {"ours", "other", "none"}
  /\ status \in [Guards -> Status]
  /\ txn \in TxnType \cup {Idle}
  /\ old \in [Pages -> Prot]
  /\ prior \in [Guards -> [Slots -> Values]]
  /\ faults \in 0..MaxFaults /\ foreign \in 0..MaxForeign /\ loads \in 0..MaxLoads
  /\ stuck \subseteq Pages
  /\ conflict \subseteq Guards /\ orphaned \subseteq Guards

Init ==
  /\ mem = Loaded
  /\ prot = LoadProt
  /\ image = "ours"
  /\ status = [g \in Guards |-> "new"]
  /\ txn = Idle
  /\ old = LoadProt
  /\ prior = [g \in Guards |-> Loaded]
  /\ faults = 0 /\ foreign = 0 /\ loads = 0
  /\ stuck = {} /\ conflict = {} /\ orphaned = {}

-----------------------------------------------------------------------------
(* Leaving the critical section: the lock guard is dropped on every return. *)

Return(g, s) ==
  /\ status' = [status EXCEPT ![g] = s]
  /\ txn' = Idle

Goto(use, phase, i, err) ==
  /\ txn' = [txn EXCEPT !.use = use, !.phase = phase, !.i = i, !.err = err]
  /\ UNCHANGED status

(***************************************************************************)
(* install(): take the lock and resolve everything.  An error (a required  *)
(* symbol missing, an unresolvable original, an authenticated slot) returns*)
(* before any write; an empty plan returns an empty, active guard.         *)
(***************************************************************************)
Install(g) ==
  /\ ~Busy
  /\ image = "ours"
  /\ status[g] = "new"
  /\ \/ /\ ~Plan[g].ok
        /\ status' = [status EXCEPT ![g] = "failed"]
        /\ UNCHANGED txn
     \/ /\ Plan[g].ok /\ NSlots(g) = 0
        /\ status' = [status EXCEPT ![g] = "active"]
        /\ UNCHANGED txn
     \/ /\ Plan[g].ok /\ NSlots(g) > 0
        /\ status' = [status EXCEPT ![g] = "installing"]
        /\ txn' = [owner |-> g, use |-> "apply", phase |-> "protect", i |-> 1, err |-> "ok"]
  /\ UNCHANGED <<mem, prot, old, prior, faults, foreign, image_vars, history>>

(***************************************************************************)
(* HookGuard::restore: the guard is inactive whatever follows; nothing is  *)
(* touched when it owns no hooks or the module is no longer loaded.        *)
(***************************************************************************)
Drop(g) ==
  /\ ~Busy
  /\ status[g] = "active"
  /\ \/ /\ NSlots(g) = 0 \/ image = "none"
        /\ status' = [status EXCEPT ![g] = "inactive"]
        /\ UNCHANGED txn
     \/ /\ NSlots(g) > 0 /\ image # "none"
        /\ status' = [status EXCEPT ![g] = "restoring"]
        /\ txn' = [owner |-> g, use |-> "guard", phase |-> "protect", i |-> 1, err |-> "ok"]
  /\ UNCHANGED <<mem, prot, old, prior, faults, foreign, image_vars, history>>

-----------------------------------------------------------------------------
(* PageProtector::make_writable *)

(* sys::make_writable on the next page: capture its protection, add write. *)
Protect(g) ==
  /\ txn.phase = "protect"
  /\ txn.i <= NPages(g)
  /\ old' = [old EXCEPT ![PageAt(g, txn.i)] = prot[PageAt(g, txn.i)]]
  /\ prot' = [prot EXCEPT ![PageAt(g, txn.i)] = "rw"]
  /\ Goto(txn.use, "protect", txn.i + 1, txn.err)
  /\ UNCHANGED <<mem, prior, faults, foreign, image_vars, history>>

(* Mutation: the undo starts one page too low. *)
ProtectFailsOffByOne(g) ==
  /\ txn.phase = "protect"
  /\ txn.i <= NPages(g)
  /\ faults < MaxFaults
  /\ faults' = faults + 1
  /\ Goto(txn.use, "undo", txn.i - 2, "err")
  /\ UNCHANGED <<mem, prot, old, prior, foreign, image_vars, history>>

(* Mutation: the error returns without giving the pages back. *)
ProtectFailsNoUndo(g) ==
  /\ txn.phase = "protect"
  /\ txn.i <= NPages(g)
  /\ faults < MaxFaults
  /\ faults' = faults + 1
  /\ Goto(txn.use, "undo", 0, "err")
  /\ UNCHANGED <<mem, prot, old, prior, foreign, image_vars, history>>

(* It fails: the pages already done are given back, last one first. *)
ProtectFails(g) ==
  /\ txn.phase = "protect"
  /\ txn.i <= NPages(g)
  /\ faults < MaxFaults
  /\ faults' = faults + 1
  /\ Goto(txn.use, "undo", txn.i - 1, "err")
  /\ UNCHANGED <<mem, prot, old, prior, foreign, image_vars, history>>

(* Mutation: the loop over the pages leaves the last one out. *)
ProtectedEarly(g) ==
  /\ txn.phase = "protect"
  /\ txn.i >= NPages(g)
  /\ Goto(txn.use, "write", 1, txn.err)
  /\ UNCHANGED <<mem, prot, old, prior, faults, foreign, image_vars, history>>

(* Every page is writable: the writes start. *)
Protected(g) ==
  /\ txn.phase = "protect"
  /\ txn.i > NPages(g)
  /\ Goto(txn.use, "write", 1, txn.err)
  /\ UNCHANGED <<mem, prot, old, prior, faults, foreign, image_vars, history>>

(* Mutation: the loop that gives the pages back does not advance. *)
GiveBackStuck(g) ==
  /\ txn.phase \in {"undo", "restore"}
  /\ txn.i >= 1
  /\ prot' = [prot EXCEPT ![PageAt(g, txn.i)] = old[PageAt(g, txn.i)]]
  /\ Goto(txn.use, txn.phase, txn.i, txn.err)
  /\ UNCHANGED <<mem, old, prior, faults, foreign, image_vars, history>>

(***************************************************************************)
(* sys::restore_protection on the next page, in reverse order: after a     *)
(* failed make_writable ("undo") and after the writes ("restore").  A      *)
(* failure leaves the page as it is and the loop goes on.                  *)
(***************************************************************************)
GiveBack(g) ==
  /\ txn.phase \in {"undo", "restore"}
  /\ txn.i >= 1
  /\ prot' = [prot EXCEPT ![PageAt(g, txn.i)] = old[PageAt(g, txn.i)]]
  /\ Goto(txn.use, txn.phase, txn.i - 1, txn.err)
  /\ UNCHANGED <<mem, old, prior, faults, foreign, image_vars, history>>

GiveBackFails(g) ==
  /\ txn.phase \in {"undo", "restore"}
  /\ txn.i >= 1
  /\ faults < MaxFaults
  /\ faults' = faults + 1
  /\ stuck' = stuck \cup {PageAt(g, txn.i)}
  /\ Goto(txn.use, txn.phase, txn.i - 1, "err")
  /\ UNCHANGED <<mem, prot, old, prior, foreign, image_vars, conflict, orphaned>>

(* A failed make_writable has given its pages back and returns its error. *)
MakeWritableFailed(g) ==
  /\ txn.phase = "undo"
  /\ txn.i = 0
  /\ orphaned' = IF txn.use = "rollback" THEN orphaned \cup {g} ELSE orphaned
  /\ Return(g, IF txn.use = "guard" THEN "inactive" ELSE "failed")
  /\ UNCHANGED <<mem, prot, old, prior, faults, foreign, image_vars, stuck, conflict>>

-----------------------------------------------------------------------------
(* The slot writes *)

(* apply(): one atomic swap; the value found is the hook's prior_value. *)
Swap(g) ==
  /\ txn.phase = "write" /\ txn.use = "apply"
  /\ txn.i <= NSlots(g)
  /\ prior' = [prior EXCEPT ![g][SlotAt(g, txn.i)] = mem[SlotAt(g, txn.i)]]
  /\ mem' = [mem EXCEPT ![SlotAt(g, txn.i)] = Repl[g]]
  /\ Goto(txn.use, "write", txn.i + 1, txn.err)
  /\ UNCHANGED <<prot, old, faults, foreign, image_vars, history>>

(* apply()'s rollback: swap the prior value back, whatever is in the slot. *)
SwapBack(g) ==
  /\ txn.phase = "write" /\ txn.use = "rollback"
  /\ txn.i <= NSlots(g)
  /\ mem' = [mem EXCEPT ![SlotAt(g, txn.i)] = prior[g][SlotAt(g, txn.i)]]
  /\ Goto(txn.use, "write", txn.i + 1, txn.err)
  /\ UNCHANGED <<prot, old, prior, faults, foreign, image_vars, history>>

(* Mutation: the prior value is stored whatever the slot holds. *)
CompareExchangeBlind(g) ==
  LET s == SlotAt(g, txn.i)
  IN /\ txn.phase = "write" /\ txn.use = "guard"
     /\ txn.i <= NSlots(g)
     /\ mem' = [mem EXCEPT ![s] = prior[g][s]]
     /\ Goto(txn.use, "write", txn.i + 1, txn.err)
     /\ UNCHANGED <<prot, old, prior, faults, foreign, image_vars, history>>

(***************************************************************************)
(* HookGuard::restore: skip a slot the mapped image does not contain, else *)
(* compare-exchange replacement -> prior_value; finding anything but these *)
(* two is a RestoreConflict.                                               *)
(***************************************************************************)
CompareExchange(g) ==
  LET s == SlotAt(g, txn.i)
      owned == image = "ours"
  IN /\ txn.phase = "write" /\ txn.use = "guard"
     /\ txn.i <= NSlots(g)
     /\ mem' = IF owned /\ mem[s] = Repl[g] THEN [mem EXCEPT ![s] = prior[g][s]] ELSE mem
     /\ conflict' = IF owned /\ mem[s] \notin {Repl[g], prior[g][s]}
                      THEN conflict \cup {g} ELSE conflict
     /\ Goto(txn.use, "write", txn.i + 1, txn.err)
     /\ UNCHANGED <<prot, old, prior, faults, foreign, image_vars, stuck, orphaned>>

(* Mutation: the loop over the slots may leave the last one out. *)
WrittenEarly(g) ==
  /\ txn.phase = "write"
  /\ txn.i >= NSlots(g)
  /\ Goto(txn.use, "restore", NPages(g), txn.err)
  /\ UNCHANGED <<mem, prot, old, prior, faults, foreign, image_vars, history>>

(* All slots are written: PageProtector::restore starts. *)
Written(g) ==
  /\ txn.phase = "write"
  /\ txn.i > NSlots(g)
  /\ Goto(txn.use, "restore", NPages(g), txn.err)
  /\ UNCHANGED <<mem, prot, old, prior, faults, foreign, image_vars, history>>

(* Mutation: apply() returns the error without its rollback. *)
FinishNoRollback(g) ==
  /\ txn.phase = "restore"
  /\ txn.i = 0
  /\ CASE txn.use = "apply" /\ txn.err = "ok" -> Return(g, "active")
       [] txn.use = "apply" /\ txn.err = "err" -> Return(g, "failed")
       [] txn.use = "guard"             -> Return(g, "inactive")
  /\ UNCHANGED <<mem, prot, old, prior, faults, foreign, image_vars, history>>

(***************************************************************************)
(* PageProtector::restore has returned.  apply() succeeds, or rolls back   *)
(* with a second make_writable over the same slots; the rollback and the   *)
(* guard return whatever happened.                                         *)
(***************************************************************************)
Finish(g) ==
  /\ txn.phase = "restore"
  /\ txn.i = 0
  /\ CASE txn.use = "apply" /\ txn.err = "ok" -> Return(g, "active")
       [] txn.use = "apply" /\ txn.err = "err" -> Goto("rollback", "protect", 1, "err")
       [] txn.use = "rollback"          -> Return(g, "failed")
       [] txn.use = "guard"             -> Return(g, "inactive")
  /\ UNCHANGED <<mem, prot, old, prior, faults, foreign, image_vars, history>>

-----------------------------------------------------------------------------
(* Code that does not take install_lock *)

(***************************************************************************)
(* The lazy binder or another hooking library stores a pointer in a slot.  *)
(* It takes care of the page itself and leaves the protection alone.       *)
(***************************************************************************)
Foreign(s) ==
  /\ image = "ours"
  /\ foreign < MaxForeign
  /\ foreign' = foreign + 1
  /\ mem' = [mem EXCEPT ![s] = ForeignValue]
  /\ UNCHANGED <<prot, status, txn, old, prior, faults, image_vars, history>>

(* dlclose of the image, between two transactions. *)
Unload ==
  /\ ~Busy
  /\ image # "none"
  /\ image' = "none"
  /\ UNCHANGED <<mem, prot, status, txn, old, prior, faults, foreign, loads, history>>

(***************************************************************************)
(* dlopen maps an image at the same base: the same library again, with     *)
(* fresh slots, or a smaller one that does not contain the slot addresses. *)
(***************************************************************************)
Load ==
  /\ ~Busy
  /\ image = "none"
  /\ loads < MaxLoads
  /\ loads' = loads + 1
  /\ image' \in {"ours", "other"}
  /\ mem' = Loaded
  /\ prot' = LoadProt
  /\ stuck' = {}
  /\ UNCHANGED <<status, txn, old, prior, faults, foreign, conflict, orphaned>>

Engine(g) ==
  /\ Busy /\ txn.owner = g
  /\ \/ Protect(g) \/ ProtectFails(g) \/ Protected(g)
     \/ GiveBack(g) \/ GiveBackFails(g) \/ MakeWritableFailed(g)
     \/ Swap(g) \/ SwapBack(g) \/ CompareExchange(g) \/ Written(g) \/ Finish(g)

Next ==
  \/ \E g \in Guards : Install(g) \/ Drop(g) \/ Engine(g)
  \/ \E s \in Slots : Foreign(s)
  \/ Unload
  \/ Load

Spec == Init /\ [][Next]_vars

(* The thread that holds install_lock runs to the end of its call. *)
FairSpec == Spec /\ WF_vars(\E g \in Guards : Engine(g))

-----------------------------------------------------------------------------
(* Properties *)

(***************************************************************************)
(* Every slot write lands on pages that were made writable for it: while   *)
(* the write loop runs, all pages of all the planned slots are writable.   *)
(* A store through a missed page would fault (PageProtector, slot.rs).     *)
(***************************************************************************)
WritesOnWritablePages ==
  Busy /\ txn.phase = "write" =>
    \A i \in 1..NSlots(txn.owner) : Writable(SlotAt(txn.owner, i))

(***************************************************************************)
(* Outside a transaction every page has the protection the loader gave it, *)
(* except a page on which the kernel refused to restore it: no early       *)
(* return, undo or rollback of apply() or HookGuard::restore forgets one.  *)
(***************************************************************************)
ProtectionRestored ==
  ~Busy => \A p \in Pages \ stuck : prot[p] = LoadProt[p]

(***************************************************************************)
(* A failed install() leaves no slot pointing at its replacement, whatever *)
(* step failed, unless the rollback itself could not make the pages        *)
(* writable again (its caller gets no guard, so nobody would restore it).  *)
(***************************************************************************)
FailedInstallUnpatched ==
  \A g \in Guards \ orphaned :
    status[g] = "failed" => \A s \in Slots : mem[s] # Repl[g]

(***************************************************************************)
(* When no guard is live, nothing failed, nobody else wrote a slot and no  *)
(* restore reported a conflict, every slot holds its load-time value: the  *)
(* nesting of guards over the same slots and the image being unloaded and  *)
(* mapped again do not lose the original.  Of the orders of drops these    *)
(* are the ones in which no guard goes before a later one that shares a    *)
(* slot with it: such a drop is told RestoreConflict, and what it leaves   *)
(* in the slot is not claimed.                                             *)
(***************************************************************************)
AllRestored ==
  /\ \A g \in Guards : status[g] \in {"new", "inactive", "failed"}
  /\ faults = 0 /\ foreign = 0 /\ conflict = {}
  /\ image = "ours"
  => mem = Loaded

(***************************************************************************)
(* Dropping a guard never overwrites a pointer that another hook or the    *)
(* lazy binder put in the slot after the guard's own write, nor a slot of  *)
(* an image it did not patch (compare-exchange in HookGuard::restore).     *)
(***************************************************************************)
LaterHooksSurvive ==
  [][ \A g \in Guards : status[g] = "restoring" /\ foreign' = foreign =>
        \A s \in Slots : mem'[s] # mem[s] => mem[s] = Repl[g] /\ image = "ours" ]_vars

(***************************************************************************)
(* Every install() and every guard drop returns: the lock is released on   *)
(* all paths, failures included.                                           *)
(***************************************************************************)
LockReleased == Busy ~> ~Busy

(***************************************************************************)
(* The comment on apply(): "on any error nothing remains patched and no    *)
(* page is left with changed protection".                                  *)
(***************************************************************************)
NoTraceOnError ==
  \A g \in Guards : status[g] = "failed" /\ ~Busy =>
    /\ \A s \in Slots : mem[s] # Repl[g]
    /\ \A p \in Pages : prot[p] = LoadProt[p]
=============================================================================
