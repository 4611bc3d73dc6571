---------------------------- MODULE Installation ----------------------------
(***************************************************************************)
(* hookfs installations: install() publishes the process-wide routing      *)
(* engine, patches the modules in scope and registers the rescan callback; *)
(* dropping the InstallGuard undoes it.  Meanwhile loader threads call     *)
(* dlopen, whose shim runs the registered callback on a clone taken out of *)
(* its lock, so a rescan may still run after the guard has been dropped.   *)
(* One plthook transaction on a module (SlotTransaction) is one step here, *)
(* and one slot stands for the slots of a module: every installation       *)
(* writes the same shim address.                                           *)
(***************************************************************************)
EXTENDS Integers, Sequences, FiniteSets

CONSTANTS Installs,    \* calls of install(), each with its own Installer and engine
          Threads,     \* threads that call dlopen or InstallGuard::rescan
          Modules,     \* modules, each at its own base address
          Preloaded,   \* the modules loaded before the first step
          Scope,       \* what resolve_modules(scope) selects of the loaded modules
          RescanScope, \* what should_rescan_hook accepts
          AutoRescan,  \* [Installs -> BOOLEAN], Options::auto_rescan
          None,        \* no installation
          MaxFaults,   \* bound: plthook::install calls that fail
          MaxLoads     \* bound: dlopen calls that load a module

ASSUME ScopeAssumption ==
  /\ Preloaded \subseteq Modules /\ Scope \subseteq Modules /\ RescanScope \subseteq Modules
  /\ AutoRescan \in [Installs -> BOOLEAN]
  /\ None \notin Installs \cup Threads
  /\ MaxFaults \in Nat /\ MaxLoads \in Nat

VARIABLES
  slot,      \* [Modules -> {"callee", "shim"}], the import slots of each module
  loaded,    \* the modules mapped now
  active,    \* ACTIVE: the installation whose engine the shims use, or None
  rescan_cb, \* RESCAN: the installation whose callback is registered, or None
  originals, \* ORIGINALS is filled in
  pc,        \* [Installs -> PC], where install() or the guard's drop stands
  todo,      \* [Installs -> SUBSET Modules], modules install() has yet to patch
  hooked,    \* [Installs -> SUBSET Modules], Installer.hooked_bases
  guards,    \* [Installs -> Seq(Guard)], Installer.guards
  taken,     \* [Installs -> Seq(Guard)], guards moved out to be restored
  tpc,       \* [Threads -> TPC], where a rescan stands
  tcb,       \* [Threads -> Installs \cup {None}], the Installer the rescan works for
  borrowed,  \* [Threads -> BOOLEAN], the rescan came through &InstallGuard
  ttodo,     \* [Threads -> SUBSET Modules], modules the rescan has yet to look at
  tguard,    \* [Threads -> Seq(Guard)], a guard installed and not yet pushed
  tmod,      \* [Threads -> SUBSET Modules], the base the rescan claimed
  faults, loads

globals == <<active, rescan_cb, originals>>
ivars   == <<pc, todo, taken>>
tvars   == <<tpc, tcb, borrowed, ttodo, tguard, tmod>>
bounds  == <<faults, loads>>
vars == <<slot, loaded, active, rescan_cb, originals, pc, todo, hooked, guards, taken,
          tpc, tcb, borrowed, ttodo, tguard, tmod, faults, loads>>

Pointers == {"callee", "shim"}
Guard == [mod: Modules, prior: Pointers]

(***************************************************************************)
(* install(): idle, resolved, activated, patching, rollback; live once the *)
(* guard is returned; drop: take, uninstall, then release of the guard's   *)
(* reference; over: refused, failed or dropped.                            *)
(***************************************************************************)
PC == {"idle", "resolved", "activated", "patching", "rollback", "live", "take",
       "uninstall", "release", "over"}
TPC == {"idle", "loaded", "enumerate", "scan", "patch", "push", "drop"}

TypeOK ==
  /\ slot \in [Modules -> Pointers]
  /\ loaded \subseteq Modules
  /\ active \in Installs \cup {None} /\ rescan_cb \in Installs \cup {None}
  /\ originals \in BOOLEAN
  /\ pc \in [Installs -> PC]
  /\ todo \in [Installs -> SUBSET Modules]
  /\ hooked \in [Installs -> SUBSET Modules]
  /\ guards \in [Installs -> Seq(Guard)] /\ taken \in [Installs -> Seq(Guard)]
  /\ tpc \in [Threads -> TPC]
  /\ tcb \in [Threads -> Installs \cup {None}]
  /\ borrowed \in [Threads -> BOOLEAN]
  /\ ttodo \in [Threads -> SUBSET Modules]
  /\ tguard \in [Threads -> Seq(Guard)]
  /\ tmod \in [Threads -> SUBSET Modules]
  /\ faults \in 0..MaxFaults /\ loads \in 0..MaxLoads

Init ==
  /\ slot = [m \in Modules |-> "callee"]
  /\ loaded = Preloaded
  /\ active = None /\ rescan_cb = None /\ originals = FALSE
  /\ pc = [i \in Installs |-> "idle"]
  /\ todo = [i \in Installs |-> {}]
  /\ hooked = [i \in Installs |-> {}]
  /\ guards = [i \in Installs |-> <<>>] /\ taken = [i \in Installs |-> <<>>]
  /\ tpc = [t \in Threads |-> "idle"]
  /\ tcb = [t \in Threads |-> None]
  /\ borrowed = [t \in Threads |-> FALSE]
  /\ ttodo = [t \in Threads |-> {}]
  /\ tguard = [t \in Threads |-> <<>>]
  /\ tmod = [t \in Threads |-> {}]
  /\ faults = 0 /\ loads = 0

-----------------------------------------------------------------------------
(* plthook, one transaction at a time *)

(* Mutation: the guard is made before the slot is read: null would go back. *)
GuardOfUnread(m) == [mod |-> m, prior |-> "null"]

(* The guard keeps the pointer its swap found in the slot. *)
GuardOf(m) == [mod |-> m, prior |-> slot[m]]

Patched(m) == [slot EXCEPT ![m] = "shim"]

(* HookGuard::restore: nothing if the module is gone, else compare-exchange. *)
Restored(g) ==
  IF g.mod \in loaded /\ slot[g.mod] = "shim" THEN [slot EXCEPT ![g.mod] = g.prior] ELSE slot

At(i, from, to) == pc[i] = from /\ pc' = [pc EXCEPT ![i] = to]
TAt(t, from, to) == tpc[t] = from /\ tpc' = [tpc EXCEPT ![t] = to]

(* The Arc<Installer> references besides the InstallGuard's own. *)
HeldElsewhere(i, t) == rescan_cb = i \/ \E u \in Threads \ {t} : tcb[u] = i

-----------------------------------------------------------------------------
(* install_with_namespace *)

(* resolve_modules; an empty result is NoTargetModule. *)
ResolveModules(i) ==
  /\ pc[i] = "idle"
  /\ pc' = [pc EXCEPT ![i] = IF loaded \cap Scope = {} THEN "over" ELSE "resolved"]
  /\ todo' = [todo EXCEPT ![i] = loaded \cap Scope]
  /\ UNCHANGED <<slot, loaded, globals, hooked, guards, taken, tvars, bounds>>

(* Mutation: the engine is published whoever holds the single slot. *)
TryActivateUnchecked(i) ==
  /\ pc[i] = "resolved"
  /\ active' = i /\ pc' = [pc EXCEPT ![i] = "activated"]
  /\ UNCHANGED <<slot, loaded, rescan_cb, originals, todo, hooked, guards, taken, tvars, bounds>>

(* dispatch::try_activate; AlreadyInstalled when another engine is published. *)
TryActivate(i) ==
  /\ pc[i] = "resolved"
  /\ IF active = None
       THEN active' = i /\ pc' = [pc EXCEPT ![i] = "activated"]
       ELSE active' = active /\ pc' = [pc EXCEPT ![i] = "over"]
  /\ UNCHANGED <<slot, loaded, rescan_cb, originals, todo, hooked, guards, taken, tvars, bounds>>

(* Mutation: the originals are left to be resolved later. *)
PreresolveOriginalsSkipped(i) ==
  /\ At(i, "activated", "patching")
  /\ UNCHANGED <<slot, loaded, globals, todo, hooked, guards, taken, tvars, bounds>>

PreresolveOriginals(i) ==
  /\ At(i, "activated", "patching")
  /\ originals' = TRUE
  /\ UNCHANGED <<slot, loaded, active, rescan_cb, todo, hooked, guards, taken, tvars, bounds>>

(* plthook::install on the next module; then hooked_bases and guards. *)
PatchModule(i) ==
  /\ pc[i] = "patching"
  /\ \E m \in todo[i] :
       /\ todo' = [todo EXCEPT ![i] = @ \ {m}]
       /\ slot' = Patched(m)
       /\ hooked' = [hooked EXCEPT ![i] = @ \cup {m}]
       /\ guards' = [guards EXCEPT ![i] = Append(@, GuardOf(m))]
  /\ UNCHANGED <<loaded, globals, pc, taken, tvars, bounds>>

(* plthook::install fails: uninstall_all takes the guards collected so far. *)
PatchFails(i) ==
  /\ At(i, "patching", "rollback")
  /\ todo[i] # {} /\ faults < MaxFaults
  /\ faults' = faults + 1
  /\ taken' = [taken EXCEPT ![i] = guards[i]]
  /\ guards' = [guards EXCEPT ![i] = <<>>]
  /\ UNCHANGED <<slot, loaded, globals, todo, hooked, tvars, loads>>

(* All modules are patched: register the callback if asked to, return Ok. *)
SetRescan(i) ==
  /\ At(i, "patching", "live")
  /\ todo[i] = {}
  /\ rescan_cb' = IF AutoRescan[i] THEN i ELSE rescan_cb
  /\ UNCHANGED <<slot, loaded, active, originals, todo, hooked, guards, taken, tvars, bounds>>

(* guard.uninstall() for the next guard taken, by a rollback or a drop. *)
UninstallOne(i) ==
  /\ pc[i] \in {"rollback", "uninstall", "release"}
  /\ taken[i] # <<>>
  /\ slot' = Restored(Head(taken[i]))
  /\ taken' = [taken EXCEPT ![i] = Tail(@)]
  /\ UNCHANGED <<loaded, globals, pc, todo, hooked, guards, tvars, bounds>>

(* Mutation: the rollback or drop forgets dispatch::deactivate. *)
DeactivateForgotten(i) ==
  /\ pc[i] \in {"rollback", "uninstall"}
  /\ taken[i] = <<>>
  /\ pc' = [pc EXCEPT ![i] = "release"]
  /\ UNCHANGED <<slot, loaded, globals, todo, hooked, guards, taken, tvars, bounds>>

(***************************************************************************)
(* dispatch::deactivate(id), the end of a rollback and of a drop.  Then    *)
(* the InstallGuard's reference goes; if it was the last, Installer's      *)
(* remaining guards are dropped with it.                                   *)
(***************************************************************************)
Deactivate(i) ==
  /\ pc[i] \in {"rollback", "uninstall"}
  /\ taken[i] = <<>>
  /\ active' = IF active = i THEN None ELSE active
  /\ pc' = [pc EXCEPT ![i] = "release"]
  /\ IF HeldElsewhere(i, None)
       THEN UNCHANGED <<guards, taken>>
       ELSE /\ taken' = [taken EXCEPT ![i] = guards[i]]
            /\ guards' = [guards EXCEPT ![i] = <<>>]
  /\ UNCHANGED <<slot, loaded, rescan_cb, originals, todo, hooked, tvars, bounds>>

Released(i) ==
  /\ At(i, "release", "over")
  /\ taken[i] = <<>>
  /\ UNCHANGED <<slot, loaded, globals, todo, hooked, guards, taken, tvars, bounds>>

-----------------------------------------------------------------------------
(* InstallGuard::drop: clear_rescan, uninstall_all, deactivate *)

ClearRescan(i) ==
  /\ At(i, "live", "take")
  /\ \A t \in Threads : ~(borrowed[t] /\ tcb[t] = i)
  /\ rescan_cb' = None
  /\ UNCHANGED <<slot, loaded, active, originals, todo, hooked, guards, taken, tvars, bounds>>

(* mem::take of the guards under their lock. *)
TakeGuards(i) ==
  /\ At(i, "take", "uninstall")
  /\ taken' = [taken EXCEPT ![i] = guards[i]]
  /\ guards' = [guards EXCEPT ![i] = <<>>]
  /\ UNCHANGED <<slot, loaded, globals, todo, hooked, tvars, bounds>>

-----------------------------------------------------------------------------
(* Threads: the loader shims and InstallGuard::rescan *)

(***************************************************************************)
(* dlopen called from a loaded module c: it loads m afresh, or finds it    *)
(* loaded.  If c's import goes to the shim, the rescan follows.            *)
(***************************************************************************)
Dlopen(t, c, m) ==
  /\ tpc[t] = "idle"
  /\ c \in loaded
  /\ m \in loaded \/ loads < MaxLoads
  /\ loads' = IF m \in loaded THEN loads ELSE loads + 1
  /\ loaded' = loaded \cup {m}
  /\ slot' = IF m \in loaded THEN slot ELSE [slot EXCEPT ![m] = "callee"]
  /\ tpc' = [tpc EXCEPT ![t] = IF slot[c] = "shim" THEN "loaded" ELSE "idle"]
  /\ tmod' = [tmod EXCEPT ![t] = IF slot[c] = "shim" THEN {m} ELSE {}]
  /\ UNCHANGED <<globals, ivars, hooked, guards, tcb, borrowed, ttodo, tguard, faults>>

(* dlclose unloads a module nobody is patching (the caller's contract). *)
Dlclose(m) ==
  /\ m \in loaded \ Preloaded
  /\ \A i \in Installs : m \notin todo[i]
  /\ \A t \in Threads : m \notin tmod[t] \cup ttodo[t]
  /\ loaded' = loaded \ {m}
  /\ UNCHANGED <<slot, globals, ivars, hooked, guards, tvars, bounds>>

(* dispatch::trigger_rescan: clone the callback out of RESCAN. *)
TriggerRescan(t) ==
  /\ tpc[t] = "loaded"
  /\ tcb' = [tcb EXCEPT ![t] = rescan_cb]
  /\ tpc' = [tpc EXCEPT ![t] = IF rescan_cb = None THEN "idle" ELSE "enumerate"]
  /\ tmod' = [tmod EXCEPT ![t] = {}]
  /\ UNCHANGED <<slot, loaded, globals, ivars, hooked, guards, borrowed, ttodo, tguard, bounds>>

(* InstallGuard::rescan, called through a live guard. *)
ExplicitRescan(t, i) ==
  /\ TAt(t, "idle", "enumerate")
  /\ pc[i] = "live"
  /\ tcb' = [tcb EXCEPT ![t] = i]
  /\ borrowed' = [borrowed EXCEPT ![t] = TRUE]
  /\ UNCHANGED <<slot, loaded, globals, ivars, hooked, guards, ttodo, tguard, tmod, bounds>>

Enumerate(t) ==
  /\ TAt(t, "enumerate", "scan")
  /\ ttodo' = [ttodo EXCEPT ![t] = loaded \cap RescanScope]
  /\ UNCHANGED <<slot, loaded, globals, ivars, hooked, guards, tcb, borrowed, tguard, tmod, bounds>>

(* Mutation: hooked_bases is extended without looking whether the base is in it. *)
ClaimUnchecked(t) ==
  /\ tpc[t] = "scan"
  /\ \E m \in ttodo[t] :
       /\ ttodo' = [ttodo EXCEPT ![t] = @ \ {m}]
       /\ hooked' = [hooked EXCEPT ![tcb[t]] = @ \cup {m}]
       /\ tpc' = [tpc EXCEPT ![t] = "patch"]
       /\ tmod' = [tmod EXCEPT ![t] = {m}]
  /\ UNCHANGED <<slot, loaded, globals, ivars, guards, tcb, borrowed, tguard, bounds>>

(* Mutation: the base is recorded and the module is not patched. *)
ClaimThenSkip(t) ==
  /\ tpc[t] = "scan"
  /\ \E m \in ttodo[t] :
       /\ ttodo' = [ttodo EXCEPT ![t] = @ \ {m}]
       /\ hooked' = [hooked EXCEPT ![tcb[t]] = @ \cup {m}]
  /\ UNCHANGED <<slot, loaded, globals, ivars, guards, tpc, tcb, borrowed, tguard, tmod, bounds>>

(* Claim the next base under the hooked_bases lock, or pass over it. *)
Claim(t) ==
  /\ tpc[t] = "scan"
  /\ \E m \in ttodo[t] :
       /\ ttodo' = [ttodo EXCEPT ![t] = @ \ {m}]
       /\ IF m \in hooked[tcb[t]]
            THEN UNCHANGED <<tpc, tmod, hooked>>
            ELSE /\ hooked' = [hooked EXCEPT ![tcb[t]] = @ \cup {m}]
                 /\ tpc' = [tpc EXCEPT ![t] = "patch"]
                 /\ tmod' = [tmod EXCEPT ![t] = {m}]
  /\ UNCHANGED <<slot, loaded, globals, ivars, guards, tcb, borrowed, tguard, bounds>>

(* plthook::install on the claimed module. *)
PatchLate(t) ==
  /\ TAt(t, "patch", "push")
  /\ \E m \in tmod[t] :
       /\ tguard' = [tguard EXCEPT ![t] = << GuardOf(m) >>]
       /\ slot' = Patched(m)
  /\ UNCHANGED <<loaded, globals, ivars, hooked, guards, tcb, borrowed, ttodo, tmod, bounds>>

(* It fails; the base stays in hooked_bases. *)
PatchLateFails(t) ==
  /\ TAt(t, "patch", "scan")
  /\ faults < MaxFaults
  /\ faults' = faults + 1
  /\ tmod' = [tmod EXCEPT ![t] = {}]
  /\ UNCHANGED <<slot, loaded, globals, ivars, hooked, guards, tcb, borrowed, ttodo, tguard, loads>>

PushLate(t) ==
  /\ TAt(t, "push", "scan")
  /\ guards' = [guards EXCEPT ![tcb[t]] = @ \o tguard[t]]
  /\ tguard' = [tguard EXCEPT ![t] = <<>>]
  /\ tmod' = [tmod EXCEPT ![t] = {}]
  /\ UNCHANGED <<slot, loaded, globals, ivars, hooked, tcb, borrowed, ttodo, bounds>>

(* Mutation: guards pushed after the InstallGuard took them are forgotten. *)
EndRescanLeaks(t) ==
  /\ tpc[t] = "scan" /\ ttodo[t] = {}
  /\ tcb' = [tcb EXCEPT ![t] = None]
  /\ borrowed' = [borrowed EXCEPT ![t] = FALSE]
  /\ tpc' = [tpc EXCEPT ![t] = "idle"]
  /\ UNCHANGED <<slot, loaded, globals, ivars, hooked, guards, ttodo, tguard, tmod, bounds>>

(***************************************************************************)
(* The rescan returns and its reference goes.  If it was the last one, the *)
(* Installer is dropped on this thread, with the guards it still holds.    *)
(***************************************************************************)
EndRescan(t) ==
  LET i == tcb[t]
      last == ~HeldElsewhere(i, t) /\ pc[i] \in {"release", "over"}
  IN /\ tpc[t] = "scan" /\ ttodo[t] = {}
     /\ tcb' = [tcb EXCEPT ![t] = None]
     /\ borrowed' = [borrowed EXCEPT ![t] = FALSE]
     /\ tguard' = [tguard EXCEPT ![t] = IF last THEN guards[i] ELSE <<>>]
     /\ guards' = IF last THEN [guards EXCEPT ![i] = <<>>] ELSE guards
     /\ tpc' = [tpc EXCEPT ![t] = IF last THEN "drop" ELSE "idle"]
     /\ UNCHANGED <<slot, loaded, globals, ivars, hooked, ttodo, tmod, bounds>>

DropLate(t) ==
  /\ tpc[t] = "drop"
  /\ IF tguard[t] = <<>>
       THEN /\ tpc' = [tpc EXCEPT ![t] = "idle"]
            /\ UNCHANGED <<slot, tguard>>
       ELSE /\ slot' = Restored(Head(tguard[t]))
            /\ tguard' = [tguard EXCEPT ![t] = Tail(@)]
            /\ UNCHANGED tpc
  /\ UNCHANGED <<loaded, globals, ivars, hooked, guards, tcb, borrowed, ttodo, tmod, bounds>>

-----------------------------------------------------------------------------
Installing(i) ==
  \/ TryActivate(i) \/ PreresolveOriginals(i)
  \/ PatchModule(i) \/ PatchFails(i) \/ SetRescan(i)
  \/ TakeGuards(i) \/ UninstallOne(i) \/ Deactivate(i) \/ Released(i)

Rescanning(t) ==
  \/ TriggerRescan(t) \/ Enumerate(t) \/ Claim(t) \/ PatchLate(t) \/ PatchLateFails(t)
  \/ PushLate(t) \/ EndRescan(t) \/ DropLate(t)

Next ==
  \/ \E i \in Installs : ResolveModules(i) \/ ClearRescan(i) \/ Installing(i)
  \/ \E t \in Threads :
       \/ \E c, m \in Modules : Dlopen(t, c, m)
       \/ \E i \in Installs : ExplicitRescan(t, i)
       \/ Rescanning(t)
  \/ \E m \in Modules : Dlclose(m)

Spec == Init /\ [][Next]_vars

(* A call of install(), of drop or of a rescan, once begun, runs to its end. *)
FairSpec ==
  /\ Spec
  /\ \A i \in Installs : WF_vars(Installing(i))
  /\ \A t \in Threads : WF_vars(Rescanning(t))

-----------------------------------------------------------------------------
(* Properties *)

(***************************************************************************)
(* An installation that returned Ok and whose guard is not being dropped   *)
(* owns the routing engine and, if it asked for one, the rescan callback:  *)
(* neither a refused install, a failed one nor the drop of an earlier      *)
(* guard takes them away (try_activate, deactivate(id), clear_rescan).     *)
(***************************************************************************)
LiveOwnsGlobals ==
  \A i \in Installs : pc[i] = "live" =>
    /\ active = i
    /\ AutoRescan[i] => rescan_cb = i

(***************************************************************************)
(* Engine and originals are in place before the first slot of a module is  *)
(* patched and stay until the last of the guards collected by install()    *)
(* is restored: a call that reaches a shim finds a non-null original, and  *)
(* finds the engine while the installation's own guards are in place.      *)
(***************************************************************************)
ShimsAreServed ==
  /\ (\E m \in loaded : slot[m] = "shim") => originals
  /\ \A i \in Installs :
       pc[i] \in {"patching", "rollback", "live", "take", "uninstall"}
         /\ guards[i] \o taken[i] # <<>> => active = i

(***************************************************************************)
(* One installation patches a loaded module at most once, whatever number  *)
(* of rescans run at once: hooked_bases is checked and extended atomically.*)
(***************************************************************************)
GuardsInHand(i) ==
  guards[i] \o taken[i]

HookedOnce ==
  \A i \in Installs :
    /\ \A j, k \in 1..Len(GuardsInHand(i)) :
         GuardsInHand(i)[j].mod = GuardsInHand(i)[k].mod => j = k
    /\ \A t, u \in Threads : t # u /\ tcb[t] = i /\ tcb[u] = i
         /\ tpc[t] \in {"patch", "push"} /\ tpc[u] \in {"patch", "push"}
         => tmod[t] \cap tmod[u] = {}

(***************************************************************************)
(* When every installation is over and no rescan is running, every slot of *)
(* every loaded module is back to its callee: guards pushed by a rescan    *)
(* that outlived the InstallGuard are dropped with the last reference.     *)
(***************************************************************************)
NothingLeftPatched ==
  /\ \A i \in Installs : pc[i] \in {"idle", "resolved", "over"}
  /\ \A t \in Threads : tpc[t] \in {"idle", "loaded"}
  => \A m \in loaded : slot[m] = "callee"

(***************************************************************************)
(* A module a rescan has found and nobody has claimed is patched in the    *)
(* end, unless it is unloaded, a patch fails, or the guard is dropped      *)
(* (auto_rescan: modules loaded later are hooked too).                     *)
(***************************************************************************)
LateModulesGetHooked ==
  \A m \in Modules \ Preloaded :
    (\E t \in Threads, i \in Installs :
       /\ tpc[t] = "scan" /\ tcb[t] = i /\ m \in ttodo[t]
       /\ m \notin hooked[i] /\ rescan_cb = i)
      ~> (slot[m] = "shim" \/ m \notin loaded \/ faults > 0 \/ rescan_cb = None)

(***************************************************************************)
(* A drop or a failed install comes to its end and frees the single active *)
(* slot, whatever rescans run meanwhile, so a later install() can succeed. *)
(***************************************************************************)
DropCompletes ==
  \A i \in Installs : pc[i] \in {"take", "rollback"} ~> (pc[i] = "over" /\ active # i)

(***************************************************************************)
(* README.md: "RAII guards restore slots only when they still contain the  *)
(* value owned by that guard" -- so a module a live installation holds a   *)
(* guard for stays hooked while it is loaded (a module loaded twice would  *)
(* start anew: stated for MaxLoads = 1).  The next sentence asks that "no  *)
(* native call outlives the relevant mount or installation guard"; a       *)
(* dlopen whose rescan outlives its guard is such a call.                  *)
(***************************************************************************)
LiveHooksStay ==
  \A i \in Installs : pc[i] = "live" =>
    \A j \in 1..Len(guards[i]) :
      guards[i][j].mod \in loaded => slot[guards[i][j].mod] = "shim"
=============================================================================
