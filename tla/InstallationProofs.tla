------------------------- MODULE InstallationProofs -------------------------
(***************************************************************************)
(* For any number of installations, rescanning threads and modules: the    *)
(* live installation owns the process-wide state, shims are served, a      *)
(* module is patched once by an installation, and nothing stays patched.   *)
(***************************************************************************)
EXTENDS Installation, TLAPS

(* From try_activate to deactivate, whatever happens in between. *)
Owning == {"activated", "patching", "rollback", "live", "take", "uninstall"}

OwnInv == \A i \in Installs : pc[i] \in Owning => active = i

(* The callback registered is that of the live installation. *)
CallbackInv ==
  /\ rescan_cb # None => rescan_cb \in Installs /\ pc[rescan_cb] = "live"
  /\ \A i \in Installs : pc[i] = "live" /\ AutoRescan[i] => rescan_cb = i

(* Whoever may write a shim into a slot comes after preresolve_originals. *)
OriginalsInv ==
  /\ \A i \in Installs : pc[i] \in {"patching", "live"} => originals
  /\ \A t \in Threads : tpc[t] \in {"enumerate", "scan", "patch", "push"} => originals
  /\ (\E m \in Modules : slot[m] = "shim") => originals

(* A running rescan works for some Installer. *)
ThreadInv ==
  \A t \in Threads : tpc[t] \in {"enumerate", "scan", "patch", "push"} => tcb[t] \in Installs

GlobalsInv == OwnInv /\ CallbackInv /\ OriginalsInv

-----------------------------------------------------------------------------

LEMMA RestoredType ==
  ASSUME TypeOK, NEW g \in Guard
  PROVE  /\ Restored(g) \in [Modules -> Pointers]
         /\ \A m \in Modules : Restored(g)[m] = "shim" => slot[m] = "shim"
BY DEF Restored, TypeOK, Guard, Pointers

LEMMA GuardOfType ==
  ASSUME TypeOK, NEW m \in Modules
  PROVE  GuardOf(m) \in Guard
BY DEF GuardOf, TypeOK, Guard

(* Each action preserves type correctness.  One step per action. *)
LEMMA TypeStep == TypeOK /\ ThreadInv /\ [Next]_vars => TypeOK'
<1> SUFFICES ASSUME TypeOK, ThreadInv, [Next]_vars PROVE TypeOK'
  OBVIOUS
<1> USE ScopeAssumption DEF TypeOK, At, TAt, PC, TPC, globals, ivars, tvars, bounds
<1>1. ASSUME NEW i \in Installs, ResolveModules(i) PROVE TypeOK'
  BY <1>1 DEF ResolveModules
<1>2. ASSUME NEW i \in Installs, TryActivate(i) PROVE TypeOK'
  BY <1>2 DEF TryActivate
<1>3. ASSUME NEW i \in Installs, PreresolveOriginals(i) PROVE TypeOK'
  BY <1>3 DEF PreresolveOriginals
<1>4. ASSUME NEW i \in Installs, PatchModule(i) PROVE TypeOK'
  BY <1>4, GuardOfType DEF PatchModule, Patched, Pointers
<1>5. ASSUME NEW i \in Installs, PatchFails(i) PROVE TypeOK'
  BY <1>5 DEF PatchFails
<1>6. ASSUME NEW i \in Installs, SetRescan(i) PROVE TypeOK'
  BY <1>6 DEF SetRescan
<1>7. ASSUME NEW i \in Installs, UninstallOne(i) PROVE TypeOK'
  BY <1>7, RestoredType DEF UninstallOne
<1>8. ASSUME NEW i \in Installs, Deactivate(i) PROVE TypeOK'
  BY <1>8 DEF Deactivate
<1>9. ASSUME NEW i \in Installs, Released(i) PROVE TypeOK'
  BY <1>9 DEF Released
<1>10. ASSUME NEW i \in Installs, ClearRescan(i) PROVE TypeOK'
  BY <1>10 DEF ClearRescan
<1>11. ASSUME NEW i \in Installs, TakeGuards(i) PROVE TypeOK'
  BY <1>11 DEF TakeGuards
<1>12. ASSUME NEW t \in Threads, NEW c \in Modules, NEW m \in Modules, Dlopen(t, c, m)
       PROVE  TypeOK'
  BY <1>12 DEF Dlopen, Pointers
<1>13. ASSUME NEW m \in Modules, Dlclose(m) PROVE TypeOK'
  BY <1>13 DEF Dlclose
<1>14. ASSUME NEW t \in Threads, TriggerRescan(t) PROVE TypeOK'
  BY <1>14 DEF TriggerRescan
<1>15. ASSUME NEW t \in Threads, NEW i \in Installs, ExplicitRescan(t, i) PROVE TypeOK'
  BY <1>15 DEF ExplicitRescan
<1>16. ASSUME NEW t \in Threads, Enumerate(t) PROVE TypeOK'
  BY <1>16 DEF Enumerate
<1>17. ASSUME NEW t \in Threads, Claim(t) PROVE TypeOK'
  <2>1. tcb[t] \in Installs
    BY <1>17 DEF Claim, ThreadInv
  <2>2. PICK m \in ttodo[t] :
          /\ ttodo' = [ttodo EXCEPT ![t] = @ \ {m}]
          /\ IF m \in hooked[tcb[t]]
               THEN UNCHANGED <<tpc, tmod, hooked>>
               ELSE /\ hooked' = [hooked EXCEPT ![tcb[t]] = @ \cup {m}]
                    /\ tpc' = [tpc EXCEPT ![t] = "patch"]
                    /\ tmod' = [tmod EXCEPT ![t] = {m}]
    BY <1>17 DEF Claim
  <2>3. m \in Modules
    OBVIOUS
  <2>4. UNCHANGED <<slot, loaded, globals, ivars, guards, tcb, borrowed, tguard, bounds>>
    BY <1>17 DEF Claim
  <2>5. ttodo' \in [Threads -> SUBSET Modules]
    BY <2>2
  <2>6. CASE m \in hooked[tcb[t]]
    BY <2>2, <2>4, <2>5, <2>6
  <2>7. CASE m \notin hooked[tcb[t]]
    <3>0. /\ hooked' = [hooked EXCEPT ![tcb[t]] = hooked[tcb[t]] \cup {m}]
          /\ tpc' = [tpc EXCEPT ![t] = "patch"]
          /\ tmod' = [tmod EXCEPT ![t] = {m}]
      BY <2>2, <2>7
    <3>1. hooked[tcb[t]] \cup {m} \in SUBSET Modules /\ {m} \in SUBSET Modules
      BY <2>1, <2>3
    <3>2. hooked' \in [Installs -> SUBSET Modules]
      BY <3>0, <3>1
    <3>3. tmod' \in [Threads -> SUBSET Modules] /\ tpc' \in [Threads -> TPC]
      BY <3>0, <3>1
    <3> QED
      BY <2>4, <2>5, <3>2, <3>3
  <2> QED
    BY <2>6, <2>7
<1>18. ASSUME NEW t \in Threads, PatchLate(t) PROVE TypeOK'
  BY <1>18, GuardOfType DEF PatchLate, Patched, Pointers
<1>19. ASSUME NEW t \in Threads, PatchLateFails(t) PROVE TypeOK'
  BY <1>19 DEF PatchLateFails
<1>20. ASSUME NEW t \in Threads, PushLate(t) PROVE TypeOK'
  <2>1. tcb[t] \in Installs
    BY <1>20 DEF PushLate, ThreadInv
  <2>2. guards[tcb[t]] \o tguard[t] \in Seq(Guard)
    BY <2>1
  <2>3. guards' \in [Installs -> Seq(Guard)]
    BY <1>20, <2>1, <2>2 DEF PushLate
  <2> QED
    BY <1>20, <2>3 DEF PushLate
<1>21. ASSUME NEW t \in Threads, EndRescan(t) PROVE TypeOK'
  <2>1. tcb[t] \in Installs
    BY <1>21 DEF EndRescan, ThreadInv
  <2>2. guards' \in [Installs -> Seq(Guard)] /\ tguard' \in [Threads -> Seq(Guard)]
    BY <1>21, <2>1 DEF EndRescan
  <2> QED
    BY <1>21, <2>2 DEF EndRescan
<1>22. ASSUME NEW t \in Threads, DropLate(t) PROVE TypeOK'
  <2>1. CASE tguard[t] = <<>>
    BY <1>22, <2>1 DEF DropLate
  <2>2. CASE tguard[t] # <<>>
    <3>1. Head(tguard[t]) \in Guard /\ Tail(tguard[t]) \in Seq(Guard)
      BY <2>2
    <3>2. Restored(Head(tguard[t])) \in [Modules -> Pointers]
      BY <3>1, RestoredType
    <3>3. /\ slot' = Restored(Head(tguard[t])) /\ UNCHANGED tpc
          /\ tguard' = [tguard EXCEPT ![t] = Tail(tguard[t])]
          /\ UNCHANGED <<loaded, globals, ivars, hooked, guards,
                         tcb, borrowed, ttodo, tmod, bounds>>
      BY <1>22, <2>2 DEF DropLate
    <3>4. tguard' \in [Threads -> Seq(Guard)]
      BY <3>1, <3>3
    <3> QED
      BY <3>2, <3>3, <3>4
  <2> QED
    BY <2>1, <2>2
<1>23. CASE UNCHANGED vars
  BY <1>23 DEF vars
<1> QED
  BY <1>1, <1>2, <1>3, <1>4, <1>5, <1>6, <1>7, <1>8, <1>9, <1>10, <1>11, <1>12, <1>13,
     <1>14, <1>15, <1>16, <1>17, <1>18, <1>19, <1>20, <1>21, <1>22, <1>23
  DEF Next, Installing, Rescanning

(***************************************************************************)
(* The inductive step for the globals.  Exclusion comes from OwnInv: two   *)
(* installations past try_activate would both have to be the active one.   *)
(***************************************************************************)
Inv == TypeOK /\ ThreadInv /\ GlobalsInv

LEMMA GlobalsInit == Init => Inv
<1> SUFFICES ASSUME Init PROVE Inv
  OBVIOUS
<1>1. TypeOK
  <2>1. slot \in [Modules -> Pointers] /\ loaded \subseteq Modules /\ originals \in BOOLEAN
    BY ScopeAssumption DEF Init, Pointers
  <2>2. /\ pc \in [Installs -> PC] /\ todo \in [Installs -> SUBSET Modules]
        /\ hooked \in [Installs -> SUBSET Modules]
        /\ guards \in [Installs -> Seq(Guard)] /\ taken \in [Installs -> Seq(Guard)]
    BY DEF Init, PC
  <2>3. /\ tpc \in [Threads -> TPC] /\ tcb \in [Threads -> Installs \cup {None}]
        /\ ttodo \in [Threads -> SUBSET Modules] /\ tmod \in [Threads -> SUBSET Modules]
        /\ tguard \in [Threads -> Seq(Guard)]
    BY DEF Init, TPC
  <2>4. borrowed \in [Threads -> BOOLEAN]
    BY DEF Init
  <2> QED
    BY <2>1, <2>2, <2>3, <2>4, ScopeAssumption DEF Init, TypeOK
<1>2. ThreadInv
  BY DEF Init, ThreadInv
<1>3. OwnInv
  BY DEF Init, OwnInv, Owning
<1>4. CallbackInv
  BY DEF Init, CallbackInv
<1>5. OriginalsInv
  BY DEF Init, OriginalsInv
<1> QED
  BY <1>1, <1>2, <1>3, <1>4, <1>5 DEF Inv, GlobalsInv

LEMMA GlobalsStep == Inv /\ [Next]_vars => Inv'
<1> SUFFICES ASSUME Inv, [Next]_vars PROVE Inv'
  OBVIOUS
<1> USE ScopeAssumption DEF Inv, GlobalsInv
<1>0. TypeOK'
  BY TypeStep
<1> DEFINE Rest == ThreadInv' /\ OwnInv' /\ CallbackInv' /\ OriginalsInv'
<1>1. ASSUME NEW i \in Installs, ResolveModules(i) PROVE Rest
  BY <1>1 DEF ResolveModules, TypeOK, globals, tvars, ThreadInv, OwnInv, CallbackInv,
              OriginalsInv, Owning
<1>2. ASSUME NEW i \in Installs, TryActivate(i) PROVE Rest
  BY <1>2 DEF TryActivate, TypeOK, tvars, ThreadInv, OwnInv, CallbackInv, OriginalsInv, Owning
<1>3. ASSUME NEW i \in Installs, PreresolveOriginals(i) PROVE Rest
  BY <1>3 DEF PreresolveOriginals, At, TypeOK, tvars, ThreadInv, OwnInv, CallbackInv,
              OriginalsInv, Owning
<1>4. ASSUME NEW i \in Installs, PatchModule(i) PROVE Rest
  <2>1. /\ UNCHANGED <<active, rescan_cb, originals, pc, tpc, tcb>>
        /\ pc[i] = "patching"
        /\ originals
    BY <1>4 DEF PatchModule, globals, tvars, OriginalsInv
  <2> QED
    BY <2>1 DEF ThreadInv, OwnInv, CallbackInv, OriginalsInv
<1>5. ASSUME NEW i \in Installs, PatchFails(i) PROVE Rest
  BY <1>5 DEF PatchFails, At, TypeOK, globals, tvars, ThreadInv, OwnInv, CallbackInv,
              OriginalsInv, Owning
<1>6. ASSUME NEW i \in Installs, SetRescan(i) PROVE Rest
  <2>1. /\ UNCHANGED <<slot, active, originals, tpc, tcb>>
        /\ pc[i] = "patching" /\ pc' = [pc EXCEPT ![i] = "live"]
        /\ rescan_cb' = IF AutoRescan[i] THEN i ELSE rescan_cb
    BY <1>6 DEF SetRescan, At, tvars
  <2>2. active = i /\ originals
    BY <2>1 DEF OwnInv, OriginalsInv, Owning
  <2>3. \A j \in Installs : j # i => pc[j] # "live"
    BY <2>2 DEF OwnInv, Owning
  <2>4. ThreadInv' /\ OwnInv' /\ OriginalsInv'
    BY <2>1, <2>2 DEF TypeOK, ThreadInv, OwnInv, OriginalsInv, Owning
  <2>5. CallbackInv'
    BY <2>1, <2>2, <2>3 DEF TypeOK, CallbackInv
  <2> QED
    BY <2>4, <2>5
<1>7. ASSUME NEW i \in Installs, UninstallOne(i) PROVE Rest
  <2>1. UNCHANGED <<active, rescan_cb, originals, pc, tpc, tcb>>
    BY <1>7 DEF UninstallOne, globals, tvars
  <2>2. Head(taken[i]) \in Guard /\ slot' = Restored(Head(taken[i]))
    BY <1>7 DEF UninstallOne, TypeOK
  <2>3. \A m \in Modules : slot'[m] = "shim" => slot[m] = "shim"
    BY <2>2, RestoredType
  <2> QED
    BY <2>1, <2>3 DEF ThreadInv, OwnInv, CallbackInv, OriginalsInv
<1>8. ASSUME NEW i \in Installs, Deactivate(i) PROVE Rest
  <2>1. /\ UNCHANGED <<slot, rescan_cb, originals, tpc, tcb>>
        /\ pc[i] \in {"rollback", "uninstall"} /\ pc' = [pc EXCEPT ![i] = "release"]
        /\ active' = IF active = i THEN None ELSE active
    BY <1>8 DEF Deactivate, tvars
  <2>2. OwnInv'
    BY <2>1 DEF TypeOK, OwnInv, Owning
  <2> QED
    BY <2>1, <2>2 DEF TypeOK, ThreadInv, CallbackInv, OriginalsInv
<1>9. ASSUME NEW i \in Installs, Released(i) PROVE Rest
  BY <1>9 DEF Released, At, TypeOK, globals, tvars, ThreadInv, OwnInv, CallbackInv,
              OriginalsInv, Owning
<1>10. ASSUME NEW i \in Installs, ClearRescan(i) PROVE Rest
  <2>1. /\ UNCHANGED <<slot, active, originals, tpc, tcb>>
        /\ pc[i] = "live" /\ pc' = [pc EXCEPT ![i] = "take"] /\ rescan_cb' = None
    BY <1>10 DEF ClearRescan, At, tvars
  <2>2. \A j \in Installs : pc'[j] # "live"
    BY <2>1 DEF TypeOK, OwnInv, Owning
  <2> QED
    BY <2>1, <2>2 DEF TypeOK, ThreadInv, OwnInv, CallbackInv, OriginalsInv, Owning
<1>11. ASSUME NEW i \in Installs, TakeGuards(i) PROVE Rest
  BY <1>11 DEF TakeGuards, At, TypeOK, globals, tvars, ThreadInv, OwnInv, CallbackInv,
               OriginalsInv, Owning
<1>12. ASSUME NEW t \in Threads, NEW c \in Modules, NEW m \in Modules, Dlopen(t, c, m)
       PROVE  Rest
  <2>1. /\ UNCHANGED <<active, rescan_cb, originals, pc, tcb>>
        /\ \E x \in {"loaded", "idle"} : tpc' = [tpc EXCEPT ![t] = x]
        /\ \A n \in Modules : slot'[n] = "shim" => slot[n] = "shim"
    BY <1>12 DEF Dlopen, globals, ivars, TypeOK
  <2> QED
    BY <2>1 DEF TypeOK, ThreadInv, OwnInv, CallbackInv, OriginalsInv
<1>13. ASSUME NEW m \in Modules, Dlclose(m) PROVE Rest
  BY <1>13 DEF Dlclose, globals, ivars, tvars, ThreadInv, OwnInv, CallbackInv, OriginalsInv
<1>14. ASSUME NEW t \in Threads, TriggerRescan(t) PROVE Rest
  <2>1. /\ UNCHANGED <<slot, active, rescan_cb, originals, pc>>
        /\ tcb' = [tcb EXCEPT ![t] = rescan_cb]
        /\ tpc' = [tpc EXCEPT ![t] = IF rescan_cb = None THEN "idle" ELSE "enumerate"]
    BY <1>14 DEF TriggerRescan, globals, ivars
  <2>2. rescan_cb # None => rescan_cb \in Installs /\ originals
    BY DEF CallbackInv, OriginalsInv
  <2> QED
    BY <2>1, <2>2 DEF TypeOK, ThreadInv, OwnInv, CallbackInv, OriginalsInv
<1>15. ASSUME NEW t \in Threads, NEW i \in Installs, ExplicitRescan(t, i) PROVE Rest
  <2>1. /\ UNCHANGED <<slot, active, rescan_cb, originals, pc>>
        /\ tcb' = [tcb EXCEPT ![t] = i] /\ tpc' = [tpc EXCEPT ![t] = "enumerate"]
        /\ pc[i] = "live"
    BY <1>15 DEF ExplicitRescan, TAt, globals, ivars
  <2>2. originals
    BY <2>1 DEF OriginalsInv
  <2> QED
    BY <2>1, <2>2 DEF TypeOK, ThreadInv, OwnInv, CallbackInv, OriginalsInv
<1>16. ASSUME NEW t \in Threads,
              \/ Enumerate(t) \/ Claim(t) \/ PatchLate(t) \/ PatchLateFails(t) \/ PushLate(t)
       PROVE  Rest
  <2>1. /\ UNCHANGED <<active, rescan_cb, originals, pc, tcb>>
        /\ tpc[t] \in {"enumerate", "scan", "patch", "push"}
        /\ \A u \in Threads : u # t => tpc'[u] = tpc[u]
    BY <1>16 DEF Enumerate, Claim, PatchLate, PatchLateFails, PushLate, TAt, globals, ivars, TypeOK
  <2>2. originals /\ tcb[t] \in Installs
    BY <2>1 DEF OriginalsInv, ThreadInv
  <2> QED
    BY <2>1, <2>2 DEF ThreadInv, OwnInv, CallbackInv, OriginalsInv
<1>17. ASSUME NEW t \in Threads, EndRescan(t) PROVE Rest
  <2>1. /\ UNCHANGED <<slot, active, rescan_cb, originals, pc>>
        /\ tcb' = [tcb EXCEPT ![t] = None]
        /\ \E x \in {"drop", "idle"} : tpc' = [tpc EXCEPT ![t] = x]
    BY <1>17 DEF EndRescan, globals, ivars
  <2> QED
    BY <2>1 DEF TypeOK, ThreadInv, OwnInv, CallbackInv, OriginalsInv
<1>18. ASSUME NEW t \in Threads, DropLate(t) PROVE Rest
  <2>1. UNCHANGED <<active, rescan_cb, originals, pc, tcb>>
    BY <1>18 DEF DropLate, globals, ivars
  <2>2. CASE tguard[t] = <<>>
    <3>1. tpc' = [tpc EXCEPT ![t] = "idle"] /\ UNCHANGED slot
      BY <1>18, <2>2 DEF DropLate
    <3> QED
      BY <2>1, <3>1 DEF TypeOK, ThreadInv, OwnInv, CallbackInv, OriginalsInv
  <2>3. CASE tguard[t] # <<>>
    <3>1. Head(tguard[t]) \in Guard /\ slot' = Restored(Head(tguard[t])) /\ UNCHANGED tpc
      BY <1>18, <2>3 DEF DropLate, TypeOK
    <3>2. \A m \in Modules : slot'[m] = "shim" => slot[m] = "shim"
      BY <3>1, RestoredType
    <3> QED
      BY <2>1, <3>1, <3>2 DEF ThreadInv, OwnInv, CallbackInv, OriginalsInv
  <2> QED
    BY <2>2, <2>3
<1>19. ASSUME UNCHANGED vars PROVE Rest
  BY <1>19 DEF vars, ThreadInv, OwnInv, CallbackInv, OriginalsInv
<1> QED
  BY <1>0, <1>1, <1>2, <1>3, <1>4, <1>5, <1>6, <1>7, <1>8, <1>9, <1>10, <1>11, <1>12,
     <1>13, <1>14, <1>15, <1>16, <1>17, <1>18, <1>19
  DEF Next, Installing, Rescanning

LEMMA GlobalsInvariant == Spec => []Inv
BY GlobalsInit, GlobalsStep, PTL DEF Spec

(* Type correctness, for any number of installations, threads and modules. *)
THEOREM TypeCorrect == Spec => []TypeOK
<1>1. Inv => TypeOK
  BY DEF Inv
<1> QED
  BY <1>1, GlobalsInvariant, PTL

(***************************************************************************)
(* Single active installation: whoever holds a live InstallGuard owns the  *)
(* engine and the rescan callback, however many installations are tried,   *)
(* fail, are refused or are dropped around it.                             *)
(***************************************************************************)
THEOREM LiveInstallationOwns == Spec => []LiveOwnsGlobals
<1>1. Inv => LiveOwnsGlobals
  BY DEF Inv, GlobalsInv, OwnInv, CallbackInv, Owning, LiveOwnsGlobals
<1> QED
  BY <1>1, GlobalsInvariant, PTL

(***************************************************************************)
(* No shim is reachable through a slot before the originals are resolved,  *)
(* and an installation's own guards are in place only under its engine.    *)
(***************************************************************************)
THEOREM ShimsAlwaysServed == Spec => []ShimsAreServed
<1>1. Inv => ShimsAreServed
  BY DEF Inv, GlobalsInv, OwnInv, OriginalsInv, Owning, ShimsAreServed, TypeOK
<1> QED
  BY <1>1, GlobalsInvariant, PTL

-----------------------------------------------------------------------------
(* Every guard is in somebody's hand: Installer.guards, the guards a drop or a *)
(* rollback took out, or those of a rescan.                                    *)

In(s, g) == \E j \in 1..Len(s) : s[j] = g

InHand(g) ==
  \/ \E i \in Installs : In(guards[i], g) \/ In(taken[i], g)
  \/ \E t \in Threads : In(tguard[t], g)

(* The guard that puts the callee back. *)
First(m) == [mod |-> m, prior |-> "callee"]

(* A patched slot of a loaded module has its way back. *)
BackInv == \A m \in Modules : m \in loaded /\ slot[m] = "shim" => InHand(First(m))

Returned == {"live", "take", "uninstall", "release", "over"}
Restoring == {"rollback", "uninstall", "release"}
Fresh == {"idle", "resolved", "activated"}

(* Whom a thread works for, and what it holds. *)
HolderInv ==
  \A t \in Threads :
    /\ tpc[t] \in {"idle", "loaded", "drop"} => tcb[t] = None
    /\ tcb[t] # None => pc[tcb[t]] \in Returned
    /\ tpc[t] \notin {"push", "drop"} => tguard[t] = <<>>
    /\ tpc[t] = "push" => \E g \in Guard : tguard[t] = <<g>> /\ g.mod \in tmod[t]

(* When an Installer has no guards left. *)
EmptyInv ==
  \A i \in Installs :
    /\ pc[i] \notin Restoring => taken[i] = <<>>
    /\ pc[i] \in Fresh => hooked[i] = {} /\ guards[i] = <<>>
    /\ pc[i] \in {"release", "over"} /\ (\A t \in Threads : tcb[t] # i) => guards[i] = <<>>

-----------------------------------------------------------------------------
(* A base is claimed once: its module is in at most one of these places. *)

Apart(s) == \A j, k \in 1..Len(s) : s[j].mod = s[k].mod => j = k
Has(s, m) == \E j \in 1..Len(s) : s[j].mod = m

Working(t, i) == tcb[t] = i /\ tpc[t] \in {"patch", "push"}

ClaimInv ==
  \A i \in Installs :
    /\ Apart(guards[i]) /\ Apart(taken[i])
    /\ \A m \in Modules :
         /\ Has(guards[i], m) => m \in hooked[i] /\ ~Has(taken[i], m)
         /\ Has(taken[i], m) => m \in hooked[i]
    /\ \A t \in Threads : Working(t, i) =>
         \A m \in tmod[t] :
           /\ m \in hooked[i] /\ ~Has(guards[i], m) /\ ~Has(taken[i], m)
           /\ \A u \in Threads : u # t /\ Working(u, i) => m \notin tmod[u]
    /\ pc[i] = "patching" => todo[i] \cap hooked[i] = {}

HandInv == Inv /\ HolderInv /\ EmptyInv /\ ClaimInv /\ BackInv

-----------------------------------------------------------------------------
(* Guards in a sequence. *)

LEMMA NoGuards == /\ \A g : ~In(<<>>, g)
                  /\ \A m : ~Has(<<>>, m)
                  /\ Apart(<<>>)
BY DEF In, Has, Apart

LEMMA OneMoreGuard ==
  ASSUME NEW s \in Seq(Guard), NEW g \in Guard
  PROVE  /\ \A h : In(Append(s, g), h) <=> In(s, h) \/ h = g
         /\ \A m : Has(Append(s, g), m) <=> Has(s, m) \/ m = g.mod
         /\ Apart(s) /\ ~Has(s, g.mod) => Apart(Append(s, g))
<1>1. /\ Len(Append(s, g)) = Len(s) + 1 /\ Len(s) \in Nat
      /\ \A j \in 1..Len(s) : Append(s, g)[j] = s[j]
      /\ Append(s, g)[Len(s) + 1] = g
  OBVIOUS
<1>2. \A j : j \in 1..(Len(s) + 1) <=> j \in 1..Len(s) \/ j = Len(s) + 1
  BY <1>1
<1>3. ASSUME NEW h PROVE In(Append(s, g), h) <=> In(s, h) \/ h = g
  BY <1>1, <1>2 DEF In
<1>4. ASSUME NEW m PROVE Has(Append(s, g), m) <=> Has(s, m) \/ m = g.mod
  BY <1>1, <1>2 DEF Has
<1>5. Apart(s) /\ ~Has(s, g.mod) => Apart(Append(s, g))
  BY <1>1, <1>2 DEF Has, Apart
<1> QED
  BY <1>3, <1>4, <1>5

LEMMA OneGuard ==
  ASSUME NEW g \in Guard
  PROVE  \A h : In(<<g>>, h) <=> h = g
BY DEF In

LEMMA PushedGuard ==
  ASSUME NEW s \in Seq(Guard), NEW g \in Guard
  PROVE  s \o <<g>> = Append(s, g)
OBVIOUS

LEMMA OneGuardLess ==
  ASSUME NEW s \in Seq(Guard), s # <<>>
  PROVE  /\ \A h : In(s, h) => h = Head(s) \/ In(Tail(s), h)
         /\ \A m : Has(Tail(s), m) => Has(s, m)
         /\ Apart(s) => Apart(Tail(s))
<1>1. /\ Len(s) \in Nat /\ Len(s) >= 1 /\ Len(Tail(s)) = Len(s) - 1 /\ Head(s) = s[1]
      /\ \A j \in 1..(Len(s) - 1) : Tail(s)[j] = s[j + 1]
  OBVIOUS
<1>2. \A j \in 1..(Len(s) - 1) : j + 1 \in 1..Len(s)
  BY <1>1
<1>3. \A j \in 1..Len(s) : j = 1 \/ (j - 1 \in 1..(Len(s) - 1) /\ (j - 1) + 1 = j)
  BY <1>1
<1>4. ASSUME NEW h, In(s, h) PROVE h = Head(s) \/ In(Tail(s), h)
  <2>1. PICK j \in 1..Len(s) : s[j] = h
    BY <1>4 DEF In
  <2>2. CASE j = 1
    BY <1>1, <2>1, <2>2
  <2>3. CASE j # 1
    <3>1. j - 1 \in 1..Len(Tail(s)) /\ Tail(s)[j - 1] = h
      BY <1>1, <1>3, <2>1, <2>3
    <3> QED
      BY <3>1 DEF In
  <2> QED
    BY <2>2, <2>3
<1>5. ASSUME NEW m, Has(Tail(s), m) PROVE Has(s, m)
  BY <1>1, <1>2, <1>5 DEF Has
<1>6. Apart(s) => Apart(Tail(s))
  BY <1>1, <1>2 DEF Apart
<1> QED
  BY <1>4, <1>5, <1>6

LEMMA TwoHands ==
  ASSUME NEW s \in Seq(Guard), NEW r \in Seq(Guard), Apart(s), Apart(r),
         \A m \in Modules : Has(s, m) => ~Has(r, m)
  PROVE  Apart(s \o r)
<1>1. /\ Len(s \o r) = Len(s) + Len(r) /\ Len(s) \in Nat /\ Len(r) \in Nat
      /\ \A x \in 1..(Len(s) + Len(r)) : (s \o r)[x] = IF x <= Len(s) THEN s[x] ELSE r[x - Len(s)]
  OBVIOUS
<1>2. ASSUME NEW x \in 1..Len(s), NEW y \in 1..Len(r) PROVE s[x].mod # r[y].mod
  <2>1. s[x] \in Guard
    OBVIOUS
  <2>2. s[x].mod \in Modules
    BY <2>1 DEF Guard
  <2> QED
    BY <2>2 DEF Has
<1>3. SUFFICES ASSUME NEW j \in 1..(Len(s) + Len(r)), NEW k \in 1..(Len(s) + Len(r)),
                      (s \o r)[j].mod = (s \o r)[k].mod
               PROVE  j = k
  BY <1>1 DEF Apart
<1>4. \A x \in 1..(Len(s) + Len(r)) : ~(x <= Len(s)) => x - Len(s) \in 1..Len(r)
  BY <1>1
<1>5. \A x \in 1..(Len(s) + Len(r)) : x <= Len(s) => x \in 1..Len(s)
  BY <1>1
<1>6. CASE j <= Len(s) /\ k <= Len(s)
  BY <1>1, <1>3, <1>5, <1>6 DEF Apart
<1>7. CASE ~(j <= Len(s)) /\ ~(k <= Len(s))
  <2>1. PICK x, y \in 1..Len(r) : x = j - Len(s) /\ y = k - Len(s)
    BY <1>4, <1>7
  <2>2. x = y
    BY <1>1, <1>3, <1>7, <2>1 DEF Apart
  <2> QED
    BY <1>1, <2>1, <2>2
<1>8. CASE j <= Len(s) /\ ~(k <= Len(s))
  BY <1>1, <1>2, <1>3, <1>4, <1>5, <1>8
<1>9. CASE ~(j <= Len(s)) /\ k <= Len(s)
  BY <1>1, <1>2, <1>3, <1>4, <1>5, <1>9
<1> QED
  BY <1>6, <1>7, <1>8, <1>9

-----------------------------------------------------------------------------
(* Each layer is preserved, given the ones before it. *)

LEMMA HolderStep == Inv /\ HolderInv /\ [Next]_vars => HolderInv'
<1> SUFFICES ASSUME Inv, HolderInv, [Next]_vars PROVE HolderInv'
  OBVIOUS
<1>0. TypeOK /\ TypeOK'
  BY GlobalsStep DEF Inv
<1>a. \A t \in Threads : tcb[t] # None => tcb[t] \in Installs
  BY <1>0 DEF TypeOK
<1> USE ScopeAssumption
<1>1. ASSUME NEW i \in Installs,
             UNCHANGED tvars,
             \A j \in Installs : pc[j] \in Returned => pc'[j] \in Returned
      PROVE  HolderInv'
  BY <1>1, <1>a DEF tvars, HolderInv
<1>2. ASSUME NEW i \in Installs, ResolveModules(i) \/ ClearRescan(i) \/ Installing(i)
      PROVE  HolderInv'
  <2>1. UNCHANGED tvars
    BY <1>2 DEF Installing, ResolveModules, ClearRescan, TryActivate, PreresolveOriginals,
                PatchModule, PatchFails, SetRescan, TakeGuards, UninstallOne, Deactivate, Released
  <2>2. \A j \in Installs : pc[j] \in Returned => pc'[j] \in Returned
    BY <1>0, <1>2 DEF Installing, ResolveModules, ClearRescan, TryActivate, PreresolveOriginals,
                PatchModule, PatchFails, SetRescan, TakeGuards, UninstallOne, Deactivate, Released,
                At, TypeOK, Returned
  <2> QED
    BY <1>1, <2>1, <2>2
<1>3. ASSUME NEW t \in Threads, NEW c \in Modules, NEW m \in Modules, Dlopen(t, c, m)
      PROVE  HolderInv'
  <2>1. /\ UNCHANGED <<pc, tcb, tguard>> /\ tpc[t] = "idle"
        /\ \E x \in {"loaded", "idle"} : tpc' = [tpc EXCEPT ![t] = x]
        /\ \A u \in Threads : u # t => tmod'[u] = tmod[u]
    BY <1>0, <1>3 DEF Dlopen, ivars, TypeOK
  <2> QED
    BY <1>0, <2>1 DEF HolderInv, TypeOK
<1>4. ASSUME NEW m \in Modules, Dlclose(m) PROVE HolderInv'
  BY <1>4 DEF Dlclose, ivars, tvars, HolderInv
<1>5. ASSUME NEW t \in Threads, TriggerRescan(t) PROVE HolderInv'
  <2>1. /\ UNCHANGED <<pc, tguard>> /\ tpc[t] = "loaded"
        /\ tcb' = [tcb EXCEPT ![t] = rescan_cb]
        /\ tpc' = [tpc EXCEPT ![t] = IF rescan_cb = None THEN "idle" ELSE "enumerate"]
        /\ tmod' = [tmod EXCEPT ![t] = {}]
    BY <1>5 DEF TriggerRescan, ivars
  <2>2. rescan_cb # None => pc[rescan_cb] \in Returned
    BY DEF Inv, GlobalsInv, CallbackInv, Returned
  <2> QED
    BY <1>0, <2>1, <2>2 DEF HolderInv, TypeOK
<1>6. ASSUME NEW t \in Threads, NEW i \in Installs, ExplicitRescan(t, i) PROVE HolderInv'
  <2>1. /\ UNCHANGED <<pc, tguard, tmod>> /\ tpc[t] = "idle" /\ pc[i] = "live"
        /\ tcb' = [tcb EXCEPT ![t] = i]
        /\ tpc' = [tpc EXCEPT ![t] = "enumerate"]
    BY <1>6 DEF ExplicitRescan, ivars, TAt
  <2> QED
    BY <1>0, <2>1 DEF HolderInv, TypeOK, Returned
<1>7. ASSUME NEW t \in Threads, Enumerate(t) PROVE HolderInv'
  BY <1>0, <1>7 DEF Enumerate, TAt, ivars, HolderInv, TypeOK
<1>8. ASSUME NEW t \in Threads, Claim(t) PROVE HolderInv'
  <2>1. /\ UNCHANGED <<pc, tguard, tcb>> /\ tpc[t] = "scan"
        /\ tpc'[t] \in {"scan", "patch"}
        /\ \A u \in Threads : u # t => tmod'[u] = tmod[u] /\ tpc'[u] = tpc[u]
    BY <1>0, <1>8 DEF Claim, ivars, TypeOK
  <2> QED
    BY <1>0, <2>1 DEF HolderInv
<1>9. ASSUME NEW t \in Threads, PatchLate(t) PROVE HolderInv'
  <2>1. PICK m \in tmod[t] : tguard' = [tguard EXCEPT ![t] = << GuardOf(m) >>]
    BY <1>9 DEF PatchLate
  <2>2. GuardOf(m) \in Guard /\ GuardOf(m).mod = m
    BY <1>0, GuardOfType DEF TypeOK, GuardOf
  <2>3. /\ UNCHANGED <<pc, tcb, tmod>> /\ tpc[t] = "patch" /\ tpc' = [tpc EXCEPT ![t] = "push"]
    BY <1>9 DEF PatchLate, TAt, ivars
  <2>4. \E g \in Guard : tguard'[t] = <<g>> /\ g.mod \in tmod'[t]
    <3>1. PICK g \in Guard : g = GuardOf(m)
      BY <2>2
    <3>2. tguard'[t] = <<g>> /\ g.mod \in tmod'[t]
      BY <1>0, <2>1, <2>2, <2>3, <3>1 DEF TypeOK
    <3> QED
      BY <3>2
  <2>5. /\ tpc'[t] = "push"
        /\ \A u \in Threads : u # t => tpc'[u] = tpc[u] /\ tguard'[u] = tguard[u]
    BY <1>0, <2>1, <2>3 DEF TypeOK
  <2> QED
    BY <2>3, <2>4, <2>5 DEF HolderInv
<1>10. ASSUME NEW t \in Threads, PatchLateFails(t) PROVE HolderInv'
  BY <1>0, <1>10 DEF PatchLateFails, TAt, ivars, HolderInv, TypeOK
<1>11. ASSUME NEW t \in Threads, PushLate(t) PROVE HolderInv'
  <2>1. /\ UNCHANGED <<pc, tcb>> /\ tpc[t] = "push" /\ tpc' = [tpc EXCEPT ![t] = "scan"]
        /\ tguard' = [tguard EXCEPT ![t] = <<>>] /\ tmod' = [tmod EXCEPT ![t] = {}]
    BY <1>11 DEF PushLate, TAt, ivars
  <2> QED
    BY <1>0, <2>1 DEF HolderInv, TypeOK
<1>12. ASSUME NEW t \in Threads, EndRescan(t) PROVE HolderInv'
  <2>1. /\ UNCHANGED <<pc, tmod>> /\ tpc[t] = "scan" /\ tcb' = [tcb EXCEPT ![t] = None]
        /\ \/ tpc'[t] = "drop"
           \/ tpc'[t] = "idle" /\ tguard'[t] = <<>>
        /\ \A u \in Threads : u # t => tpc'[u] = tpc[u] /\ tguard'[u] = tguard[u]
    BY <1>0, <1>12 DEF EndRescan, ivars, TypeOK
  <2> QED
    BY <1>0, <2>1 DEF HolderInv, TypeOK
<1>13. ASSUME NEW t \in Threads, DropLate(t) PROVE HolderInv'
  <2>1. /\ UNCHANGED <<pc, tcb, tmod>> /\ tpc[t] = "drop"
        /\ \/ tpc'[t] = "drop"
           \/ tpc'[t] = "idle" /\ tguard'[t] = <<>>
        /\ \A u \in Threads : u # t => tpc'[u] = tpc[u] /\ tguard'[u] = tguard[u]
    <3>1. UNCHANGED <<pc, tcb, tmod>> /\ tpc[t] = "drop"
      BY <1>13 DEF DropLate, ivars
    <3>2. CASE tguard[t] = <<>>
      BY <1>0, <1>13, <3>1, <3>2 DEF DropLate, TypeOK
    <3>3. CASE tguard[t] # <<>>
      BY <1>0, <1>13, <3>1, <3>3 DEF DropLate, TypeOK
    <3> QED
      BY <3>1, <3>2, <3>3
  <2> QED
    BY <1>0, <2>1 DEF HolderInv
<1>14. CASE UNCHANGED vars
  BY <1>14 DEF vars, HolderInv
<1> QED
  BY <1>2, <1>3, <1>4, <1>5, <1>6, <1>7, <1>8, <1>9, <1>10, <1>11, <1>12, <1>13, <1>14
  DEF Next, Rescanning

LEMMA EmptyStep == Inv /\ HolderInv /\ EmptyInv /\ [Next]_vars => EmptyInv'
<1> SUFFICES ASSUME Inv, HolderInv, EmptyInv, [Next]_vars PROVE EmptyInv'
  OBVIOUS
<1>0. TypeOK /\ TypeOK'
  BY GlobalsStep DEF Inv
<1> USE ScopeAssumption
<1>1. ASSUME NEW i \in Installs,
             \/ ResolveModules(i) \/ ClearRescan(i) \/ TryActivate(i) \/ PreresolveOriginals(i)
             \/ SetRescan(i) \/ Released(i)
      PROVE  EmptyInv'
  <2>1. /\ UNCHANGED <<tcb, hooked, guards, taken>>
        /\ \A j \in Installs : j # i => pc'[j] = pc[j]
    BY <1>0, <1>1 DEF ResolveModules, ClearRescan, TryActivate, PreresolveOriginals,
                 SetRescan, Released, At, TypeOK, tvars
  <2>2. \/ pc[i] \in Fresh
        \/ pc'[i] \notin (Restoring \cup Fresh \cup {"release", "over"}) /\ taken[i] = <<>>
        \/ pc[i] = "release" /\ pc'[i] = "over" /\ taken[i] = <<>>
    BY <1>0, <1>1 DEF ResolveModules, ClearRescan, TryActivate, PreresolveOriginals,
                 SetRescan, Released, At, TypeOK, Fresh, Restoring, EmptyInv
  <2>3. pc[i] \in Fresh => taken[i] = <<>> /\ hooked[i] = {} /\ guards[i] = <<>>
    BY DEF EmptyInv, Fresh, Restoring
  <2> QED
    BY <2>1, <2>2, <2>3 DEF EmptyInv, Fresh, Restoring
<1>2. ASSUME NEW i \in Installs, PatchModule(i) PROVE EmptyInv'
  <2>1. /\ UNCHANGED <<tcb, pc, taken>> /\ pc[i] = "patching"
        /\ \A j \in Installs : j # i => hooked'[j] = hooked[j] /\ guards'[j] = guards[j]
    BY <1>0, <1>2 DEF PatchModule, tvars, TypeOK
  <2> QED
    BY <2>1 DEF EmptyInv, Fresh, Restoring
<1>3. ASSUME NEW i \in Installs, PatchFails(i) \/ TakeGuards(i) PROVE EmptyInv'
  <2>1. /\ UNCHANGED <<tcb, hooked>> /\ pc'[i] \in {"rollback", "uninstall"} /\ guards'[i] = <<>>
        /\ \A j \in Installs : j # i => pc'[j] = pc[j] /\ taken'[j] = taken[j] /\ guards'[j] = guards[j]
    BY <1>0, <1>3 DEF PatchFails, TakeGuards, At, tvars, TypeOK
  <2> QED
    BY <2>1 DEF EmptyInv, Fresh, Restoring
<1>4. ASSUME NEW i \in Installs, UninstallOne(i) PROVE EmptyInv'
  <2>1. /\ UNCHANGED <<tcb, pc, hooked, guards>> /\ pc[i] \in Restoring
        /\ \A j \in Installs : j # i => taken'[j] = taken[j]
    BY <1>0, <1>4 DEF UninstallOne, tvars, Restoring, TypeOK
  <2> QED
    BY <2>1 DEF EmptyInv
<1>5. ASSUME NEW i \in Installs, Deactivate(i) PROVE EmptyInv'
  <2>1. /\ UNCHANGED <<tcb, hooked>> /\ pc[i] \in {"rollback", "uninstall"} /\ pc'[i] = "release"
        /\ \A j \in Installs : j # i => pc'[j] = pc[j] /\ taken'[j] = taken[j] /\ guards'[j] = guards[j]
    BY <1>0, <1>5 DEF Deactivate, tvars, TypeOK
  <2>2. (\A t \in Threads : tcb[t] # i) => guards'[i] = <<>>
    <3>1. rescan_cb # i
      BY <2>1 DEF Inv, GlobalsInv, CallbackInv
    <3>2. CASE HeldElsewhere(i, None)
      BY <3>1, <3>2 DEF HeldElsewhere
    <3>3. CASE ~HeldElsewhere(i, None)
      BY <1>0, <1>5, <3>3 DEF Deactivate, TypeOK
    <3> QED
      BY <3>2, <3>3
  <2> QED
    BY <2>1, <2>2 DEF EmptyInv, Fresh, Restoring
<1>6. ASSUME NEW t \in Threads, NEW c \in Modules, NEW m \in Modules, Dlopen(t, c, m)
      PROVE  EmptyInv'
  BY <1>6 DEF Dlopen, ivars, EmptyInv
<1>7. ASSUME NEW m \in Modules, Dlclose(m) PROVE EmptyInv'
  BY <1>7 DEF Dlclose, ivars, tvars, EmptyInv
<1>8. ASSUME NEW t \in Threads, TriggerRescan(t) PROVE EmptyInv'
  <2>1. /\ UNCHANGED <<pc, taken, hooked, guards>>
        /\ tpc[t] = "loaded" /\ tcb' = [tcb EXCEPT ![t] = rescan_cb]
    BY <1>8 DEF TriggerRescan, ivars
  <2>2. tcb[t] = None
    BY <2>1 DEF HolderInv
  <2>3. \A i \in Installs : (\A u \in Threads : tcb'[u] # i) => (\A u \in Threads : tcb[u] # i)
    BY <1>0, <2>1, <2>2 DEF TypeOK
  <2> QED
    BY <2>1, <2>3 DEF EmptyInv
<1>9. ASSUME NEW t \in Threads, NEW i \in Installs, ExplicitRescan(t, i) PROVE EmptyInv'
  <2>1. /\ UNCHANGED <<pc, taken, hooked, guards>>
        /\ tpc[t] = "idle" /\ tcb' = [tcb EXCEPT ![t] = i]
    BY <1>9 DEF ExplicitRescan, ivars, TAt
  <2>2. tcb[t] = None
    BY <2>1 DEF HolderInv
  <2>3. \A j \in Installs : (\A u \in Threads : tcb'[u] # j) => (\A u \in Threads : tcb[u] # j)
    BY <1>0, <2>1, <2>2 DEF TypeOK
  <2> QED
    BY <2>1, <2>3 DEF EmptyInv
<1>10. ASSUME NEW t \in Threads,
              Enumerate(t) \/ PatchLate(t) \/ PatchLateFails(t) \/ DropLate(t)
       PROVE  EmptyInv'
  <2>1. UNCHANGED <<pc, taken, hooked, guards, tcb>>
    BY <1>10 DEF Enumerate, PatchLate, PatchLateFails, DropLate, ivars
  <2> QED
    BY <2>1 DEF EmptyInv
<1>11. ASSUME NEW t \in Threads, Claim(t) \/ PushLate(t) PROVE EmptyInv'
  <2>1. tpc[t] \in {"scan", "push"}
    BY <1>11 DEF Claim, PushLate, TAt
  <2>2. tcb[t] \in Installs /\ pc[tcb[t]] \in Returned
    BY <2>1 DEF HolderInv, Inv, ThreadInv
  <2>3. /\ UNCHANGED <<pc, taken, tcb>>
        /\ \A j \in Installs : j # tcb[t] => hooked'[j] = hooked[j] /\ guards'[j] = guards[j]
    BY <1>0, <1>11, <2>2 DEF Claim, PushLate, ivars, TypeOK
  <2> QED
    BY <2>2, <2>3 DEF EmptyInv, Returned, Fresh
<1>12. ASSUME NEW t \in Threads, EndRescan(t) PROVE EmptyInv'
  <2>1. /\ UNCHANGED <<pc, taken, hooked>> /\ tpc[t] = "scan"
        /\ tcb' = [tcb EXCEPT ![t] = None]
    BY <1>12 DEF EndRescan, ivars
  <2>2. tcb[t] \in Installs /\ pc[tcb[t]] \in Returned
    BY <2>1 DEF HolderInv, Inv, ThreadInv
  <2>3. PICK i \in Installs : i = tcb[t]
    BY <2>2
  <2>4. /\ \A j \in Installs : j # i => guards'[j] = guards[j]
        /\ guards'[i] = <<>> \/ (guards'[i] = guards[i]
                                  /\ (HeldElsewhere(i, t) \/ pc[i] \notin {"release", "over"}))
    BY <1>0, <1>12, <2>3 DEF EndRescan, TypeOK
  <2>5. \A j \in Installs : j # i =>
          ((\A u \in Threads : tcb'[u] # j) => (\A u \in Threads : tcb[u] # j))
    BY <1>0, <2>1, <2>3 DEF TypeOK
  <2>6. pc[i] \in {"release", "over"} /\ (\A u \in Threads : tcb'[u] # i) => ~HeldElsewhere(i, t)
    BY <1>0, <2>1, <2>3 DEF HeldElsewhere, Inv, GlobalsInv, CallbackInv, TypeOK
  <2> QED
    BY <2>1, <2>2, <2>3, <2>4, <2>5, <2>6 DEF EmptyInv, Fresh, Returned
<1>13. CASE UNCHANGED vars
  BY <1>13 DEF vars, EmptyInv
<1> QED
  BY <1>1, <1>2, <1>3, <1>4, <1>5, <1>6, <1>7, <1>8, <1>9, <1>10, <1>11, <1>12, <1>13
  DEF Next, Installing, Rescanning

(***************************************************************************)
(* ClaimInv for one installation: what it has, and what its rescans have,  *)
(* and the lemma for the actions that leave those alone.                   *)
(***************************************************************************)
ClaimAt(i) ==
  /\ Apart(guards[i]) /\ Apart(taken[i])
  /\ \A m \in Modules :
       /\ Has(guards[i], m) => m \in hooked[i] /\ ~Has(taken[i], m)
       /\ Has(taken[i], m) => m \in hooked[i]
  /\ \A t \in Threads : Working(t, i) =>
       \A m \in tmod[t] :
         /\ m \in hooked[i] /\ ~Has(guards[i], m) /\ ~Has(taken[i], m)
         /\ \A u \in Threads : u # t /\ Working(u, i) => m \notin tmod[u]
  /\ pc[i] = "patching" => todo[i] \cap hooked[i] = {}

LEMMA ClaimKept ==
  ASSUME NEW i \in Installs, ClaimAt(i),
         guards'[i] = guards[i], taken'[i] = taken[i], hooked'[i] = hooked[i],
         pc'[i] = "patching" => todo'[i] \cap hooked[i] = {},
         \A t \in Threads : Working(t, i)' => Working(t, i) /\ tmod'[t] = tmod[t]
  PROVE  ClaimAt(i)'
BY DEF ClaimAt

LEMMA ClaimStep == Inv /\ HolderInv /\ EmptyInv /\ ClaimInv /\ [Next]_vars => ClaimInv'
<1> SUFFICES ASSUME Inv, HolderInv, EmptyInv, ClaimInv, [Next]_vars, NEW k \in Installs
             PROVE  ClaimAt(k)'
  BY DEF ClaimInv, ClaimAt
<1>0. TypeOK /\ TypeOK' /\ ClaimAt(k)
  BY GlobalsStep DEF Inv, ClaimInv, ClaimAt
<1> USE ScopeAssumption
<1>a. ASSUME UNCHANGED tvars, NEW t \in Threads
      PROVE Working(t, k)' => Working(t, k) /\ tmod'[t] = tmod[t]
  BY <1>a DEF tvars, Working
<1>1. ASSUME NEW i \in Installs,
             \/ ResolveModules(i) \/ ClearRescan(i) \/ TryActivate(i) \/ PreresolveOriginals(i)
             \/ SetRescan(i) \/ Released(i)
      PROVE  ClaimAt(k)'
  <2>1. UNCHANGED <<hooked, guards, taken>> /\ UNCHANGED tvars
    BY <1>1 DEF ResolveModules, ClearRescan, TryActivate, PreresolveOriginals, SetRescan, Released
  <2>2. pc'[k] = "patching" => todo'[k] \cap hooked[k] = {}
    <3>1. SUFFICES ASSUME pc'[k] = "patching" PROVE todo'[k] \cap hooked[k] = {}
      OBVIOUS
    <3>2. (pc[k] = "patching" /\ todo'[k] = todo[k]) \/ pc[k] = "activated"
      BY <1>0, <1>1, <3>1 DEF ResolveModules, ClearRescan, TryActivate, PreresolveOriginals,
                          SetRescan, Released, At, TypeOK
    <3> QED
      BY <1>0, <3>2 DEF ClaimAt, EmptyInv, Fresh
  <2> QED
    BY <1>0, <1>a, <2>1, <2>2, ClaimKept
<1>2. ASSUME NEW i \in Installs, PatchModule(i) PROVE ClaimAt(k)'
  <2>1. PICK m \in todo[i] : /\ todo' = [todo EXCEPT ![i] = todo[i] \ {m}]
                             /\ hooked' = [hooked EXCEPT ![i] = hooked[i] \cup {m}]
                             /\ guards' = [guards EXCEPT ![i] = Append(guards[i], GuardOf(m))]
    BY <1>2 DEF PatchModule
  <2>2. pc[i] = "patching" /\ UNCHANGED <<pc, taken>> /\ UNCHANGED tvars
    BY <1>2 DEF PatchModule
  <2>3. CASE k # i
    <3>1. todo'[k] = todo[k] /\ hooked'[k] = hooked[k] /\ guards'[k] = guards[k]
      BY <1>0, <2>1, <2>3 DEF TypeOK
    <3>2. pc'[k] = "patching" => todo'[k] \cap hooked[k] = {}
      BY <1>0, <2>2, <3>1 DEF ClaimAt
    <3> QED
      BY <1>0, <1>a, <2>2, <3>1, <3>2, ClaimKept
  <2>4. CASE k = i
    <3>1. m \in Modules /\ GuardOf(m) \in Guard /\ GuardOf(m).mod = m
      BY <1>0, GuardOfType DEF TypeOK, GuardOf
    <3>2. PICK g \in Guard : g = GuardOf(m)
      BY <3>1
    <3>3. /\ guards'[k] = Append(guards[k], g) /\ hooked'[k] = hooked[k] \cup {m}
          /\ todo'[k] = todo[k] \ {m} /\ taken'[k] = taken[k]
      BY <1>0, <2>1, <2>2, <2>4, <3>2 DEF TypeOK
    <3>4. m \notin hooked[k]
      BY <1>0, <2>2, <2>4 DEF ClaimAt
    <3>5. ~Has(guards[k], m) /\ ~Has(taken[k], m)
      BY <1>0, <3>1, <3>4 DEF ClaimAt
    <3>6. guards[k] \in Seq(Guard)
      BY <1>0 DEF TypeOK
    <3>7. /\ Apart(guards'[k])
          /\ \A n : Has(guards'[k], n) <=> Has(guards[k], n) \/ n = m
      BY <1>0, <3>1, <3>2, <3>3, <3>5, <3>6, OneMoreGuard DEF ClaimAt
    <3>8. \A t \in Threads : ~Working(t, k)'
      BY <1>0, <2>2, <2>4 DEF Working, HolderInv, Returned, tvars
    <3>9. todo'[k] \cap hooked'[k] = {}
      BY <1>0, <2>2, <2>4, <3>3 DEF ClaimAt
    <3>10. /\ Apart(taken'[k])
           /\ \A n \in Modules : /\ Has(guards'[k], n) => n \in hooked'[k] /\ ~Has(taken'[k], n)
                                 /\ Has(taken'[k], n) => n \in hooked'[k]
      BY <1>0, <3>3, <3>5, <3>7 DEF ClaimAt
    <3> QED
      BY <3>7, <3>8, <3>9, <3>10 DEF ClaimAt
  <2> QED
    BY <2>3, <2>4
<1>3. ASSUME NEW i \in Installs, PatchFails(i) \/ TakeGuards(i) \/ Deactivate(i)
      PROVE  ClaimAt(k)'
  <2>1. UNCHANGED <<todo, hooked>> /\ UNCHANGED tvars
    BY <1>3 DEF PatchFails, TakeGuards, Deactivate
  <2>2. pc'[k] = "patching" => pc[k] = "patching"
    BY <1>0, <1>3 DEF PatchFails, TakeGuards, Deactivate, At, TypeOK
  <2>3. taken[i] = <<>>
    BY <1>3 DEF PatchFails, TakeGuards, Deactivate, At, EmptyInv, Restoring
  <2>4. \/ guards'[k] = guards[k] /\ taken'[k] = taken[k]
        \/ guards'[k] = <<>> /\ taken'[k] = guards[k] /\ k = i
    <3>1. ASSUME taken' = [taken EXCEPT ![i] = guards[i]], guards' = [guards EXCEPT ![i] = <<>>]
          PROVE  \/ guards'[k] = guards[k] /\ taken'[k] = taken[k]
                 \/ guards'[k] = <<>> /\ taken'[k] = guards[k] /\ k = i
      BY <1>0, <3>1 DEF TypeOK
    <3>2. CASE PatchFails(i)
      BY <3>1, <3>2 DEF PatchFails
    <3>3. CASE TakeGuards(i)
      BY <3>1, <3>3 DEF TakeGuards
    <3>4. CASE Deactivate(i)
      BY <3>1, <3>4 DEF Deactivate
    <3> QED
      BY <1>3, <3>2, <3>3, <3>4
  <2>5. CASE guards'[k] = guards[k] /\ taken'[k] = taken[k]
    <3>1. pc'[k] = "patching" => todo'[k] \cap hooked[k] = {}
      BY <1>0, <2>1, <2>2 DEF ClaimAt
    <3> QED
      BY <1>0, <1>a, <2>1, <2>5, <3>1, ClaimKept
  <2>6. CASE guards'[k] = <<>> /\ taken'[k] = guards[k] /\ k = i
    <3>1. /\ Apart(guards'[k]) /\ \A n : ~Has(guards'[k], n)
      BY <2>6, NoGuards
    <3>2. \A t \in Threads : (Working(t, k)' <=> Working(t, k)) /\ tmod'[t] = tmod[t]
      BY <2>1 DEF tvars, Working
    <3> QED
      BY <1>0, <2>1, <2>2, <2>6, <3>1, <3>2 DEF ClaimAt
  <2> QED
    BY <2>4, <2>5, <2>6
<1>4. ASSUME NEW i \in Installs, UninstallOne(i) PROVE ClaimAt(k)'
  <2>1. /\ UNCHANGED <<pc, todo, hooked, guards>> /\ UNCHANGED tvars
        /\ taken[i] # <<>> /\ taken' = [taken EXCEPT ![i] = Tail(taken[i])]
    BY <1>4 DEF UninstallOne
  <2>2. taken[k] \in Seq(Guard)
    BY <1>0 DEF TypeOK
  <2>3. Apart(taken'[k]) /\ \A n : Has(taken'[k], n) => Has(taken[k], n)
    <3>1. CASE k # i
      BY <1>0, <2>1, <3>1 DEF TypeOK, ClaimAt
    <3>2. CASE k = i
      <4>1. taken'[k] = Tail(taken[k]) /\ taken[k] # <<>> /\ Apart(taken[k])
        BY <1>0, <2>1, <3>2 DEF TypeOK, ClaimAt
      <4> QED
        BY <2>2, <4>1, OneGuardLess
    <3> QED
      BY <3>1, <3>2
  <2>4. \A t \in Threads : (Working(t, k)' <=> Working(t, k)) /\ tmod'[t] = tmod[t]
    BY <2>1 DEF tvars, Working
  <2> QED
    BY <1>0, <2>1, <2>3, <2>4 DEF ClaimAt
<1>5. ASSUME NEW t \in Threads, NEW c \in Modules, NEW m \in Modules, Dlopen(t, c, m)
      PROVE  ClaimAt(k)'
  <2>1. /\ UNCHANGED <<pc, todo, taken, hooked, guards, tcb>> /\ tpc[t] = "idle"
        /\ tpc'[t] \in {"loaded", "idle"}
        /\ \A u \in Threads : u # t => tmod'[u] = tmod[u] /\ tpc'[u] = tpc[u]
    BY <1>0, <1>5 DEF Dlopen, ivars, TypeOK
  <2>2. \A u \in Threads : Working(u, k)' => Working(u, k) /\ tmod'[u] = tmod[u]
    BY <2>1 DEF Working
  <2> QED
    BY <1>0, <2>1, <2>2, ClaimKept DEF ClaimAt
<1>6. ASSUME NEW m \in Modules, Dlclose(m) PROVE ClaimAt(k)'
  <2>1. UNCHANGED <<pc, todo, taken, hooked, guards>> /\ UNCHANGED tvars
    BY <1>6 DEF Dlclose, ivars
  <2> QED
    BY <1>0, <1>a, <2>1, ClaimKept DEF ClaimAt
<1>7. ASSUME NEW t \in Threads,
             \/ TriggerRescan(t) \/ Enumerate(t) \/ PatchLateFails(t) \/ DropLate(t)
             \/ \E i \in Installs : ExplicitRescan(t, i)
      PROVE  ClaimAt(k)'
  <2>1. UNCHANGED <<pc, todo, taken, hooked, guards>>
    BY <1>7 DEF TriggerRescan, Enumerate, PatchLateFails, DropLate, ExplicitRescan, ivars
  <2>2. /\ tpc'[t] \notin {"patch", "push"}
        /\ \A u \in Threads : u # t => tmod'[u] = tmod[u] /\ tpc'[u] = tpc[u] /\ tcb'[u] = tcb[u]
    BY <1>0, <1>7 DEF TriggerRescan, Enumerate, PatchLateFails, DropLate,
           ExplicitRescan, TAt, TypeOK
  <2>3. \A u \in Threads : Working(u, k)' => Working(u, k) /\ tmod'[u] = tmod[u]
    BY <2>2 DEF Working
  <2> QED
    BY <1>0, <2>1, <2>3, ClaimKept DEF ClaimAt
<1>8. ASSUME NEW t \in Threads, Claim(t) PROVE ClaimAt(k)'
  <2>1. PICK m \in ttodo[t] :
          IF m \in hooked[tcb[t]]
            THEN UNCHANGED <<tpc, tmod, hooked>>
            ELSE /\ hooked' = [hooked EXCEPT ![tcb[t]] = hooked[tcb[t]] \cup {m}]
                 /\ tpc' = [tpc EXCEPT ![t] = "patch"]
                 /\ tmod' = [tmod EXCEPT ![t] = {m}]
    BY <1>8 DEF Claim
  <2>2. UNCHANGED <<pc, todo, taken, guards, tcb>> /\ tpc[t] = "scan"
    BY <1>8 DEF Claim, ivars
  <2>3. tcb[t] \in Installs /\ pc[tcb[t]] \in Returned
    BY <2>2 DEF HolderInv, Inv, ThreadInv
  <2>4. CASE m \in hooked[tcb[t]]
    <3>1. \A u \in Threads : Working(u, k)' => Working(u, k) /\ tmod'[u] = tmod[u]
      BY <2>1, <2>2, <2>4 DEF Working
    <3>2. hooked' = hooked
      BY <2>1, <2>4
    <3> QED
      BY <1>0, <2>2, <3>1, <3>2, ClaimKept DEF ClaimAt
  <2>5. CASE m \notin hooked[tcb[t]]
    <3>1. /\ tmod'[t] = {m} /\ tpc'[t] = "patch"
          /\ \A u \in Threads : u # t => tmod'[u] = tmod[u] /\ tpc'[u] = tpc[u]
          /\ \A j \in Installs : hooked'[j] = IF j = tcb[t] THEN hooked[j] \cup {m} ELSE hooked[j]
      <4>1. /\ hooked' = [hooked EXCEPT ![tcb[t]] = hooked[tcb[t]] \cup {m}]
            /\ tpc' = [tpc EXCEPT ![t] = "patch"]
            /\ tmod' = [tmod EXCEPT ![t] = {m}]
        BY <2>1, <2>5
      <4>2. DOMAIN hooked = Installs /\ DOMAIN tpc = Threads /\ DOMAIN tmod = Threads
        BY <1>0 DEF TypeOK
      <4>3. \A j \in Installs : hooked'[j] = IF j = tcb[t] THEN hooked[j] \cup {m} ELSE hooked[j]
        BY <4>1, <4>2
      <4> QED
        BY <4>1, <4>2, <4>3
    <3>2. m \in Modules
      BY <1>0 DEF TypeOK
    <3>3. CASE k # tcb[t]
      <4>1. \A u \in Threads : Working(u, k)' => Working(u, k) /\ tmod'[u] = tmod[u]
        BY <2>2, <3>1, <3>3 DEF Working
      <4>2. hooked'[k] = hooked[k]
        BY <3>1, <3>3
      <4> QED
        BY <1>0, <2>2, <4>1, <4>2, ClaimKept DEF ClaimAt
    <3>4. CASE k = tcb[t]
      <4>1. hooked'[k] = hooked[k] \cup {m} /\ m \notin hooked[k] /\ pc[k] # "patching"
        BY <2>3, <2>5, <3>1, <3>4 DEF Returned
      <4>2. ~Has(guards[k], m) /\ ~Has(taken[k], m)
        BY <1>0, <3>2, <4>1 DEF ClaimAt
      <4>3. ~Working(t, k)
        BY <2>2 DEF Working
      <4>4. \A u \in Threads : Working(u, k) => m \notin tmod[u]
        BY <1>0, <4>1 DEF ClaimAt
      <4>5. \A u \in Threads : u # t => (Working(u, k)' <=> Working(u, k)) /\ tmod'[u] = tmod[u]
        BY <2>2, <3>1 DEF Working
      <4>6. ASSUME NEW u \in Threads, Working(u, k)', NEW n \in tmod'[u]
            PROVE  /\ n \in hooked'[k] /\ ~Has(guards[k], n) /\ ~Has(taken[k], n)
                   /\ \A v \in Threads : v # u /\ Working(v, k)' => n \notin tmod'[v]
        <5>1. CASE u = t
          <6>1. n = m
            BY <3>1, <4>6, <5>1
          <6> QED
            BY <4>1, <4>2, <4>4, <4>5, <5>1, <6>1
        <5>2. CASE u # t
          <6>1. Working(u, k) /\ n \in tmod[u]
            BY <4>5, <4>6, <5>2
          <6>2. n # m
            BY <4>4, <6>1
          <6>3. /\ n \in hooked[k] /\ ~Has(guards[k], n) /\ ~Has(taken[k], n)
                /\ \A v \in Threads : v # u /\ Working(v, k) => n \notin tmod[v]
            BY <1>0, <6>1 DEF ClaimAt
          <6> QED
            BY <3>1, <4>1, <4>5, <6>2, <6>3
        <5> QED
          BY <5>1, <5>2
      <4> QED
        BY <1>0, <2>2, <4>1, <4>6 DEF ClaimAt
    <3> QED
      BY <3>3, <3>4
  <2> QED
    BY <2>4, <2>5
<1>9. ASSUME NEW t \in Threads, PatchLate(t) PROVE ClaimAt(k)'
  <2>1. /\ UNCHANGED <<pc, todo, taken, hooked, guards, tcb, tmod>>
        /\ tpc[t] = "patch" /\ tpc' = [tpc EXCEPT ![t] = "push"]
    BY <1>9 DEF PatchLate, TAt, ivars
  <2>2. \A u \in Threads : Working(u, k)' => Working(u, k) /\ tmod'[u] = tmod[u]
    BY <1>0, <2>1 DEF Working, TypeOK
  <2> QED
    BY <1>0, <2>1, <2>2, ClaimKept DEF ClaimAt
<1>10. ASSUME NEW t \in Threads, PushLate(t) PROVE ClaimAt(k)'
  <2>1. /\ UNCHANGED <<pc, todo, taken, hooked, tcb>>
        /\ tpc[t] = "push" /\ tpc' = [tpc EXCEPT ![t] = "scan"]
        /\ tmod' = [tmod EXCEPT ![t] = {}]
        /\ guards' = [guards EXCEPT ![tcb[t]] = guards[tcb[t]] \o tguard[t]]
    BY <1>10 DEF PushLate, TAt, ivars
  <2>2. \A u \in Threads : Working(u, k)' => u # t /\ Working(u, k) /\ tmod'[u] = tmod[u]
    BY <1>0, <2>1 DEF Working, TypeOK
  <2>3. PICK g \in Guard : tguard[t] = <<g>> /\ g.mod \in tmod[t]
    BY <2>1 DEF HolderInv
  <2>4. tcb[t] \in Installs
    BY <2>1 DEF Inv, ThreadInv
  <2>5. CASE k # tcb[t]
    <3>1. guards'[k] = guards[k]
      BY <1>0, <2>1, <2>5 DEF TypeOK
    <3> QED
      BY <1>0, <2>1, <2>2, <3>1, ClaimKept DEF ClaimAt
  <2>6. CASE k = tcb[t]
    <3>1. guards[k] \in Seq(Guard) /\ guards'[k] = guards[k] \o <<g>>
      BY <1>0, <2>1, <2>3, <2>6 DEF TypeOK
    <3>2. guards'[k] = Append(guards[k], g)
      BY <3>1, PushedGuard
    <3>3. Working(t, k)
      BY <2>1, <2>6 DEF Working
    <3>4. /\ g.mod \in hooked[k] /\ ~Has(guards[k], g.mod) /\ ~Has(taken[k], g.mod)
          /\ \A u \in Threads : u # t /\ Working(u, k) => g.mod \notin tmod[u]
      BY <1>0, <2>3, <3>3 DEF ClaimAt
    <3>5. /\ Apart(guards'[k])
          /\ \A n : Has(guards'[k], n) <=> Has(guards[k], n) \/ n = g.mod
      <4>1. Apart(guards[k]) /\ ~Has(guards[k], g.mod)
        BY <1>0, <3>4 DEF ClaimAt
      <4>2. guards[k] \in Seq(Guard)
        BY <3>1
      <4> QED
        BY <3>2, <4>1, <4>2, OneMoreGuard
    <3>6. \A n \in Modules : Has(guards'[k], n) => n \in hooked[k] /\ ~Has(taken[k], n)
      BY <1>0, <3>4, <3>5 DEF ClaimAt
    <3>7. ASSUME NEW u \in Threads, Working(u, k)', NEW n \in tmod'[u]
          PROVE  /\ n \in hooked[k] /\ ~Has(guards'[k], n) /\ ~Has(taken[k], n)
                 /\ \A v \in Threads : v # u /\ Working(v, k)' => n \notin tmod'[v]
      <4>1. u # t /\ Working(u, k) /\ n \in tmod[u]
        BY <2>2, <3>7
      <4>2. n # g.mod
        BY <3>4, <4>1
      <4>3. /\ n \in hooked[k] /\ ~Has(guards[k], n) /\ ~Has(taken[k], n)
            /\ \A v \in Threads : v # u /\ Working(v, k) => n \notin tmod[v]
        BY <1>0, <4>1 DEF ClaimAt
      <4> QED
        BY <2>2, <3>5, <4>2, <4>3
    <3> QED
      BY <1>0, <2>1, <3>5, <3>6, <3>7 DEF ClaimAt
  <2> QED
    BY <2>5, <2>6
<1>11. ASSUME NEW t \in Threads, EndRescan(t) PROVE ClaimAt(k)'
  <2>1. /\ UNCHANGED <<pc, todo, taken, hooked, tmod>> /\ tpc[t] = "scan"
        /\ tcb' = [tcb EXCEPT ![t] = None]
    BY <1>11 DEF EndRescan, ivars
  <2>2. \A u \in Threads : Working(u, k)' => Working(u, k) /\ tmod'[u] = tmod[u]
    BY <1>0, <1>11, <2>1 DEF EndRescan, Working, TypeOK
  <2>3. guards'[k] = guards[k] \/ guards'[k] = <<>>
    BY <1>0, <1>11 DEF EndRescan, TypeOK
  <2>4. CASE guards'[k] = guards[k]
    BY <1>0, <2>1, <2>2, <2>4, ClaimKept DEF ClaimAt
  <2>5. CASE guards'[k] = <<>>
    <3>1. Apart(guards'[k]) /\ \A n : ~Has(guards'[k], n)
      BY <2>5, NoGuards
    <3> QED
      BY <1>0, <2>1, <2>2, <3>1 DEF ClaimAt
  <2> QED
    BY <2>3, <2>4, <2>5
<1>12. CASE UNCHANGED vars
  <2>1. UNCHANGED <<pc, todo, taken, hooked, guards>> /\ UNCHANGED tvars
    BY <1>12 DEF vars, tvars
  <2> QED
    BY <1>0, <1>a, <2>1, ClaimKept DEF ClaimAt
<1> QED
  BY <1>1, <1>2, <1>3, <1>4, <1>5, <1>6, <1>7, <1>8, <1>9, <1>10, <1>11, <1>12
  DEF Next, Installing, Rescanning

-----------------------------------------------------------------------------
(* The way back of a patched slot. *)

LEMMA BackKept ==
  ASSUME BackInv,
         \A m \in Modules : m \in loaded' /\ slot'[m] = "shim" => m \in loaded /\ slot[m] = "shim",
         \A m \in Modules : m \in loaded' /\ slot'[m] = "shim" /\ InHand(First(m)) => InHand(First(m))'
  PROVE  BackInv'
BY DEF BackInv


(* A compare-exchange to the callee leaves no shim behind. *)
LEMMA RestoredBack ==
  ASSUME TypeOK, NEW g \in Guard, NEW m \in Modules, m \in loaded, Restored(g)[m] = "shim"
  PROVE  slot[m] = "shim" /\ g # First(m)
BY DEF Restored, TypeOK, Guard, Pointers, First

LEMMA BackStep == Inv /\ HolderInv /\ EmptyInv /\ BackInv /\ [Next]_vars => BackInv'
<1> SUFFICES ASSUME Inv, HolderInv, EmptyInv, BackInv, [Next]_vars PROVE BackInv'
  OBVIOUS
<1>0. TypeOK /\ TypeOK'
  BY GlobalsStep DEF Inv
<1> USE ScopeAssumption
<1>a. ASSUME UNCHANGED <<slot, loaded, guards, taken, tguard>> PROVE BackInv'
  BY <1>a DEF BackInv, InHand
<1>1. ASSUME NEW i \in Installs,
             \/ ResolveModules(i) \/ ClearRescan(i) \/ TryActivate(i) \/ PreresolveOriginals(i)
             \/ SetRescan(i) \/ Released(i)
      PROVE  BackInv'
  BY <1>1, <1>a DEF ResolveModules, ClearRescan, TryActivate, PreresolveOriginals, SetRescan,
                    Released, tvars
<1>2. ASSUME NEW i \in Installs, PatchModule(i) PROVE BackInv'
  <2>1. PICK m \in todo[i] : /\ slot' = Patched(m)
                             /\ guards' = [guards EXCEPT ![i] = Append(guards[i], GuardOf(m))]
    BY <1>2 DEF PatchModule
  <2>2. UNCHANGED <<loaded, taken, tguard>>
    BY <1>2 DEF PatchModule, tvars
  <2>3. m \in Modules /\ GuardOf(m) \in Guard
    BY <1>0, GuardOfType DEF TypeOK
  <2>4. PICK g \in Guard : g = GuardOf(m)
    BY <2>3
  <2>5. /\ \A h : In(guards'[i], h) <=> In(guards[i], h) \/ h = g
        /\ \A j \in Installs : j # i => guards'[j] = guards[j]
    <3>1. guards[i] \in Seq(Guard) /\ guards'[i] = Append(guards[i], g)
      BY <1>0, <2>1, <2>4 DEF TypeOK
    <3> QED
      BY <1>0, <2>1, <3>1, OneMoreGuard DEF TypeOK
  <2>6. \A h : InHand(h) \/ h = g => InHand(h)'
    BY <2>2, <2>5 DEF InHand
  <2>7. \A n \in Modules : n # m => slot'[n] = slot[n]
    BY <1>0, <2>1 DEF Patched, TypeOK
  <2>8. slot[m] = "shim" \/ g = First(m)
    BY <1>0, <2>3, <2>4 DEF GuardOf, First, TypeOK, Pointers
  <2> QED
    BY <2>2, <2>6, <2>7, <2>8 DEF BackInv
<1>3. ASSUME NEW i \in Installs, PatchFails(i) \/ TakeGuards(i) \/ Deactivate(i)
      PROVE  BackInv'
  <2>0. taken[i] = <<>>
    BY <1>3 DEF PatchFails, TakeGuards, Deactivate, At, EmptyInv, Restoring
  <2>1. UNCHANGED <<slot, loaded, tguard>>
    BY <1>3 DEF PatchFails, TakeGuards, Deactivate, tvars
  <2>2. \/ UNCHANGED <<guards, taken>>
        \/ taken' = [taken EXCEPT ![i] = guards[i]] /\ guards' = [guards EXCEPT ![i] = <<>>]
    BY <1>3 DEF PatchFails, TakeGuards, Deactivate
  <2>3. CASE taken' = [taken EXCEPT ![i] = guards[i]] /\ guards' = [guards EXCEPT ![i] = <<>>]
    <3>1. /\ taken'[i] = guards[i]
          /\ \A j \in Installs : j # i => taken'[j] = taken[j] /\ guards'[j] = guards[j]
      BY <1>0, <2>3 DEF TypeOK
    <3>2. ASSUME NEW h, InHand(h) PROVE InHand(h)'
      BY <2>0, <2>1, <3>1, <3>2, NoGuards DEF InHand
    <3> QED
      BY <2>1, <3>2, BackKept
  <2> QED
    BY <1>a, <2>1, <2>2, <2>3
<1>4. ASSUME NEW i \in Installs, UninstallOne(i) PROVE BackInv'
  <2>1. /\ UNCHANGED <<loaded, guards, tguard>> /\ taken[i] # <<>>
        /\ slot' = Restored(Head(taken[i])) /\ taken' = [taken EXCEPT ![i] = Tail(taken[i])]
    BY <1>4 DEF UninstallOne, tvars
  <2>2. taken[i] \in Seq(Guard) /\ Head(taken[i]) \in Guard
    BY <1>0, <2>1 DEF TypeOK
  <2>3. /\ taken'[i] = Tail(taken[i])
        /\ \A j \in Installs : j # i => taken'[j] = taken[j]
    BY <1>0, <2>1 DEF TypeOK
  <2>4. \A h : In(taken[i], h) => h = Head(taken[i]) \/ In(taken'[i], h)
    BY <2>1, <2>2, <2>3, OneGuardLess
  <2>5. ASSUME NEW m \in Modules, m \in loaded, slot'[m] = "shim"
        PROVE  slot[m] = "shim" /\ First(m) # Head(taken[i])
    BY <1>0, <2>1, <2>2, <2>5, RestoredBack
  <2>6. ASSUME NEW m \in Modules, m \in loaded, slot'[m] = "shim", InHand(First(m))
        PROVE  InHand(First(m))'
    BY <2>1, <2>3, <2>4, <2>5, <2>6 DEF InHand
  <2> QED
    BY <2>1, <2>5, <2>6, BackKept
<1>5. ASSUME NEW t \in Threads, NEW c \in Modules, NEW m \in Modules, Dlopen(t, c, m)
      PROVE  BackInv'
  <2>1. /\ UNCHANGED <<guards, taken, tguard>>
        /\ \A n \in Modules : n \in loaded' /\ slot'[n] = "shim" => n \in loaded /\ slot[n] = "shim"
    BY <1>0, <1>5 DEF Dlopen, ivars, TypeOK
  <2>2. ASSUME NEW h, InHand(h) PROVE InHand(h)'
    BY <2>1, <2>2 DEF InHand
  <2> QED
    BY <2>1, <2>2, BackKept
<1>6. ASSUME NEW m \in Modules, Dlclose(m) PROVE BackInv'
  <2>1. /\ UNCHANGED <<guards, taken, tguard, slot>>
        /\ \A n : n \in loaded' => n \in loaded
    BY <1>6 DEF Dlclose, ivars, tvars
  <2>2. ASSUME NEW h, InHand(h) PROVE InHand(h)'
    BY <2>1, <2>2 DEF InHand
  <2> QED
    BY <2>1, <2>2, BackKept
<1>7. ASSUME NEW t \in Threads,
             \/ TriggerRescan(t) \/ Enumerate(t) \/ Claim(t) \/ PatchLateFails(t)
             \/ \E i \in Installs : ExplicitRescan(t, i)
      PROVE  BackInv'
  <2>1. UNCHANGED <<slot, loaded, guards, taken, tguard>>
    BY <1>7 DEF TriggerRescan, Enumerate, Claim, PatchLateFails, ExplicitRescan, ivars
  <2> QED
    BY <1>a, <2>1
<1>8. ASSUME NEW t \in Threads, PatchLate(t) PROVE BackInv'
  <2>1. PICK m \in tmod[t] : slot' = Patched(m) /\ tguard' = [tguard EXCEPT ![t] = << GuardOf(m) >>]
    BY <1>8 DEF PatchLate
  <2>2. UNCHANGED <<loaded, taken, guards>> /\ tpc[t] = "patch"
    BY <1>8 DEF PatchLate, TAt, ivars
  <2>3. m \in Modules /\ GuardOf(m) \in Guard /\ tguard[t] = <<>>
    BY <1>0, <2>2, GuardOfType DEF TypeOK, HolderInv
  <2>4. PICK g \in Guard : g = GuardOf(m)
    BY <2>3
  <2>5. /\ tguard'[t] = <<g>>
        /\ \A u \in Threads : u # t => tguard'[u] = tguard[u]
    BY <1>0, <2>1, <2>4 DEF TypeOK
  <2>6. In(<<g>>, g)
    BY OneGuard
  <2>7. \A h : InHand(h) \/ h = g => InHand(h)'
    BY <2>2, <2>3, <2>5, <2>6, NoGuards DEF InHand
  <2>8. \A n \in Modules : n # m => slot'[n] = slot[n]
    BY <1>0, <2>1 DEF Patched, TypeOK
  <2>9. slot[m] = "shim" \/ g = First(m)
    BY <1>0, <2>3, <2>4 DEF GuardOf, First, TypeOK, Pointers
  <2> QED
    BY <2>2, <2>7, <2>8, <2>9 DEF BackInv
<1>9. ASSUME NEW t \in Threads, PushLate(t) PROVE BackInv'
  <2>1. /\ UNCHANGED <<slot, loaded, taken>> /\ tpc[t] = "push"
        /\ guards' = [guards EXCEPT ![tcb[t]] = guards[tcb[t]] \o tguard[t]]
        /\ tguard' = [tguard EXCEPT ![t] = <<>>]
    BY <1>9 DEF PushLate, TAt, ivars
  <2>2. PICK g \in Guard : tguard[t] = <<g>>
    BY <2>1 DEF HolderInv
  <2>3. PICK i \in Installs : i = tcb[t]
    BY <2>1 DEF Inv, ThreadInv
  <2>4. guards[i] \in Seq(Guard) /\ guards'[i] = guards[i] \o <<g>>
    BY <1>0, <2>1, <2>2, <2>3 DEF TypeOK
  <2>5. \A h : In(guards'[i], h) <=> In(guards[i], h) \/ h = g
    <3>1. guards'[i] = Append(guards[i], g)
      BY <2>4, PushedGuard
    <3>2. guards[i] \in Seq(Guard)
      BY <2>4
    <3> QED
      BY <3>1, <3>2, OneMoreGuard
  <2>6. /\ \A j \in Installs : j # i => guards'[j] = guards[j]
        /\ \A u \in Threads : u # t => tguard'[u] = tguard[u]
    BY <1>0, <2>1, <2>3 DEF TypeOK
  <2>7. \A h : In(tguard[t], h) => h = g
    BY <2>2, OneGuard
  <2>8. ASSUME NEW h, InHand(h) PROVE InHand(h)'
    BY <2>1, <2>5, <2>6, <2>7, <2>8 DEF InHand
  <2> QED
    BY <2>1, <2>8, BackKept
<1>10. ASSUME NEW t \in Threads, EndRescan(t) PROVE BackInv'
  <2>1. /\ UNCHANGED <<slot, loaded, taken>> /\ tpc[t] = "scan"
    BY <1>10 DEF EndRescan, ivars
  <2>2. tguard[t] = <<>>
    BY <2>1 DEF HolderInv
  <2>3. PICK i \in Installs : i = tcb[t]
    BY <2>1 DEF Inv, ThreadInv
  <2>4. /\ \A j \in Installs : j # i => guards'[j] = guards[j]
        /\ guards'[i] = guards[i] \/ tguard'[t] = guards[i]
        /\ \A u \in Threads : u # t => tguard'[u] = tguard[u]
    BY <1>0, <1>10, <2>3 DEF EndRescan, TypeOK
  <2>5. ASSUME NEW h, InHand(h) PROVE InHand(h)'
    BY <2>1, <2>2, <2>4, <2>5, NoGuards DEF InHand
  <2> QED
    BY <2>1, <2>5, BackKept
<1>11. ASSUME NEW t \in Threads, DropLate(t) PROVE BackInv'
  <2>1. UNCHANGED <<loaded, guards, taken>>
    BY <1>11 DEF DropLate, ivars
  <2>2. CASE tguard[t] = <<>>
    BY <1>11, <1>a, <2>1, <2>2 DEF DropLate
  <2>3. CASE tguard[t] # <<>>
    <3>1. slot' = Restored(Head(tguard[t])) /\ tguard' = [tguard EXCEPT ![t] = Tail(tguard[t])]
      BY <1>11, <2>3 DEF DropLate
    <3>2. tguard[t] \in Seq(Guard) /\ Head(tguard[t]) \in Guard
      BY <1>0, <2>3 DEF TypeOK
    <3>3. /\ tguard'[t] = Tail(tguard[t])
          /\ \A u \in Threads : u # t => tguard'[u] = tguard[u]
      BY <1>0, <3>1 DEF TypeOK
    <3>4. \A h : In(tguard[t], h) => h = Head(tguard[t]) \/ In(tguard'[t], h)
      BY <2>3, <3>2, <3>3, OneGuardLess
    <3>5. ASSUME NEW m \in Modules, m \in loaded, slot'[m] = "shim"
          PROVE  slot[m] = "shim" /\ First(m) # Head(tguard[t])
      BY <1>0, <3>1, <3>2, <3>5, RestoredBack
    <3>6. ASSUME NEW m \in Modules, m \in loaded, slot'[m] = "shim", InHand(First(m))
          PROVE  InHand(First(m))'
      BY <2>1, <3>3, <3>4, <3>5, <3>6 DEF InHand
    <3> QED
      BY <2>1, <3>5, <3>6, BackKept
  <2> QED
    BY <2>2, <2>3
<1>12. CASE UNCHANGED vars
  BY <1>12, <1>a DEF vars
<1> QED
  BY <1>1, <1>2, <1>3, <1>4, <1>5, <1>6, <1>7, <1>8, <1>9, <1>10, <1>11, <1>12
  DEF Next, Installing, Rescanning

-----------------------------------------------------------------------------

LEMMA HandInit == Init => HandInv
<1> SUFFICES ASSUME Init PROVE HandInv
  OBVIOUS
<1>1. Inv
  BY GlobalsInit
<1>2. HolderInv /\ EmptyInv
  BY DEF Init, HolderInv, EmptyInv, Fresh, Restoring
<1>3. ClaimInv
  BY NoGuards DEF Init, ClaimInv, Working
<1>4. BackInv
  BY DEF Init, BackInv
<1> QED
  BY <1>1, <1>2, <1>3, <1>4 DEF HandInv

LEMMA HandInvariant == Spec => []HandInv
<1>1. HandInv /\ [Next]_vars => HandInv'
  BY GlobalsStep, HolderStep, EmptyStep, ClaimStep, BackStep DEF HandInv
<1> QED
  BY <1>1, HandInit, PTL DEF Spec

(***************************************************************************)
(* No installation patches a module twice, however many rescans run and    *)
(* whenever they end: a base is claimed before the module is patched, and  *)
(* no two guards, claims or both are for the same base.                    *)
(***************************************************************************)
THEOREM PatchedOnlyOnce == Spec => []HookedOnce
<1>1. HandInv => HookedOnce
  <2> SUFFICES ASSUME HandInv, NEW i \in Installs
               PROVE  /\ \A j, k \in 1..Len(GuardsInHand(i)) :
                           GuardsInHand(i)[j].mod = GuardsInHand(i)[k].mod => j = k
                      /\ \A t, u \in Threads : t # u /\ tcb[t] = i /\ tcb[u] = i
                           /\ tpc[t] \in {"patch", "push"} /\ tpc[u] \in {"patch", "push"}
                           => tmod[t] \cap tmod[u] = {}
    BY DEF HookedOnce
  <2>1. guards[i] \in Seq(Guard) /\ taken[i] \in Seq(Guard)
    BY DEF HandInv, Inv, TypeOK
  <2>2. /\ Apart(guards[i]) /\ Apart(taken[i])
        /\ \A m \in Modules : Has(guards[i], m) => ~Has(taken[i], m)
    BY DEF HandInv, ClaimInv
  <2>3. Apart(GuardsInHand(i))
    BY <2>1, <2>2, TwoHands DEF GuardsInHand
  <2>4. ASSUME NEW t \in Threads, NEW u \in Threads, t # u, Working(t, i), Working(u, i)
        PROVE  tmod[t] \cap tmod[u] = {}
    BY <2>4 DEF HandInv, ClaimInv
  <2> QED
    BY <2>3, <2>4 DEF Working, Apart
<1> QED
  BY <1>1, HandInvariant, PTL

(***************************************************************************)
(* When the last installation and the last rescan are over, no slot of a   *)
(* loaded module holds a shim: somebody restored it, in whatever order the *)
(* guards of overlapping installations and late rescans were dropped.      *)
(***************************************************************************)
THEOREM NothingStaysPatched == Spec => []NothingLeftPatched
<1>1. HandInv => NothingLeftPatched
  <2> SUFFICES ASSUME HandInv,
                      \A i \in Installs : pc[i] \in {"idle", "resolved", "over"},
                      \A t \in Threads : tpc[t] \in {"idle", "loaded"},
                      NEW m \in loaded, slot[m] # "callee"
               PROVE  FALSE
    BY DEF NothingLeftPatched
  <2>1. m \in Modules /\ slot[m] = "shim"
    BY DEF HandInv, Inv, TypeOK, Pointers
  <2>2. InHand(First(m))
    BY <2>1 DEF HandInv, BackInv
  <2>3. \A t \in Threads : tguard[t] = <<>> /\ tcb[t] = None
    BY DEF HandInv, HolderInv
  <2>4. \A i \in Installs : taken[i] = <<>> /\ guards[i] = <<>>
    BY <2>3, ScopeAssumption DEF HandInv, EmptyInv, Restoring, Fresh
  <2> QED
    BY <2>2, <2>3, <2>4, NoGuards DEF InHand
<1> QED
  BY <1>1, HandInvariant, PTL
=============================================================================
