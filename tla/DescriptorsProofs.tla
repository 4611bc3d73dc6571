------------------------- MODULE DescriptorsProofs --------------------------
(***************************************************************************)
(* The descriptor shims, for any number of threads, descriptor numbers,    *)
(* streams and installations, and for every program: what a number leads   *)
(* to, who may write, where the cursor is and who waits for whom.          *)
(*                                                                         *)
(* The argument has three layers.  FrameInv says what a shim knows at each *)
(* of its steps, OwnerInv who may touch a descriptor number while it is in *)
(* nobody's hands, LockInv who may touch a cursor.                         *)
(***************************************************************************)
EXTENDS Descriptors, TLAPS

Opening == {"vfs", "carrier", "insert"}
Holding == {"io", "seek", "move", "restore"}     \* under the OpenFile's lock
WithStream == {"carrier", "insert", "lock"} \cup Holding

(* HookScope: the outermost call of a thread has the scope, a call from a  *)
(* provider never does and is on its way to the original function.         *)
HookInv ==
  \A p \in Procs :
    /\ Nested(p) => pc[p] \in {"idle", "orig"} /\ ~scope[p] /\ op[p] # "close"
                    /\ (pc[p] # "idle" => pc[Outer(p)] # "idle")
    /\ ~Nested(p) => (in_hook[Thread(p)] <=> pc[p] # "idle")
                     /\ (pc[p] # "idle" => scope[p])

(* What a call has got hold of at each of its steps. *)
FrameAt(p) ==
  /\ pc[p] \notin {"idle", "orig"} => eng[p] \in 1..published
  /\ pc[p] \in Opening => op[p] \in Opens
  /\ pc[p] = "lookup" => op[p] \in FdOps
  /\ pc[p] \in Holding \cup {"lock"} => op[p] \in Locking
  /\ \/ pc[p] \in Holding \cup {"insert", "lookup", "lock"}
     \/ pc[p] = "orig" /\ op[p] \in FdOps
     => fd[p] \in Fds
  /\ pc[p] \in WithStream => obj[p] \in 1..opened /\ home[obj[p]] = eng[p]

FrameInv == \A p \in Procs : FrameAt(p)

(* Engines and streams are numbered as they appear; a registry holds the   *)
(* streams its own engine opened.                                          *)
RegistryInv ==
  /\ engine <= published
  /\ \A o \in Streams : home[o] <= published
  /\ \A e \in Engines, f \in Fds :
       files[e][f] # 0 => files[e][f] <= opened /\ home[files[e][f]] = e

(* Between the open of a carrier and insert_file, and between the call of  *)
(* close and the original close, the number is the caller's alone.         *)
Closing(p) == op[p] = "close" /\ pc[p] \in {"lookup", "orig"}
Owner(p) == pc[p] = "insert" \/ Closing(p)

OwnerInv ==
  /\ \A p \in Procs : Owner(p) => held[fd[p]] = NotHeld
  /\ \A p \in Procs : pc[p] = "insert" => table[fd[p]] = "carrier"
  /\ \A p \in Procs : Closing(p) => table[fd[p]] # "free"
  /\ \A p, q \in Procs : Owner(p) /\ Owner(q) /\ fd[p] = fd[q] => p = q
  /\ \A f \in Fds : (held[f] \in Streams => table[f] = "carrier")
                    /\ (held[f] = Real => table[f] = "real")

(* A carrier is in somebody's hands. *)
CarrierInv ==
  \A f \in Fds : table[f] = "carrier" =>
    held[f] \in Streams \/ \E p \in Procs : Owner(p) /\ fd[p] = f

(* An entry of the active registry is what the program holds, or is about  *)
(* to be removed by the close that has already taken it out of its hands.  *)
EntryInv ==
  engine # 0 => \A f \in Fds : files[engine][f] # 0 =>
    /\ table[f] = "carrier"
    /\ \/ held[f] = files[engine][f]
       \/ /\ held[f] = NotHeld
          /\ \E p \in Procs : Closing(p) /\ pc[p] = "lookup" /\ eng[p] = engine /\ fd[p] = f

ServedInv ==
  \A f \in Fds : held[f] \in Streams =>
    home[held[f]] \in Engines /\ files[home[held[f]]][f] = held[f]

(* Write access is decided at the open and kept with the stream. *)
WriteInv ==
  /\ \A p \in Procs : pc[p] \in Opening /\ op[p] = "open_write" => AllowWrites[eng[p]]
  /\ \A o \in Streams : writable[o] => home[o] \in Engines /\ AllowWrites[home[o]]
  /\ \A p \in Procs : pc[p] \in Holding /\ op[p] \in Mutating => writable[obj[p]]

(* The lock is held exactly by the call that works on the stream. *)
LockInv ==
  /\ \A p \in Procs : pc[p] \in Holding => holder[obj[p]] = p
  /\ \A o \in Streams : holder[o] # NoProc =>
       pc[holder[o]] \in Holding /\ obj[holder[o]] = o

(* Where the cursor is at each step, unless a holder has panicked or a     *)
(* seek back has failed.                                                   *)
CursorInv ==
  /\ \A o \in Streams : holder[o] = NoProc /\ Dependable(o) => pos[o] = expect[o]
  /\ \A p \in Procs : pc[p] \in {"io", "seek"} /\ Dependable(obj[p])
                        => pos[obj[p]] = expect[obj[p]]
  /\ \A p \in Procs : pc[p] \in {"move", "restore"} /\ Dependable(obj[p])
                        => saved[p] = expect[obj[p]]

-----------------------------------------------------------------------------
(* Processes and types *)

(* A process is one of the two depths of a thread. *)
LEMMA ProcFacts ==
  ASSUME NEW p \in Procs
  PROVE  /\ p # NoProc /\ Thread(p) \in Threads
         /\ Outer(p) \in Procs /\ <<Thread(p), 2>> \in Procs
         /\ ~Nested(p) => p = Outer(p)
         /\ Nested(p) => p = <<Thread(p), 2>> /\ ~Nested(Outer(p)) /\ p # Outer(p)
         /\ Thread(Outer(p)) = Thread(p) /\ Nested(<<Thread(p), 2>>)
         /\ Outer(<<Thread(p), 2>>) = Outer(p)
<1>1. PICK t \in Threads, d \in {1, 2} : p = <<t, d>>
  BY DEF Procs
<1>2. p # NoProc
  BY <1>1 DEF NoProc
<1>. QED
  BY <1>1, <1>2 DEF Procs, Thread, Outer, Nested

(* Processes of one thread and one depth are the same. *)
LEMMA ProcEqual ==
  ASSUME NEW p \in Procs, NEW q \in Procs, Thread(p) = Thread(q), Nested(p) <=> Nested(q)
  PROVE  p = q
BY DEF Procs, Thread, Nested

(* The frames. *)
FrameType ==
  /\ in_hook \in [Threads -> BOOLEAN]
  /\ pc \in [Procs -> PC] /\ op \in [Procs -> Calls \cup {"none"}]
  /\ fd \in [Procs -> Fds \cup {NotHeld}]
  /\ eng \in [Procs -> 0..MaxEngines]
  /\ obj \in [Procs -> 0..MaxOpens]
  /\ saved \in [Procs -> Positions]
  /\ scope \in [Procs -> BOOLEAN]

(* Frames that nobody touches stay well typed. *)
LEMMA FramesKept ==
  ASSUME TypeOK, UNCHANGED <<in_hook, pc, op, fd, eng, obj, saved, scope, program>>
  PROVE  FrameType'
<1>1. Positions' = Positions
  BY DEF Positions
<1>. QED
  BY <1>1 DEF TypeOK, FrameType

(* Registry::insert_file and remove_file: one entry changes. *)
LEMMA FilesEntry ==
  ASSUME TypeOK, NEW e \in Engines, NEW f \in Fds, NEW v \in 0..MaxOpens
  PROVE  LET new == [files EXCEPT ![e][f] = v]
         IN  /\ new \in [Engines -> [Fds -> 0..MaxOpens]]
             /\ \A d \in Engines, g \in Fds :
                  new[d][g] = IF d = e /\ g = f THEN v ELSE files[d][g]
<1> DEFINE row == [files[e] EXCEPT ![f] = v]
<1>1. files \in [Engines -> [Fds -> 0..MaxOpens]] /\ files[e] \in [Fds -> 0..MaxOpens]
  BY DEF TypeOK
<1>2. row \in [Fds -> 0..MaxOpens] /\ \A g \in Fds : row[g] = IF g = f THEN v ELSE files[e][g]
  BY <1>1
<1>3. [files EXCEPT ![e][f] = v] = [files EXCEPT ![e] = row]
  OBVIOUS
<1>. QED
  BY <1>1, <1>2, <1>3

(* A call that begins, returns or goes on leaves the frames well typed. *)
LEMMA BeginType ==
  ASSUME TypeOK, NEW p \in Procs, NEW o \in Calls, NEW f \in Fds \cup {NotHeld},
         NEW next \in PC, Begin(p, o, f, next), program' = program
  PROVE  FrameType'
<1>1. "orig" \in PC /\ Positions' = Positions
  BY DEF PC, Positions
<1>2. scope' \in [Procs -> BOOLEAN]
  <2>1. Enters(p) \in BOOLEAN
    BY DEF Enters
  <2>. QED
    BY <2>1, Zenon DEF Begin, TypeOK
<1>3. in_hook' \in [Threads -> BOOLEAN]
  BY Zenon DEF Begin, TypeOK
<1>4. pc' \in [Procs -> PC] /\ eng' \in [Procs -> 0..MaxEngines]
  BY <1>1, BoundsAssumption DEF Begin, TypeOK
<1>5. op' \in [Procs -> Calls \cup {"none"}] /\ fd' \in [Procs -> Fds \cup {NotHeld}]
  BY DEF Begin, TypeOK
<1>. QED
  BY <1>1, <1>2, <1>3, <1>4, <1>5 DEF Begin, TypeOK, FrameType

LEMMA ReturnType ==
  ASSUME TypeOK, NEW p \in Procs, Return(p), program' = program
  PROVE  FrameType'
<1>1. 0 \in Positions /\ Positions' = Positions /\ "idle" \in PC
  BY ProgramAssumption DEF TypeOK, Positions, PC
<1>2. scope' \in [Procs -> BOOLEAN]
  BY Zenon DEF Return, TypeOK
<1>3. in_hook' \in [Threads -> BOOLEAN]
  BY Zenon DEF Return, TypeOK
<1>4. pc' \in [Procs -> PC] /\ eng' \in [Procs -> 0..MaxEngines]
  BY <1>1, BoundsAssumption DEF Return, TypeOK
<1>5. op' \in [Procs -> Calls \cup {"none"}] /\ fd' \in [Procs -> Fds \cup {NotHeld}]
  BY DEF Return, TypeOK
<1>6. obj' \in [Procs -> 0..MaxOpens] /\ saved' \in [Procs -> Positions]
  BY <1>1, BoundsAssumption DEF Return, TypeOK
<1>. QED
  BY <1>1, <1>2, <1>3, <1>4, <1>5, <1>6 DEF FrameType

LEMMA GotoType ==
  ASSUME TypeOK, NEW p \in Procs, NEW to \in PC, Goto(p, to), program' = program
  PROVE  /\ in_hook' \in [Threads -> BOOLEAN]
         /\ pc' \in [Procs -> PC] /\ op' \in [Procs -> Calls \cup {"none"}]
         /\ eng' \in [Procs -> 0..MaxEngines] /\ scope' \in [Procs -> BOOLEAN]
BY DEF Goto, TypeOK

(* What a shared structure may become, apart from the frames. *)
SharedType ==
  /\ engine \in 0..MaxEngines /\ published \in 0..MaxEngines
  /\ files \in [Engines -> [Fds -> 0..MaxOpens]]
  /\ table \in [Fds -> Kinds]
  /\ held \in [Fds -> Holdings]
  /\ opened \in 0..MaxOpens
  /\ home \in [Streams -> 0..MaxEngines]
  /\ writable \in [Streams -> BOOLEAN]
  /\ pos \in [Streams -> Positions] /\ expect \in [Streams -> Positions]
  /\ holder \in [Streams -> Procs \cup {NoProc}]
  /\ poisoned \in [Streams -> BOOLEAN] /\ strayed \in [Streams -> BOOLEAN]
  /\ panics \in 0..program.panics /\ program \in Programs

LEMMA TypeParts == /\ TypeOK <=> SharedType /\ FrameType
                   /\ TypeOK' <=> SharedType' /\ FrameType'
BY DEF TypeOK, SharedType, FrameType

(* The numbers a position, a transfer and a count range over. *)
LEMMA ProgramFacts ==
  ASSUME TypeOK
  PROVE  /\ program.reach \in Nat /\ program.panics \in Nat
         /\ program.fds \subseteq Fds
         /\ program.opens \in 0..MaxOpens /\ program.engines \in 0..MaxEngines
         /\ program.calls \in [Threads -> SUBSET Calls]
BY ProgramAssumption DEF TypeOK

(* Each step of a call preserves type correctness.  One step per action. *)
LEMMA TypeStep == TypeOK /\ FrameInv /\ [Next]_vars => TypeOK'
<1> SUFFICES ASSUME TypeOK, FrameInv, [Next]_vars PROVE TypeOK'
  OBVIOUS
<1> USE ProgramFacts, BoundsAssumption DEF routing, streams, cursors, locks, Engines, Streams
<1>t. SharedType /\ FrameType /\ (SharedType' /\ FrameType' => TypeOK')
  BY TypeParts
<1>c. /\ \A at \in {"idle", "vfs", "carrier", "insert", "lookup", "lock", "io", "seek", "move",
                    "restore", "orig"} : at \in PC
      /\ Opens \subseteq Calls /\ FdOps \subseteq Calls
  BY DEF PC, Calls
<1>f. ASSUME NEW p \in Procs
      PROVE  /\ pc[p] \notin {"idle", "orig"} => eng[p] \in Engines
             /\ pc[p] \in Holding => obj[p] \in Streams
             /\ pc[p] = "insert" => fd[p] \in Fds /\ obj[p] \in Streams
             /\ pc[p] = "lookup" => fd[p] \in Fds
  BY DEF FrameInv, FrameAt, TypeOK, WithStream, Holding
<1>1. ASSUME try_activate PROVE TypeOK'
  <2>1. FrameType'
    BY <1>1, FramesKept DEF try_activate
  <2>2. engine' \in 0..MaxEngines /\ published' \in 0..MaxEngines
    BY <1>1, <1>t DEF try_activate, SharedType
  <2>3. UNCHANGED <<files, table, held, opened, home, writable, pos, expect, holder, poisoned, strayed,
                    panics, program>>
    BY <1>1 DEF try_activate
  <2>. QED
    BY <1>t, <2>1, <2>2, <2>3 DEF SharedType, Positions
<1>2. ASSUME deactivate PROVE TypeOK'
  <2>1. FrameType'
    BY <1>2, FramesKept DEF deactivate
  <2>2. engine' \in 0..MaxEngines /\ published' \in 0..MaxEngines
    BY <1>2, <1>t DEF deactivate, SharedType
  <2>3. UNCHANGED <<files, table, held, opened, home, writable, pos, expect, holder, poisoned, strayed,
                    panics, program>>
    BY <1>2 DEF deactivate
  <2>. QED
    BY <1>t, <2>1, <2>2, <2>3 DEF SharedType, Positions
<1>3. ASSUME NEW p \in Procs, NEW o \in Opens, open_impl(p, o) PROVE TypeOK'
  <2>1. FrameType'
    BY <1>3, <1>c, BeginType DEF open_impl
  <2>. QED
    BY <1>3, <1>t, <2>1 DEF open_impl, SharedType, Positions
<1>4. ASSUME NEW p \in Procs, NEW o \in FdOps, NEW f \in Fds, CallFd(p, o, f) PROVE TypeOK'
  <2>1. FrameType'
    BY <1>4, <1>c, BeginType DEF CallFd
  <2>2. held' \in [Fds -> Holdings]
    BY <1>4, <1>t DEF CallFd, SharedType, Holdings
  <2>. QED
    BY <1>4, <1>t, <2>1, <2>2 DEF CallFd, SharedType, Positions
<1>5. ASSUME NEW p \in Procs, OpenStream(p) PROVE TypeOK'
  <2>1. CASE Return(p) /\ UNCHANGED streams
    BY <1>5, <2>1, <1>t, ReturnType DEF OpenStream, SharedType, Positions
  <2>2. CASE ~(Return(p) /\ UNCHANGED streams)
    <3>1. /\ opened < program.opens /\ opened' = opened + 1
          /\ home' = [home EXCEPT ![opened + 1] = eng[p]]
          /\ writable' = [writable EXCEPT ![opened + 1] = (op[p] = "open_write")]
          /\ obj' = [obj EXCEPT ![p] = opened + 1]
          /\ Goto(p, "carrier") /\ UNCHANGED <<fd, saved>>
      BY <1>5, <2>2 DEF OpenStream
    <3>2. writable' \in [Streams -> BOOLEAN]
      BY <3>1, <1>t, Zenon DEF SharedType
    <3>3. /\ opened' \in 0..MaxOpens /\ home' \in [Streams -> 0..MaxEngines]
          /\ obj' \in [Procs -> 0..MaxOpens]
      BY <3>1, <1>t DEF SharedType, FrameType
    <3>4. FrameType'
      BY <3>1, <3>3, <1>t, <1>c, <1>5, GotoType DEF OpenStream, FrameType, Positions
    <3>. QED
      BY <1>5, <3>2, <3>3, <3>4, <1>t DEF OpenStream, SharedType, Positions
  <2>. QED
    BY <2>1, <2>2
<1>6. ASSUME NEW p \in Procs, carrier_fd(p) PROVE TypeOK'
  <2>1. table' \in [Fds -> Kinds]
    BY <1>6, <1>t DEF carrier_fd, SharedType, Kinds
  <2>2. FrameType'
    <3>1. CASE Return(p)
      BY <3>1, <1>6, ReturnType DEF carrier_fd
    <3>2. CASE ~Return(p)
      BY <3>2, <1>6, <1>t, <1>c, GotoType DEF carrier_fd, FrameType, Positions
    <3>. QED
      BY <3>1, <3>2
  <2>. QED
    BY <1>6, <1>t, <2>1, <2>2 DEF carrier_fd, SharedType, Positions
<1>7. ASSUME NEW p \in Procs, insert_file(p) PROVE TypeOK'
  <2>1. FrameType'
    BY <1>7, ReturnType DEF insert_file
  <2>2. obj[p] \in Streams /\ fd[p] \in Fds /\ eng[p] \in Engines
    BY <1>7, <1>f DEF insert_file, Running
  <2>3. files' \in [Engines -> [Fds -> 0..MaxOpens]]
    BY <1>7, <2>2, FilesEntry DEF insert_file
  <2>4. held' \in [Fds -> Holdings]
    BY <1>7, <1>t, <2>2 DEF insert_file, SharedType, Holdings
  <2>. QED
    BY <1>7, <1>t, <2>1, <2>3, <2>4 DEF insert_file, SharedType, Positions
<1>8. ASSUME NEW p \in Procs, get_file(p) PROVE TypeOK'
  <2>1. Entry(p) \in 0..MaxOpens
    <3>1. eng[p] \in Engines /\ fd[p] \in Fds
      BY <1>8, <1>f DEF get_file, Running
    <3>2. files \in [Engines -> [Fds -> 0..MaxOpens]]
      BY <1>t DEF SharedType
    <3>. QED
      BY <3>1, <3>2 DEF Entry
  <2>2. obj' \in [Procs -> 0..MaxOpens]
    BY <1>8, <2>1, <1>t DEF get_file, FrameType
  <2>3. FrameType'
    BY <2>2, <1>8, <1>t, <1>c, GotoType DEF get_file, FrameType, Positions
  <2>. QED
    BY <1>8, <1>t, <2>3 DEF get_file, SharedType, Positions
<1>9. ASSUME NEW p \in Procs, Answer(p) PROVE TypeOK'
  <2>1. FrameType'
    <3>1. CASE Return(p)
      BY <3>1, <1>9, ReturnType DEF Answer
    <3>2. CASE ~Return(p)
      BY <3>2, <1>9, <1>t, <1>c, GotoType DEF Answer, FrameType, Positions
    <3>. QED
      BY <3>1, <3>2
  <2>. QED
    BY <1>9, <1>t, <2>1 DEF Answer, SharedType, Positions
<1>10. ASSUME NEW p \in Procs, remove_file(p) PROVE TypeOK'
  <2>1. FrameType'
    BY <1>10, <1>t, <1>c, GotoType DEF remove_file, FrameType, Positions
  <2>2. files' \in [Engines -> [Fds -> 0..MaxOpens]]
    <3>1. eng[p] \in Engines /\ fd[p] \in Fds
      BY <1>10, <1>f DEF remove_file, Running
    <3>. QED
      BY <1>10, <3>1, FilesEntry DEF remove_file
  <2>. QED
    BY <1>10, <1>t, <2>1, <2>2 DEF remove_file, SharedType, Positions
<1>11. ASSUME NEW p \in Procs, Original(p) PROVE TypeOK'
  <2>1. FrameType'
    BY <1>11, ReturnType DEF Original
  <2>2. table' \in [Fds -> Kinds] /\ held' \in [Fds -> Holdings]
    BY <1>11, <1>t DEF Original, SharedType, Kinds, Holdings
  <2>. QED
    BY <1>11, <1>t, <2>1, <2>2 DEF Original, SharedType, Positions
<1>12. ASSUME NEW p \in Procs, Refuse(p) PROVE TypeOK'
  BY <1>12, <1>t, ReturnType DEF Refuse, SharedType, Positions
<1>13. ASSUME NEW p \in Procs, Lock(p) PROVE TypeOK'
  <2>1. FrameType'
    BY <1>13, <1>t, <1>c, GotoType DEF Lock, FrameType, Positions
  <2>2. holder' \in [Streams -> Procs \cup {NoProc}]
    BY <1>13, <1>t DEF Lock, SharedType
  <2>. QED
    BY <1>13, <1>t, <2>1, <2>2 DEF Lock, SharedType, Positions
<1>14. ASSUME NEW p \in Procs, fchmod(p) PROVE TypeOK'
  <2>1. FrameType'
    <3>1. CASE Return(p)
      BY <3>1, <1>14, ReturnType DEF fchmod
    <3>2. CASE ~Return(p)
      BY <3>2, <1>14, <1>t, <1>c, GotoType DEF fchmod, FrameType, Positions
    <3>. QED
      BY <3>1, <3>2
  <2>. QED
    BY <1>14, <1>t, <2>1 DEF fchmod, SharedType, Positions
<1>h. ASSUME NEW p \in Procs, Unlock(p) PROVE holder' \in [Streams -> Procs \cup {NoProc}]
  BY <1>h, <1>t DEF Unlock, SharedType
<1>p. ASSUME NEW p \in Procs, pc[p] \in Holding
      PROVE  pos[obj[p]] \in Positions /\ expect[obj[p]] \in Positions /\ saved[p] \in Positions
  BY <1>p, <1>t, <1>f DEF SharedType, FrameType
<1>q. ASSUME NEW o, NEW to \in Positions, UNCHANGED program
      PROVE  /\ [pos EXCEPT ![o] = to] \in [Streams -> Positions']
             /\ [expect EXCEPT ![o] = to] \in [Streams -> Positions']
  BY <1>t, <1>q DEF SharedType, Positions
<1>r. ASSUME NEW p \in Procs, pc[p] \in Holding, NEW n \in Int, Advance(p, n), UNCHANGED program,
             pos[obj[p]] + n \in Positions, expect[obj[p]] + n \in Positions
      PROVE  pos' \in [Streams -> Positions'] /\ expect' \in [Streams -> Positions']
  BY <1>r, <1>q DEF Advance
<1>15. ASSUME NEW p \in Procs, read(p) PROVE TypeOK'
  <2>1. PICK n \in Room(pos[obj[p]]) \cap Room(expect[obj[p]]) : Advance(p, n)
    BY <1>15 DEF read
  <2>2. pos' \in [Streams -> Positions'] /\ expect' \in [Streams -> Positions']
    <3>1. pc[p] \in Holding /\ UNCHANGED program
      BY <1>15 DEF read, Running, Holding
    <3>2. n \in Int /\ pos[obj[p]] + n \in Positions /\ expect[obj[p]] + n \in Positions
      BY <3>1, <1>p DEF Room, Positions
    <3>. QED
      BY <2>1, <3>1, <3>2, <1>r
  <2>. QED
    BY <1>15, <1>t, <1>h, <2>2, ReturnType DEF read, SharedType
<1>16. ASSUME NEW p \in Procs, write(p) PROVE TypeOK'
  <2>1. PICK n \in Room(pos[obj[p]]) \cap Room(expect[obj[p]]) : Advance(p, n)
    BY <1>16 DEF write
  <2>2. pos' \in [Streams -> Positions'] /\ expect' \in [Streams -> Positions']
    <3>1. pc[p] \in Holding /\ UNCHANGED program
      BY <1>16 DEF write, Running, Holding
    <3>2. n \in Int /\ pos[obj[p]] + n \in Positions /\ expect[obj[p]] + n \in Positions
      BY <3>1, <1>p DEF Room, Positions
    <3>. QED
      BY <2>1, <3>1, <3>2, <1>r
  <2>. QED
    BY <1>16, <1>t, <1>h, <2>2, ReturnType DEF write, SharedType
<1>17. ASSUME NEW p \in Procs, lseek(p) PROVE TypeOK'
  <2>1. pos' \in [Streams -> Positions'] /\ expect' \in [Streams -> Positions']
    <3>1. ASSUME NEW to \in Positions, pos' = [pos EXCEPT ![obj[p]] = to],
                 expect' = [expect EXCEPT ![obj[p]] = to]
          PROVE  pos' \in [Streams -> Positions'] /\ expect' \in [Streams -> Positions']
      BY <3>1, <1>q, <1>17 DEF lseek
    <3>2. ASSUME NEW n \in -program.reach..program.reach,
                 pos[obj[p]] + n \in Positions, expect[obj[p]] + n \in Positions, Advance(p, n)
          PROVE  pos' \in [Streams -> Positions'] /\ expect' \in [Streams -> Positions']
      BY <3>2, <1>r, <1>17 DEF lseek, Running, Holding
    <3>. QED
      BY <3>1, <3>2, <1>17 DEF lseek
  <2>2. strayed' \in [Streams -> BOOLEAN]
    BY <1>17, <1>t, Zenon DEF lseek, SharedType
  <2>. QED
    BY <1>17, <1>t, <1>h, <2>1, <2>2, ReturnType DEF lseek, SharedType
<1>18. ASSUME NEW p \in Procs, ftruncate_fd(p) PROVE TypeOK'
  BY <1>18, <1>t, <1>h, ReturnType DEF ftruncate_fd, SharedType, Positions
<1>19. ASSUME NEW p \in Procs, fsync(p) PROVE TypeOK'
  BY <1>19, <1>t, <1>h, ReturnType DEF fsync, SharedType, Positions
<1>20. ASSUME NEW p \in Procs, NEW targets \in SUBSET Positions, SaveAndSeek(p, targets)
       PROVE  TypeOK'
  <2>1. saved' \in [Procs -> Positions']
    BY <1>20, <1>t, <1>p DEF SaveAndSeek, Running, Holding, FrameType, Positions
  <2>2. pos' \in [Streams -> Positions'] /\ expect' \in [Streams -> Positions']
    BY <1>20, <1>t, <1>q DEF SaveAndSeek, SharedType, Positions
  <2>3. FrameType'
    BY <1>20, <1>t, <1>c, <2>1, GotoType DEF SaveAndSeek, FrameType
  <2>. QED
    BY <1>20, <1>t, <2>2, <2>3 DEF SaveAndSeek, SharedType
<1>21. ASSUME NEW p \in Procs, pread(p) \/ pwrite(p) \/ fstat(p) PROVE TypeOK'
  BY <1>20, <1>21 DEF pread, pwrite, fstat
<1>22. ASSUME NEW p \in Procs, Transfer(p) PROVE TypeOK'
  <2>1. PICK n \in IF op[p] = "fstat" THEN {0} ELSE Room(pos[obj[p]]) :
               pos' = [pos EXCEPT ![obj[p]] = @ + n]
    BY <1>22 DEF Transfer
  <2>2. pos[obj[p]] + n \in Positions
    BY <2>1, <1>22, <1>p DEF Transfer, Running, Room, Holding, Positions
  <2>3. pos' \in [Streams -> Positions'] /\ expect' \in [Streams -> Positions']
    BY <1>22, <1>t, <2>1, <2>2, <1>q DEF Transfer, SharedType, Positions
  <2>4. FrameType'
    BY <1>22, <1>t, <1>c, GotoType DEF Transfer, FrameType, Positions
  <2>. QED
    BY <1>22, <1>t, <2>3, <2>4 DEF Transfer, SharedType
<1>23. ASSUME NEW p \in Procs, SeekBack(p) PROVE TypeOK'
  <2>1. pos' \in [Streams -> Positions'] /\ expect' \in [Streams -> Positions']
    BY <1>23, <1>t, <1>p, <1>q DEF SeekBack, Running, Holding, SharedType, Positions
  <2>2. strayed' \in [Streams -> BOOLEAN]
    BY <1>23, <1>t, Zenon DEF SeekBack, SharedType
  <2>. QED
    BY <1>23, <1>t, <1>h, <2>1, <2>2, ReturnType DEF SeekBack, SharedType
<1>24. ASSUME NEW p \in Procs, Panic(p) PROVE TypeOK'
  <2>1. poisoned' \in [Streams -> BOOLEAN]
    BY <1>24, <1>t, Zenon DEF Panic, SharedType
  <2>2. holder' \in [Streams -> Procs \cup {NoProc}]
    BY <1>24, <1>t, <1>h DEF Panic, SharedType
  <2>3. Return(p) /\ UNCHANGED <<routing, files, table, held, streams, cursors>>
        /\ panics' \in 0..program.panics
    BY <1>24, <1>t DEF Panic, SharedType
  <2>. QED
    BY <1>t, <2>1, <2>2, <2>3, ReturnType DEF SharedType, Positions
<1>25. CASE UNCHANGED vars
  BY <1>25, <1>t DEF vars, SharedType, FrameType, Positions
<1>. QED
  BY <1>1, <1>2, <1>3, <1>4, <1>5, <1>6, <1>7, <1>8, <1>9, <1>10, <1>11, <1>12, <1>13, <1>14,
     <1>15, <1>16, <1>17, <1>18, <1>19, <1>21, <1>22, <1>23, <1>24, <1>25
     DEF Next, Step, fstatvfs, fdopendir, sendfile

-----------------------------------------------------------------------------
(* HookScope *)

(* A call from a provider finds the flag of its thread set. *)
LEMMA HookBegin ==
  ASSUME TypeOK, HookInv, NEW p \in Procs, NEW o, NEW f, NEW next, next # "idle",
         MayCall(p), Begin(p, o, f, next), Nested(p) => o # "close"
  PROVE  HookInv'
<1>1. pc[p] = "idle" /\ (Nested(p) => pc[Outer(p)] # "idle")
  BY DEF MayCall, InProvider
<1>2. Enters(p) <=> ~Nested(p)
  BY <1>1, ProcFacts DEF HookInv, Enters
<1>3. pc' = [pc EXCEPT ![p] = IF Enters(p) /\ engine # 0 THEN next ELSE "orig"]
      /\ pc'[p] # "idle" /\ (Nested(p) => pc'[p] = "orig")
  BY <1>2 DEF Begin, TypeOK
<1>4. op'[p] = o /\ (scope'[p] <=> ~Nested(p)) /\ in_hook'[Thread(p)]
  BY <1>2, ProcFacts DEF Begin, TypeOK
<1>5. ASSUME NEW q \in Procs, q # p
      PROVE  pc'[q] = pc[q] /\ op'[q] = op[q] /\ scope'[q] = scope[q]
  BY <1>5, <1>3 DEF Begin, TypeOK
<1>6. ASSUME NEW q \in Procs
      PROVE  in_hook'[Thread(q)] = IF Thread(q) = Thread(p) THEN TRUE ELSE in_hook[Thread(q)]
  BY ProcFacts DEF Begin, TypeOK
<1>7. ASSUME NEW q \in Procs, Nested(q)
      PROVE  pc'[q] \in {"idle", "orig"} /\ ~scope'[q] /\ op'[q] # "close"
             /\ (pc'[q] # "idle" => pc'[Outer(q)] # "idle")
  <2>1. CASE q = p
    BY <2>1, <1>7, <1>1, <1>3, <1>4, <1>5, ProcFacts
  <2>2. CASE q # p
    BY <2>2, <1>7, <1>3, <1>5, ProcFacts DEF HookInv
  <2>. QED
    BY <2>1, <2>2
<1>8. ASSUME NEW q \in Procs, ~Nested(q)
      PROVE  (in_hook'[Thread(q)] <=> pc'[q] # "idle") /\ (pc'[q] # "idle" => scope'[q])
  <2>1. CASE q = p
    BY <2>1, <1>8, <1>3, <1>4
  <2>2. CASE q # p
    <3>1. Thread(q) = Thread(p) => Nested(p) /\ q = Outer(p)
      BY <2>2, <1>8, ProcFacts, ProcEqual
    <3>. QED
      BY <2>2, <3>1, <1>8, <1>1, <1>5, <1>6 DEF HookInv
  <2>. QED
    BY <2>1, <2>2
<1>. QED
  BY <1>7, <1>8 DEF HookInv

(* The drop of the scope clears the flag when the thread leaves its        *)
(* outermost call, and only then.                                          *)
LEMMA HookReturn ==
  ASSUME TypeOK, HookInv, NEW p \in Procs, NEW at, at # "idle", Running(p, at), Return(p)
  PROVE  HookInv'
<1>1. pc[p] # "idle" /\ (~Nested(p) => pc[<<Thread(p), 2>>] = "idle")
  BY DEF Running
<1>2. pc'[p] = "idle" /\ ~scope'[p] /\ op'[p] = "none"
  BY DEF Return, TypeOK
<1>3. ASSUME NEW q \in Procs, q # p
      PROVE  pc'[q] = pc[q] /\ op'[q] = op[q] /\ scope'[q] = scope[q]
  BY <1>3 DEF Return, TypeOK
<1>4. scope[p] <=> ~Nested(p)
  BY <1>1 DEF HookInv
<1>5. ASSUME NEW q \in Procs
      PROVE  in_hook'[Thread(q)] = IF Thread(q) = Thread(p) /\ ~Nested(p) THEN FALSE
                                   ELSE in_hook[Thread(q)]
  BY <1>4, ProcFacts DEF Return, TypeOK
<1>6. ASSUME NEW q \in Procs, Nested(q)
      PROVE  pc'[q] \in {"idle", "orig"} /\ ~scope'[q] /\ op'[q] # "close"
             /\ (pc'[q] # "idle" => pc'[Outer(q)] # "idle")
  <2>1. CASE q = p
    BY <2>1, <1>2
  <2>2. CASE q # p
    <3>1. Outer(q) = p => pc[q] = "idle"
      <4>1. q = <<Thread(q), 2>> /\ ~Nested(Outer(q)) /\ Thread(Outer(q)) = Thread(q)
        BY <1>6, ProcFacts
      <4>. QED
        BY <4>1, <1>1
    <3>. QED
      BY <2>2, <3>1, <1>6, <1>2, <1>3, ProcFacts DEF HookInv
  <2>. QED
    BY <2>1, <2>2
<1>7. ASSUME NEW q \in Procs, ~Nested(q)
      PROVE  (in_hook'[Thread(q)] <=> pc'[q] # "idle") /\ (pc'[q] # "idle" => scope'[q])
  <2>1. CASE q = p
    BY <2>1, <1>7, <1>2, <1>5
  <2>2. CASE q # p
    <3>1. Thread(q) = Thread(p) => Nested(p)
      BY <2>2, <1>7, ProcEqual
    <3>. QED
      BY <2>2, <3>1, <1>7, <1>3, <1>5 DEF HookInv
  <2>. QED
    BY <2>1, <2>2
<1>. QED
  BY <1>6, <1>7 DEF HookInv

LEMMA HookGoto ==
  ASSUME TypeOK, HookInv, NEW p \in Procs, NEW at, at \notin {"idle", "orig"}, Running(p, at),
         NEW to, to # "idle", Goto(p, to)
  PROVE  HookInv'
<1>1. pc[p] \notin {"idle", "orig"}
  BY DEF Running
<1>2. ~Nested(p)
  BY <1>1 DEF HookInv
<1>3. pc'[p] # "idle" /\ \A q \in Procs : q # p => pc'[q] = pc[q]
  BY DEF Goto, TypeOK
<1>. QED
  BY <1>1, <1>2, <1>3, ProcFacts DEF HookInv, Goto

LEMMA HookStep == TypeOK /\ HookInv /\ [Next]_vars => HookInv'
<1> SUFFICES ASSUME TypeOK, HookInv, [Next]_vars PROVE HookInv'
  OBVIOUS
<1>1. ASSUME try_activate \/ deactivate PROVE HookInv'
  BY <1>1 DEF try_activate, deactivate, HookInv
<1>2. ASSUME NEW p \in Procs, NEW o \in Opens, open_impl(p, o) PROVE HookInv'
  BY <1>2, HookBegin DEF open_impl
<1>3. ASSUME NEW p \in Procs, NEW o \in FdOps, NEW f \in Fds, CallFd(p, o, f) PROVE HookInv'
  BY <1>3, HookBegin DEF CallFd
<1>4. ASSUME NEW p \in Procs, OpenStream(p) PROVE HookInv'
  BY <1>4, HookReturn, HookGoto DEF OpenStream
<1>5. ASSUME NEW p \in Procs, carrier_fd(p) PROVE HookInv'
  BY <1>5, HookReturn, HookGoto DEF carrier_fd
<1>6. ASSUME NEW p \in Procs, insert_file(p) PROVE HookInv'
  BY <1>6, HookReturn DEF insert_file
<1>7. ASSUME NEW p \in Procs, get_file(p) PROVE HookInv'
  BY <1>7, HookGoto DEF get_file
<1>8. ASSUME NEW p \in Procs, Answer(p) PROVE HookInv'
  BY <1>8, HookReturn, HookGoto DEF Answer
<1>9. ASSUME NEW p \in Procs, remove_file(p) PROVE HookInv'
  BY <1>9, HookGoto DEF remove_file
<1>10. ASSUME NEW p \in Procs, Original(p) PROVE HookInv'
  BY <1>10, HookReturn DEF Original
<1>11. ASSUME NEW p \in Procs, Refuse(p) \/ fchmod(p) PROVE HookInv'
  BY <1>11, HookReturn, HookGoto DEF Refuse, fchmod
<1>12. ASSUME NEW p \in Procs, Lock(p) PROVE HookInv'
  BY <1>12, HookGoto DEF Lock
<1>13. ASSUME NEW p \in Procs, read(p) \/ write(p) \/ lseek(p) \/ ftruncate_fd(p) \/ fsync(p)
       PROVE  HookInv'
  BY <1>13, HookReturn DEF read, write, lseek, ftruncate_fd, fsync
<1>14. ASSUME NEW p \in Procs, NEW targets, SaveAndSeek(p, targets) PROVE HookInv'
  BY <1>14, HookGoto DEF SaveAndSeek
<1>15. ASSUME NEW p \in Procs, Transfer(p) PROVE HookInv'
  BY <1>15, HookGoto DEF Transfer
<1>16. ASSUME NEW p \in Procs, SeekBack(p) PROVE HookInv'
  BY <1>16, HookReturn DEF SeekBack
<1>17. ASSUME NEW p \in Procs, Panic(p) PROVE HookInv'
  BY <1>17, HookReturn DEF Panic
<1>18. CASE UNCHANGED vars
  BY <1>18 DEF vars, HookInv
<1>. QED
  BY <1>1, <1>2, <1>3, <1>4, <1>5, <1>6, <1>7, <1>8, <1>9, <1>10, <1>11, <1>12, <1>13, <1>14,
     <1>15, <1>16, <1>17, <1>18
     DEF Next, Step, fstatvfs, fdopendir, sendfile, pread, pwrite, fstat

-----------------------------------------------------------------------------
(* Frames and registries *)

LEMMA FrameFacts ==
  ASSUME TypeOK, FrameInv, NEW p \in Procs
  PROVE  /\ pc[p] \notin {"idle", "orig"} => eng[p] \in Engines /\ eng[p] <= published
         /\ pc[p] \in {"vfs", "carrier", "insert"} => op[p] \in Opens
         /\ pc[p] = "lookup" => op[p] \in FdOps
         /\ pc[p] \in {"lock", "io", "seek", "move", "restore"} => op[p] \in Locking
         /\ pc[p] \in {"insert", "lookup", "lock", "io", "seek", "move", "restore"} => fd[p] \in Fds
         /\ pc[p] = "orig" /\ op[p] \in FdOps => fd[p] \in Fds
         /\ pc[p] \in {"carrier", "insert", "lock", "io", "seek", "move", "restore"} =>
              obj[p] \in 1..opened /\ obj[p] \in Streams /\ home[obj[p]] = eng[p]
<1>1. FrameAt(p)
  BY DEF FrameInv
<1>. QED
  BY <1>1, BoundsAssumption
     DEF FrameAt, TypeOK, Opening, Holding, WithStream, Engines, Streams

(* The streams that exist keep their engine, and engines are only added. *)
Grown ==
  /\ published' \in {published, published + 1}
  /\ opened' \in {opened, opened + 1}
  /\ \A o \in 1..opened : home'[o] = home[o]

(* The calls that do not move know what they knew. *)
LEMMA FrameOthers ==
  ASSUME TypeOK, NEW q \in Procs, FrameAt(q), Grown,
         pc'[q] = pc[q], op'[q] = op[q], fd'[q] = fd[q], eng'[q] = eng[q], obj'[q] = obj[q]
  PROVE  FrameAt(q)'
BY BoundsAssumption DEF FrameAt, Grown, TypeOK

LEMMA FrameBegin ==
  ASSUME TypeOK, FrameInv, RegistryInv, NEW p \in Procs, NEW o, NEW f, NEW next,
         Begin(p, o, f, next), UNCHANGED <<published, opened, home>>,
         \/ next = "orig" /\ o \notin FdOps
         \/ next = "vfs" /\ o \in Opens
         \/ next = "lookup" /\ o \in FdOps /\ f \in Fds,
         Opens \cap FdOps = {}
  PROVE  FrameInv'
<1>1. ASSUME NEW q \in Procs, q # p PROVE FrameAt(q)'
  BY <1>1, FrameOthers DEF Begin, TypeOK, FrameInv, Grown
<1>2. FrameAt(p)'
  <2>1. /\ pc'[p] = IF Enters(p) /\ engine # 0 THEN next ELSE "orig"
        /\ op'[p] = o /\ fd'[p] = f
        /\ eng'[p] = IF Enters(p) THEN engine ELSE 0
    BY DEF Begin, TypeOK
  <2>2. engine # 0 => engine \in 1..published'
    BY BoundsAssumption DEF RegistryInv, TypeOK
  <2>. QED
    BY <2>1, <2>2 DEF FrameAt, Opening, Holding, WithStream
<1>. QED
  BY <1>1, <1>2 DEF FrameInv

LEMMA FrameReturn ==
  ASSUME TypeOK, FrameInv, NEW p \in Procs, Return(p), Grown
  PROVE  FrameInv'
<1>1. ASSUME NEW q \in Procs, q # p PROVE FrameAt(q)'
  BY <1>1, FrameOthers DEF Return, TypeOK, FrameInv
<1>2. FrameAt(p)'
  BY DEF Return, TypeOK, FrameAt, Opening, Holding, WithStream
<1>. QED
  BY <1>1, <1>2 DEF FrameInv

(* A step inside the call needs to be shown for the call alone. *)
LEMMA FrameGoto ==
  ASSUME TypeOK, FrameInv, NEW p \in Procs, NEW to, Goto(p, to), Grown,
         \A q \in Procs : q # p => fd'[q] = fd[q] /\ obj'[q] = obj[q],
         FrameAt(p)'
  PROVE  FrameInv'
<1>1. ASSUME NEW q \in Procs, q # p PROVE FrameAt(q)'
  BY <1>1, FrameOthers DEF Goto, TypeOK, FrameInv
<1>. QED
  BY <1>1 DEF FrameInv

LEMMA FrameStep == TypeOK /\ FrameInv /\ RegistryInv /\ [Next]_vars => FrameInv'
<1> SUFFICES ASSUME TypeOK, FrameInv, RegistryInv, [Next]_vars PROVE FrameInv'
  OBVIOUS
<1> USE DEF routing, streams, cursors, locks
<1>o. Opens \cap FdOps = {} /\ Locking \subseteq FdOps
  BY DEF Opens, FdOps, Locking, Answered, Positional
<1>g. UNCHANGED <<published, opened, home>> => Grown
  BY DEF Grown
<1>1. ASSUME try_activate PROVE FrameInv'
  <2>1. Grown
    BY <1>1 DEF try_activate, Grown
  <2>. QED
    BY <1>1, <2>1, FrameOthers DEF try_activate, FrameInv
<1>2. ASSUME deactivate PROVE FrameInv'
  BY <1>2, <1>g, FrameOthers DEF deactivate, FrameInv
<1>3. ASSUME NEW p \in Procs, NEW o \in Opens, open_impl(p, o) PROVE FrameInv'
  BY <1>3, <1>o, FrameBegin DEF open_impl
<1>4. ASSUME NEW p \in Procs, NEW o \in FdOps, NEW f \in Fds, CallFd(p, o, f) PROVE FrameInv'
  BY <1>4, <1>o, FrameBegin DEF CallFd
<1>5. ASSUME NEW p \in Procs, OpenStream(p) PROVE FrameInv'
  <2>1. CASE Return(p) /\ UNCHANGED streams
    BY <2>1, <1>5, <1>g, FrameReturn DEF OpenStream
  <2>2. CASE ~(Return(p) /\ UNCHANGED streams)
    <3>1. /\ opened < program.opens /\ opened' = opened + 1
          /\ home' = [home EXCEPT ![opened + 1] = eng[p]]
          /\ obj' = [obj EXCEPT ![p] = opened + 1]
          /\ Goto(p, "carrier") /\ UNCHANGED <<fd, published>>
      BY <1>5, <2>2 DEF OpenStream
    <3>2. opened + 1 \in Streams /\ home'[opened + 1] = eng[p]
      BY <3>1, ProgramFacts, BoundsAssumption DEF TypeOK, Streams
    <3>3. Grown
      BY <3>1, BoundsAssumption DEF Grown, TypeOK, Streams
    <3>4. FrameAt(p)'
      <4>1. pc[p] = "vfs" /\ FrameAt(p)
        BY <1>5 DEF OpenStream, Running, FrameInv
      <4>2. pc'[p] = "carrier" /\ op'[p] = op[p] /\ eng'[p] = eng[p] /\ obj'[p] = opened + 1
        BY <3>1 DEF Goto, TypeOK
      <4>. QED
        BY <4>1, <4>2, <3>1, <3>2, BoundsAssumption
           DEF FrameAt, Opening, Holding, WithStream, TypeOK
    <3>. QED
      BY <3>1, <3>3, <3>4, FrameGoto DEF TypeOK
  <2>. QED
    BY <2>1, <2>2
<1>6. ASSUME NEW p \in Procs, carrier_fd(p) PROVE FrameInv'
  <2>1. CASE Return(p)
    BY <2>1, <1>6, <1>g, FrameReturn DEF carrier_fd
  <2>2. CASE ~Return(p)
    <3>1. PICK f \in program.fds : fd' = [fd EXCEPT ![p] = f]
      BY <2>2, <1>6 DEF carrier_fd
    <3>2. Goto(p, "insert") /\ pc[p] = "carrier" /\ FrameAt(p)
          /\ UNCHANGED <<published, opened, home, obj>>
      BY <2>2, <1>6 DEF carrier_fd, Running, FrameInv
    <3>3. f \in Fds /\ fd'[p] = f /\ pc'[p] = "insert" /\ op'[p] = op[p] /\ eng'[p] = eng[p]
      BY <3>1, <3>2, ProgramFacts DEF Goto, TypeOK
    <3>4. FrameAt(p)'
      BY <3>2, <3>3 DEF FrameAt, Opening, Holding, WithStream
    <3>. QED
      BY <3>1, <3>2, <3>4, <1>g, FrameGoto DEF TypeOK
  <2>. QED
    BY <2>1, <2>2
<1>7. ASSUME NEW p \in Procs, insert_file(p) PROVE FrameInv'
  BY <1>7, <1>g, FrameReturn DEF insert_file
<1>8. ASSUME NEW p \in Procs, get_file(p) PROVE FrameInv'
  <2>1. /\ Goto(p, IF Entry(p) = 0 THEN "orig" ELSE "lock") /\ pc[p] = "lookup" /\ FrameAt(p)
        /\ op[p] \in Locking /\ obj' = [obj EXCEPT ![p] = Entry(p)]
        /\ UNCHANGED <<published, opened, home, fd>>
    BY <1>8 DEF get_file, Running, FrameInv
  <2>2. /\ pc'[p] = IF Entry(p) = 0 THEN "orig" ELSE "lock"
        /\ op'[p] = op[p] /\ eng'[p] = eng[p] /\ obj'[p] = Entry(p)
    BY <2>1 DEF Goto, TypeOK
  <2>3. eng[p] \in Engines /\ fd[p] \in Fds
    BY <2>1, <1>o DEF FrameAt, TypeOK, Engines
  <2>4. Entry(p) # 0 => Entry(p) \in 1..opened /\ home[Entry(p)] = eng[p]
    BY <2>3, BoundsAssumption DEF Entry, RegistryInv, TypeOK, Engines
  <2>5. FrameAt(p)'
    BY <2>1, <2>2, <2>4, <1>o DEF FrameAt, Opening, Holding, WithStream
  <2>. QED
    BY <2>1, <2>5, <1>g, FrameGoto DEF TypeOK
<1>9. ASSUME NEW p \in Procs, NEW to \in {"orig", "io", "seek", "move", "restore"}, Goto(p, to),
             UNCHANGED <<published, opened, home, fd, obj>>,
             \/ to = "orig" /\ (pc[p] = "lookup" \/ (pc[p] = "lock" /\ op[p] = "fchmod"))
             \/ to # "orig" /\ pc[p] \in Holding \cup {"lock"}
      PROVE  FrameInv'
  <2>1. pc'[p] = to /\ op'[p] = op[p] /\ eng'[p] = eng[p]
    BY <1>9 DEF Goto, TypeOK
  <2>2. FrameAt(p)
    BY DEF FrameInv
  <2>3. FrameAt(p)'
    BY <1>9, <2>1, <2>2, <1>o DEF FrameAt, Opening, Holding, WithStream
  <2>. QED
    BY <1>9, <2>3, <1>g, FrameGoto
<1>10. ASSUME NEW p \in Procs, Answer(p) PROVE FrameInv'
  BY <1>10, <1>g, <1>9, FrameReturn DEF Answer, Running
<1>11. ASSUME NEW p \in Procs, remove_file(p) PROVE FrameInv'
  BY <1>11, <1>9 DEF remove_file, Running
<1>12. ASSUME NEW p \in Procs, Original(p) \/ Refuse(p) PROVE FrameInv'
  BY <1>12, <1>g, FrameReturn DEF Original, Refuse
<1>13. ASSUME NEW p \in Procs, fchmod(p) PROVE FrameInv'
  BY <1>13, <1>g, <1>9, FrameReturn DEF fchmod, Running
<1>14. ASSUME NEW p \in Procs, Lock(p) PROVE FrameInv'
  BY <1>14, <1>9 DEF Lock, Running
<1>15. ASSUME NEW p \in Procs, read(p) \/ write(p) \/ lseek(p) \/ ftruncate_fd(p) \/ fsync(p)
       PROVE  FrameInv'
  BY <1>15, <1>g, FrameReturn DEF read, write, lseek, ftruncate_fd, fsync
<1>16. ASSUME NEW p \in Procs, NEW targets, SaveAndSeek(p, targets) PROVE FrameInv'
  BY <1>16, <1>9 DEF SaveAndSeek, Running, Holding
<1>17. ASSUME NEW p \in Procs, Transfer(p) PROVE FrameInv'
  BY <1>17, <1>9 DEF Transfer, Running, Holding
<1>18. ASSUME NEW p \in Procs, SeekBack(p) \/ Panic(p) PROVE FrameInv'
  BY <1>18, <1>g, FrameReturn DEF SeekBack, Panic
<1>19. CASE UNCHANGED vars
  BY <1>19, <1>g, FrameOthers DEF vars, FrameInv
<1>. QED
  BY <1>1, <1>2, <1>3, <1>4, <1>5, <1>6, <1>7, <1>8, <1>10, <1>11, <1>12, <1>13, <1>14,
     <1>15, <1>16, <1>17, <1>18, <1>19
     DEF Next, Step, fstatvfs, fdopendir, sendfile, pread, pwrite, fstat

(* A registry is only written by its own engine's shims. *)
LEMMA RegistryStep == TypeOK /\ FrameInv /\ RegistryInv /\ [Next]_vars => RegistryInv'
<1> SUFFICES ASSUME TypeOK, FrameInv, RegistryInv, [Next]_vars PROVE RegistryInv'
  OBVIOUS
<1> USE BoundsAssumption DEF routing, streams
<1>1. ASSUME try_activate \/ deactivate PROVE RegistryInv'
  BY <1>1 DEF try_activate, deactivate, RegistryInv, TypeOK
<1>2. ASSUME NEW p \in Procs, OpenStream(p) PROVE RegistryInv'
  <2>1. CASE UNCHANGED streams
    BY <2>1, <1>2 DEF OpenStream, RegistryInv
  <2>2. CASE ~UNCHANGED streams
    <3>1. /\ opened < program.opens /\ opened' = opened + 1
          /\ home' = [home EXCEPT ![opened + 1] = eng[p]] /\ UNCHANGED <<routing, files>>
      BY <1>2, <2>2 DEF OpenStream
    <3>2. opened + 1 \in Streams
      BY <3>1, ProgramFacts DEF TypeOK, Streams
    <3>5. eng[p] <= published
      BY <1>2, FrameFacts DEF OpenStream, Running
    <3>3. \A o \in Streams : home'[o] = IF o = opened + 1 THEN eng[p] ELSE home[o]
      BY <3>1, <3>2 DEF TypeOK
    <3>4. \A e \in Engines, f \in Fds : files[e][f] # 0 =>
            files[e][f] \in Streams /\ files[e][f] <= opened
      BY DEF RegistryInv, TypeOK, Streams
    <3>. QED
      BY <3>1, <3>2, <3>3, <3>4, <3>5 DEF RegistryInv, TypeOK
  <2>. QED
    BY <2>1, <2>2
<1>3. ASSUME NEW p \in Procs, insert_file(p) PROVE RegistryInv'
  <2>1. obj[p] \in 1..opened /\ home[obj[p]] = eng[p] /\ eng[p] \in Engines /\ fd[p] \in Fds
    BY <1>3, FrameFacts DEF insert_file, Running
  <2>2. \A e \in Engines, f \in Fds :
          files'[e][f] = IF e = eng[p] /\ f = fd[p] THEN obj[p] ELSE files[e][f]
    <3>1. obj[p] \in 0..MaxOpens
      BY DEF TypeOK
    <3>. QED
      BY <1>3, <2>1, <3>1, FilesEntry DEF insert_file
  <2>. QED
    BY <1>3, <2>1, <2>2 DEF insert_file, RegistryInv, TypeOK
<1>4. ASSUME NEW p \in Procs, remove_file(p) PROVE RegistryInv'
  <2>1. eng[p] \in Engines /\ fd[p] \in Fds
    BY <1>4, FrameFacts DEF remove_file, Running
  <2>2. \A e \in Engines, f \in Fds :
          files'[e][f] = IF e = eng[p] /\ f = fd[p] THEN 0 ELSE files[e][f]
    BY <1>4, <2>1, FilesEntry DEF remove_file
  <2>. QED
    BY <1>4, <2>1, <2>2 DEF remove_file, RegistryInv, TypeOK
<1>5. CASE UNCHANGED <<engine, published, home, opened, files>>
  BY <1>5 DEF RegistryInv
<1>. QED
  BY <1>1, <1>2, <1>3, <1>4, <1>5
     DEF Next, Step, vars, open_impl, CallFd, carrier_fd, get_file, fstatvfs, fdopendir, sendfile,
         Answer, Original, Refuse, Lock, fchmod, read, write, lseek, ftruncate_fd, fsync, pread,
         pwrite, fstat, SaveAndSeek, Transfer, SeekBack, Panic

-----------------------------------------------------------------------------
(* Descriptor numbers *)

(* Only the call of p moves. *)
Others(p) ==
  \A q \in Procs : q # p =>
    pc'[q] = pc[q] /\ op'[q] = op[q] /\ fd'[q] = fd[q] /\ eng'[q] = eng[q]

LEMMA OthersFacts ==
  ASSUME TypeOK, NEW p \in Procs
  PROVE  /\ Return(p) => Others(p) /\ pc'[p] = "idle" /\ op'[p] = "none"
         /\ \A to : Goto(p, to) /\ UNCHANGED fd =>
              Others(p) /\ pc'[p] = to /\ op'[p] = op[p] /\ eng'[p] = eng[p]
         /\ \A o, f, next : Begin(p, o, f, next) =>
              /\ Others(p) /\ op'[p] = o /\ fd'[p] = f
              /\ pc'[p] = IF Enters(p) /\ engine # 0 THEN next ELSE "orig"
              /\ eng'[p] = IF Enters(p) THEN engine ELSE 0
<1>1. Return(p) => Others(p) /\ pc'[p] = "idle" /\ op'[p] = "none"
  BY DEF Return, Others, TypeOK
<1>2. ASSUME NEW to, Goto(p, to), UNCHANGED fd
      PROVE  Others(p) /\ pc'[p] = to /\ op'[p] = op[p] /\ eng'[p] = eng[p]
  BY <1>2 DEF Goto, Others, TypeOK
<1>3. ASSUME NEW o, NEW f, NEW next, Begin(p, o, f, next)
      PROVE  /\ Others(p) /\ op'[p] = o /\ fd'[p] = f
             /\ pc'[p] = IF Enters(p) /\ engine # 0 THEN next ELSE "orig"
             /\ eng'[p] = IF Enters(p) THEN engine ELSE 0
  BY <1>3 DEF Begin, Others, TypeOK
<1>. QED
  BY <1>1, <1>2, <1>3

NumberInv == OwnerInv /\ CarrierInv /\ EntryInv /\ ServedInv

(* A held stream exists. *)
LEMMA HeldExists ==
  ASSUME TypeOK, RegistryInv, ServedInv, NEW f \in Fds, held[f] \in Streams
  PROVE  held[f] <= opened /\ home[held[f]] \in Engines
BY DEF ServedInv, RegistryInv, Streams

(* A step that touches neither the numbers nor the ownership of one. *)
LEMMA NumberNeutral ==
  ASSUME TypeOK, RegistryInv, NumberInv, Grown, NEW p \in Procs, Others(p),
         ~Owner(p), ~Owner(p)', UNCHANGED <<engine, files, table, held>>
  PROVE  NumberInv'
<1>1. \A q \in Procs : (Owner(q)' <=> Owner(q)) /\ (Closing(q)' <=> Closing(q))
                       /\ (Owner(q) => fd'[q] = fd[q] /\ eng'[q] = eng[q] /\ pc'[q] = pc[q])
  BY DEF Others, Owner, Closing
<1>2. OwnerInv'
  BY <1>1 DEF OwnerInv, NumberInv, Owner
<1>3. CarrierInv'
  BY <1>1 DEF CarrierInv, NumberInv
<1>4. EntryInv'
  BY <1>1 DEF EntryInv, NumberInv, Owner
<1>5. ServedInv'
  <2>1. \A f \in Fds : held[f] \in Streams => home'[held[f]] = home[held[f]]
    BY HeldExists DEF Grown, NumberInv, Streams, TypeOK
  <2>. QED
    BY <2>1 DEF ServedInv, NumberInv, Streams
<1>. QED
  BY <1>2, <1>3, <1>4, <1>5 DEF NumberInv

(* close takes the number out of the program's hands: it passes to the     *)
(* caller, who will find the entry if the engine is still there.           *)
LEMMA NumberClose ==
  ASSUME TypeOK, HookInv, RegistryInv, NumberInv, NEW p \in Procs, NEW f \in Fds,
         CallFd(p, "close", f)
  PROVE  NumberInv'
<1>1. /\ MayCall(p) /\ held[f] # NotHeld /\ Begin(p, "close", f, "lookup")
      /\ held' = [held EXCEPT ![f] = NotHeld] /\ UNCHANGED <<engine, files, table, opened, home>>
  BY DEF CallFd, routing, streams
<1>2. ~Nested(p) /\ pc[p] = "idle"
  BY DEF CallFd, MayCall
<1>3. Enters(p)
  BY <1>2 DEF HookInv, Enters
<1>4. /\ Others(p) /\ op'[p] = "close" /\ fd'[p] = f /\ eng'[p] = engine
      /\ pc'[p] = IF engine # 0 THEN "lookup" ELSE "orig"
  BY <1>1, <1>3, OthersFacts
<1>5. ~Owner(p) /\ Owner(p)' /\ Closing(p)' /\ pc'[p] # "insert"
  BY <1>2, <1>4 DEF Owner, Closing
<1>6. ASSUME NEW q \in Procs, q # p
      PROVE  /\ (Owner(q)' <=> Owner(q)) /\ (Closing(q)' <=> Closing(q)) /\ pc'[q] = pc[q]
             /\ fd'[q] = fd[q] /\ eng'[q] = eng[q] /\ (Owner(q) => fd[q] # f)
  BY <1>6, <1>1, <1>4 DEF Others, Owner, Closing, NumberInv, OwnerInv
<1>7. \A g \in Fds : held'[g] = IF g = f THEN NotHeld ELSE held[g]
  BY <1>1 DEF TypeOK
<1>8. table[f] # "free"
  BY <1>1 DEF NumberInv, OwnerInv, TypeOK, Holdings
<1>9. OwnerInv'
  <2>1. \A q \in Procs : Owner(q)' => held'[fd'[q]] = NotHeld
    BY <1>4, <1>5, <1>6, <1>1 DEF NumberInv, OwnerInv, TypeOK
  <2>2. \A q \in Procs : pc'[q] = "insert" => table'[fd'[q]] = "carrier"
    BY <1>1, <1>5, <1>6 DEF NumberInv, OwnerInv
  <2>3. \A q \in Procs : Closing(q)' => table'[fd'[q]] # "free"
    BY <1>1, <1>4, <1>6, <1>8 DEF NumberInv, OwnerInv
  <2>4. \A q, r \in Procs : Owner(q)' /\ Owner(r)' /\ fd'[q] = fd'[r] => q = r
    BY <1>4, <1>6 DEF NumberInv, OwnerInv
  <2>5. \A g \in Fds : (held'[g] \in Streams => table'[g] = "carrier")
                       /\ (held'[g] = Real => table'[g] = "real")
    BY <1>1, <1>7 DEF NumberInv, OwnerInv, NotHeld, Real, Streams
  <2>. QED
    BY <2>1, <2>2, <2>3, <2>4, <2>5 DEF OwnerInv
<1>10. CarrierInv'
  BY <1>1, <1>4, <1>5, <1>6, <1>7 DEF NumberInv, CarrierInv
<1>11. EntryInv'
  <2> SUFFICES ASSUME engine # 0, NEW g \in Fds, files[engine][g] # 0
               PROVE  /\ table[g] = "carrier"
                      /\ \/ held'[g] = files[engine][g]
                         \/ /\ held'[g] = NotHeld
                            /\ \E q \in Procs : /\ Closing(q)' /\ pc'[q] = "lookup"
                                                /\ eng'[q] = engine /\ fd'[q] = g
    BY <1>1 DEF EntryInv
  <2>1. CASE g = f
    BY <2>1, <1>4, <1>5, <1>7 DEF NumberInv, EntryInv
  <2>2. CASE g # f
    BY <2>2, <1>6, <1>7, <1>5, <1>2 DEF NumberInv, EntryInv
  <2>. QED
    BY <2>1, <2>2
<1>12. ServedInv'
  BY <1>1, <1>7 DEF NumberInv, ServedInv, Streams, NotHeld
<1>. QED
  BY <1>9, <1>10, <1>11, <1>12 DEF NumberInv

(* carrier_fd: the kernel hands out a number nobody holds or owns. *)
LEMMA NumberCarrier ==
  ASSUME TypeOK, HookInv, FrameInv, RegistryInv, NumberInv, NEW p \in Procs, carrier_fd(p)
  PROVE  NumberInv'
<1>1. CASE Return(p) /\ UNCHANGED table
  <2>1. ~Owner(p) /\ ~Owner(p)'
    BY <1>1, OthersFacts DEF carrier_fd, Running, Owner, Closing
  <2>. QED
    BY <1>1, <2>1, OthersFacts, NumberNeutral DEF carrier_fd, routing, streams, Grown
<1>2. CASE ~(Return(p) /\ UNCHANGED table)
  <2>1. PICK f \in program.fds : /\ table[f] = "free" /\ table' = [table EXCEPT ![f] = "carrier"]
                                 /\ fd' = [fd EXCEPT ![p] = f] /\ Goto(p, "insert")
    BY <1>2 DEF carrier_fd
  <2>2. f \in Fds /\ UNCHANGED <<engine, files, held, opened, home>> /\ pc[p] = "carrier"
    BY <2>1, ProgramFacts DEF carrier_fd, routing, streams, Running
  <2>3. fd'[p] = f /\ pc'[p] = "insert" /\ Others(p) /\ op'[p] = op[p]
    BY <2>1 DEF Others, Goto, TypeOK
  <2>4. ~Owner(p) /\ Owner(p)' /\ ~Closing(p)'
    BY <2>2, <2>3 DEF Owner, Closing
  <2>5. \A g \in Fds : table'[g] = IF g = f THEN "carrier" ELSE table[g]
    BY <2>1, <2>2 DEF TypeOK
  <2>6. held[f] = NotHeld
    BY <2>1, <2>2 DEF NumberInv, OwnerInv, TypeOK, Holdings
  <2>7. ASSUME NEW q \in Procs, q # p
        PROVE  /\ (Owner(q)' <=> Owner(q)) /\ (Closing(q)' <=> Closing(q)) /\ pc'[q] = pc[q]
               /\ fd'[q] = fd[q] /\ eng'[q] = eng[q]
    BY <2>7, <2>3 DEF Others, Owner, Closing
  <2>8. ASSUME NEW q \in Procs, Owner(q) PROVE fd[q] \in Fds /\ fd[q] # f
    <3>1. fd[q] \in Fds
      BY <2>8, FrameFacts DEF Owner, Closing, FdOps
    <3>. QED
      BY <3>1, <2>8, <2>1 DEF NumberInv, OwnerInv, Owner
  <2>9. OwnerInv'
    <3>1. \A q \in Procs : Owner(q)' => held'[fd'[q]] = NotHeld
      BY <2>2, <2>3, <2>6, <2>7 DEF NumberInv, OwnerInv
    <3>2. \A q \in Procs : pc'[q] = "insert" => table'[fd'[q]] = "carrier"
      BY <2>2, <2>3, <2>5, <2>7, <2>8 DEF NumberInv, OwnerInv, Owner
    <3>3. \A q \in Procs : Closing(q)' => table'[fd'[q]] # "free"
      BY <2>4, <2>5, <2>7, <2>8 DEF NumberInv, OwnerInv, Owner
    <3>4. \A q, r \in Procs : Owner(q)' /\ Owner(r)' /\ fd'[q] = fd'[r] => q = r
      BY <2>3, <2>7, <2>8 DEF NumberInv, OwnerInv
    <3>5. \A g \in Fds : (held'[g] \in Streams => table'[g] = "carrier")
                         /\ (held'[g] = Real => table'[g] = "real")
      BY <2>2, <2>5, <2>6 DEF NumberInv, OwnerInv, NotHeld, Real, Streams
    <3>. QED
      BY <3>1, <3>2, <3>3, <3>4, <3>5 DEF OwnerInv
  <2>10. CarrierInv'
    BY <2>2, <2>3, <2>4, <2>5, <2>7 DEF NumberInv, CarrierInv
  <2>11. EntryInv'
    <3> SUFFICES ASSUME engine # 0, NEW g \in Fds, files[engine][g] # 0
                 PROVE  /\ table'[g] = "carrier"
                        /\ \/ held[g] = files[engine][g]
                           \/ /\ held[g] = NotHeld
                              /\ \E q \in Procs : /\ Closing(q)' /\ pc'[q] = "lookup"
                                                  /\ eng'[q] = engine /\ fd'[q] = g
      BY <2>2 DEF EntryInv
    <3>. QED
      BY <2>4, <2>5, <2>7 DEF NumberInv, EntryInv, Owner
  <2>12. ServedInv'
    BY <2>2 DEF NumberInv, ServedInv, Streams
  <2>. QED
    BY <2>9, <2>10, <2>11, <2>12 DEF NumberInv
<1>. QED
  BY <1>1, <1>2

(* insert_file: entry and holding appear together, for the stream's engine. *)
LEMMA NumberInsert ==
  ASSUME TypeOK, FrameInv, RegistryInv, NumberInv, NEW p \in Procs, insert_file(p)
  PROVE  NumberInv'
<1>1. /\ pc[p] = "insert" /\ files' = [files EXCEPT ![eng[p]][fd[p]] = obj[p]]
      /\ held' = [held EXCEPT ![fd[p]] = obj[p]] /\ Return(p)
      /\ UNCHANGED <<engine, table, opened, home>>
  BY DEF insert_file, Running, routing, streams
<1>2. /\ obj[p] \in Streams /\ home[obj[p]] = eng[p] /\ eng[p] \in Engines /\ fd[p] \in Fds
      /\ obj[p] # 0
  BY <1>1, FrameFacts DEF Streams
<1>3. Others(p) /\ Owner(p) /\ ~Owner(p)' /\ ~Closing(p)'
  BY <1>1, OthersFacts DEF Owner, Closing
<1>4. \A e \in Engines, f \in Fds :
        files'[e][f] = IF e = eng[p] /\ f = fd[p] THEN obj[p] ELSE files[e][f]
  <2>1. obj[p] \in 0..MaxOpens
    BY DEF TypeOK
  <2>. QED
    BY <1>1, <1>2, <2>1, FilesEntry
<1>5. \A f \in Fds : held'[f] = IF f = fd[p] THEN obj[p] ELSE held[f]
  BY <1>1, <1>2 DEF TypeOK
<1>6. ASSUME NEW q \in Procs, q # p
      PROVE  /\ (Owner(q)' <=> Owner(q)) /\ (Closing(q)' <=> Closing(q)) /\ pc'[q] = pc[q]
             /\ fd'[q] = fd[q] /\ eng'[q] = eng[q] /\ (Owner(q) => fd[q] \in Fds /\ fd[q] # fd[p])
  <2>1. Owner(q) => fd[q] \in Fds
    BY FrameFacts DEF Owner, Closing, FdOps
  <2>. QED
    BY <1>6, <1>3, <2>1 DEF Others, Owner, Closing, NumberInv, OwnerInv
<1>7. table[fd[p]] = "carrier" /\ held[fd[p]] = NotHeld
  BY <1>1, <1>3 DEF NumberInv, OwnerInv
<1>8. OwnerInv'
  <2>1. \A q \in Procs : Owner(q)' => held'[fd'[q]] = NotHeld
    BY <1>3, <1>5, <1>6 DEF NumberInv, OwnerInv
  <2>2. \A q \in Procs : pc'[q] = "insert" => table'[fd'[q]] = "carrier"
    BY <1>1, <1>3, <1>6 DEF NumberInv, OwnerInv, Owner
  <2>3. \A q \in Procs : Closing(q)' => table'[fd'[q]] # "free"
    BY <1>1, <1>3, <1>6 DEF NumberInv, OwnerInv
  <2>4. \A q, r \in Procs : Owner(q)' /\ Owner(r)' /\ fd'[q] = fd'[r] => q = r
    BY <1>3, <1>6 DEF NumberInv, OwnerInv
  <2>5. \A g \in Fds : (held'[g] \in Streams => table'[g] = "carrier")
                       /\ (held'[g] = Real => table'[g] = "real")
    BY <1>1, <1>2, <1>5, <1>7 DEF NumberInv, OwnerInv, Real, Streams
  <2>. QED
    BY <2>1, <2>2, <2>3, <2>4, <2>5 DEF OwnerInv
<1>9. CarrierInv'
  BY <1>1, <1>2, <1>5, <1>6 DEF NumberInv, CarrierInv
<1>10. EntryInv'
  <2> SUFFICES ASSUME engine # 0, NEW g \in Fds, files'[engine][g] # 0
               PROVE  /\ table[g] = "carrier"
                      /\ \/ held'[g] = files'[engine][g]
                         \/ /\ held'[g] = NotHeld
                            /\ \E q \in Procs : /\ Closing(q)' /\ pc'[q] = "lookup"
                                                /\ eng'[q] = engine /\ fd'[q] = g
    BY <1>1 DEF EntryInv
  <2>1. engine \in Engines
    BY DEF TypeOK, Engines
  <2>2. CASE g = fd[p]
    <3>1. files[engine][g] = 0
      <4>1. ~\E q \in Procs : Closing(q) /\ fd[q] = g
        BY <2>2, <1>1, <1>3, <1>6 DEF Owner, Closing
      <4>. QED
        BY <2>2, <4>1, <1>7 DEF NumberInv, EntryInv, NotHeld
    <3>. QED
      BY <2>1, <2>2, <3>1, <1>4, <1>5, <1>7
  <2>3. CASE g # fd[p]
    BY <2>1, <2>3, <1>4, <1>5, <1>6 DEF NumberInv, EntryInv, Owner
  <2>. QED
    BY <2>2, <2>3
<1>11. ServedInv'
  <2> SUFFICES ASSUME NEW g \in Fds, held'[g] \in Streams
               PROVE  home[held'[g]] \in Engines /\ files'[home[held'[g]]][g] = held'[g]
    BY <1>1 DEF ServedInv, Streams
  <2>1. CASE g = fd[p]
    BY <2>1, <1>2, <1>4, <1>5
  <2>2. CASE g # fd[p]
    BY <2>2, <1>4, <1>5 DEF NumberInv, ServedInv
  <2>. QED
    BY <2>1, <2>2
<1>. QED
  BY <1>8, <1>9, <1>10, <1>11 DEF NumberInv

(* remove_file: the entry goes while the number is still the caller's. *)
LEMMA NumberRemove ==
  ASSUME TypeOK, FrameInv, RegistryInv, NumberInv, NEW p \in Procs, remove_file(p)
  PROVE  NumberInv'
<1>1. /\ pc[p] = "lookup" /\ op[p] = "close" /\ files' = [files EXCEPT ![eng[p]][fd[p]] = 0]
      /\ Goto(p, "orig") /\ UNCHANGED <<engine, table, held, opened, home, fd>>
  BY DEF remove_file, Running, routing, streams
<1>2. eng[p] \in Engines /\ fd[p] \in Fds
  BY <1>1, FrameFacts
<1>3. Others(p) /\ Closing(p) /\ Closing(p)' /\ pc'[p] = "orig"
  BY <1>1, OthersFacts DEF Closing
<1>4. \A e \in Engines, f \in Fds :
        files'[e][f] = IF e = eng[p] /\ f = fd[p] THEN 0 ELSE files[e][f]
  BY <1>1, <1>2, FilesEntry, BoundsAssumption
<1>5. \A q \in Procs : (Owner(q)' <=> Owner(q)) /\ (Closing(q)' <=> Closing(q))
                       /\ (q # p => pc'[q] = pc[q] /\ eng'[q] = eng[q])
  BY <1>3 DEF Others, Owner, Closing
<1>6. held[fd[p]] = NotHeld
  BY <1>3 DEF NumberInv, OwnerInv, Owner
<1>7. OwnerInv'
  BY <1>1, <1>3, <1>5 DEF NumberInv, OwnerInv
<1>8. CarrierInv'
  BY <1>1, <1>5 DEF NumberInv, CarrierInv
<1>9. EntryInv'
  <2> SUFFICES ASSUME engine # 0, NEW g \in Fds, files'[engine][g] # 0
               PROVE  /\ table[g] = "carrier"
                      /\ \/ held[g] = files'[engine][g]
                         \/ /\ held[g] = NotHeld
                            /\ \E q \in Procs : /\ Closing(q)' /\ pc'[q] = "lookup"
                                                /\ eng'[q] = engine /\ fd[q] = g
    BY <1>1 DEF EntryInv
  <2>1. engine \in Engines /\ files'[engine][g] = files[engine][g]
        /\ ~(engine = eng[p] /\ g = fd[p])
    BY <1>4 DEF TypeOK, Engines
  <2>. QED
    BY <2>1, <1>5 DEF NumberInv, EntryInv
<1>10. ServedInv'
  <2> SUFFICES ASSUME NEW g \in Fds, held[g] \in Streams
               PROVE  home[held[g]] \in Engines /\ files'[home[held[g]]][g] = held[g]
    BY <1>1 DEF ServedInv, Streams
  <2>1. g # fd[p]
    BY <1>6 DEF NotHeld, Streams
  <2>. QED
    BY <2>1, <1>4 DEF NumberInv, ServedInv
<1>. QED
  BY <1>7, <1>8, <1>9, <1>10 DEF NumberInv

(* The original close frees a number whose entry is gone; the original     *)
(* open takes a number that had none.                                      *)
LEMMA NumberOriginal ==
  ASSUME TypeOK, FrameInv, RegistryInv, NumberInv, NEW p \in Procs, Original(p)
  PROVE  NumberInv'
<1>1. pc[p] = "orig" /\ Return(p) /\ UNCHANGED <<engine, published, files, opened, home>>
  BY DEF Original, Running, routing, streams
<1>2. Others(p) /\ ~Owner(p)' /\ ~Closing(p)' /\ pc'[p] = "idle"
  BY <1>1, OthersFacts DEF Owner, Closing
<1>3. ASSUME NEW q \in Procs, q # p
      PROVE  /\ (Owner(q)' <=> Owner(q)) /\ (Closing(q)' <=> Closing(q)) /\ pc'[q] = pc[q]
             /\ fd'[q] = fd[q] /\ eng'[q] = eng[q] /\ (Owner(q) => fd[q] \in Fds)
  <2>1. Owner(q) => fd[q] \in Fds
    BY FrameFacts DEF Owner, Closing, FdOps
  <2>. QED
    BY <1>3, <1>2, <2>1 DEF Others, Owner, Closing
<1>4. CASE UNCHANGED <<table, held>> /\ op[p] # "close"
  <2>1. ~Owner(p)
    BY <1>4, <1>1 DEF Owner, Closing
  <2>. QED
    BY <1>1, <1>2, <1>4, <2>1, NumberNeutral DEF Grown
<1>5. ASSUME op[p] # "close", NEW f \in program.fds, table[f] = "free",
             table' = [table EXCEPT ![f] = "real"], held' = [held EXCEPT ![f] = Real]
      PROVE  NumberInv'
  <2>1. f \in Fds /\ ~Owner(p)
    BY <1>1, <1>5, ProgramFacts DEF Owner, Closing
  <2>2. \A g \in Fds : /\ table'[g] = IF g = f THEN "real" ELSE table[g]
                       /\ held'[g] = IF g = f THEN Real ELSE held[g]
    BY <2>1, <1>5 DEF TypeOK
  <2>3. ASSUME NEW q \in Procs, Owner(q) PROVE fd[q] # f
    BY <2>3, <2>1, <1>5 DEF NumberInv, OwnerInv, Owner
  <2>4. engine # 0 => files[engine][f] = 0
    BY <1>5, <2>1 DEF NumberInv, EntryInv
  <2>5. OwnerInv'
    <3>1. \A q \in Procs : Owner(q)' => held'[fd'[q]] = NotHeld
      BY <1>2, <1>3, <2>2, <2>3 DEF NumberInv, OwnerInv
    <3>2. \A q \in Procs : pc'[q] = "insert" => table'[fd'[q]] = "carrier"
      BY <1>2, <1>3, <2>2, <2>3 DEF NumberInv, OwnerInv, Owner
    <3>3. \A q \in Procs : Closing(q)' => table'[fd'[q]] # "free"
      BY <1>2, <1>3, <2>2, <2>3 DEF NumberInv, OwnerInv, Owner
    <3>4. \A q, r \in Procs : Owner(q)' /\ Owner(r)' /\ fd'[q] = fd'[r] => q = r
      BY <1>2, <1>3 DEF NumberInv, OwnerInv
    <3>5. \A g \in Fds : (held'[g] \in Streams => table'[g] = "carrier")
                         /\ (held'[g] = Real => table'[g] = "real")
      BY <2>2 DEF NumberInv, OwnerInv, Real, Streams
    <3>. QED
      BY <3>1, <3>2, <3>3, <3>4, <3>5 DEF OwnerInv
  <2>6. CarrierInv'
    BY <2>1, <2>2, <1>3 DEF NumberInv, CarrierInv
  <2>7. EntryInv'
    BY <1>1, <2>1, <2>2, <2>4, <1>3 DEF NumberInv, EntryInv, Owner
  <2>8. ServedInv'
    BY <1>1, <2>2 DEF NumberInv, ServedInv, Real, Streams
  <2>. QED
    BY <2>5, <2>6, <2>7, <2>8 DEF NumberInv
<1>6. ASSUME op[p] = "close", table' = [table EXCEPT ![fd[p]] = "free"], UNCHANGED held
      PROVE  NumberInv'
  <2>1. Closing(p) /\ fd[p] \in Fds
    BY <1>1, <1>6, FrameFacts DEF Closing, FdOps
  <2>2. \A g \in Fds : table'[g] = IF g = fd[p] THEN "free" ELSE table[g]
    BY <2>1, <1>6 DEF TypeOK
  <2>3. held[fd[p]] = NotHeld /\ \A q \in Procs : Owner(q) /\ fd[q] = fd[p] => q = p
    BY <2>1 DEF NumberInv, OwnerInv, Owner
  <2>4. engine # 0 => files[engine][fd[p]] = 0
    BY <1>1, <2>1, <2>3 DEF NumberInv, EntryInv, Owner, NotHeld
  <2>5. OwnerInv'
    <3>1. \A q \in Procs : Owner(q)' => held'[fd'[q]] = NotHeld
      BY <1>2, <1>3, <1>6 DEF NumberInv, OwnerInv
    <3>2. \A q \in Procs : pc'[q] = "insert" => table'[fd'[q]] = "carrier"
      BY <1>2, <1>3, <2>2, <2>3 DEF NumberInv, OwnerInv, Owner
    <3>3. \A q \in Procs : Closing(q)' => table'[fd'[q]] # "free"
      BY <1>2, <1>3, <2>2, <2>3 DEF NumberInv, OwnerInv, Owner
    <3>4. \A q, r \in Procs : Owner(q)' /\ Owner(r)' /\ fd'[q] = fd'[r] => q = r
      BY <1>2, <1>3 DEF NumberInv, OwnerInv
    <3>5. \A g \in Fds : (held'[g] \in Streams => table'[g] = "carrier")
                         /\ (held'[g] = Real => table'[g] = "real")
      BY <1>6, <2>2, <2>3 DEF NumberInv, OwnerInv, NotHeld, Real, Streams
    <3>. QED
      BY <3>1, <3>2, <3>3, <3>4, <3>5 DEF OwnerInv
  <2>6. CarrierInv'
    BY <1>6, <2>1, <2>2, <1>3 DEF NumberInv, CarrierInv
  <2>7. EntryInv'
    BY <1>1, <1>6, <2>1, <2>2, <2>4, <1>3 DEF NumberInv, EntryInv, Owner
  <2>8. ServedInv'
    BY <1>1, <1>6 DEF NumberInv, ServedInv, Streams
  <2>. QED
    BY <2>5, <2>6, <2>7, <2>8 DEF NumberInv
<1>. QED
  <2>1. op[p] \in Opens \cup (FdOps \ {"close"}) => op[p] # "close"
    BY DEF Opens
  <2>. QED
    BY <1>4, <1>5, <1>6, <2>1 DEF Original

(* A new engine starts with an empty registry, and no held stream is its. *)
LEMMA NumberActivate ==
  ASSUME TypeOK, RegistryInv, NumberInv, try_activate \/ deactivate
  PROVE  NumberInv'
<1>1. UNCHANGED <<files, table, held, home, pc, op, fd, eng>>
  BY DEF try_activate, deactivate, streams
<1>2. OwnerInv' /\ CarrierInv' /\ ServedInv'
  BY <1>1 DEF NumberInv, OwnerInv, CarrierInv, ServedInv, Owner, Closing, Streams
<1>3. EntryInv'
  <2>1. CASE try_activate
    <3>1. engine' = published + 1 /\ engine' \in Engines
      BY <2>1, ProgramFacts, BoundsAssumption DEF try_activate, TypeOK, Engines
    <3>2. ASSUME NEW f \in Fds, files[engine'][f] # 0 PROVE FALSE
      <4>1. files[engine'][f] \in 0..MaxOpens /\ published \in 0..MaxEngines
        BY <3>1 DEF TypeOK
      <4>2. files[engine'][f] \in Streams
        BY <3>2, <4>1, BoundsAssumption DEF Streams
      <4>3. home[files[engine'][f]] = published + 1 /\ home[files[engine'][f]] <= published
        BY <3>1, <3>2, <4>2 DEF RegistryInv
      <4>. QED
        BY <4>1, <4>3
    <3>. QED
      BY <1>1, <3>1, <3>2 DEF EntryInv
  <2>2. CASE deactivate
    BY <2>2 DEF deactivate, EntryInv
  <2>. QED
    BY <2>1, <2>2
<1>. QED
  BY <1>2, <1>3 DEF NumberInv

LEMMA NumberStep ==
  TypeOK /\ HookInv /\ FrameInv /\ RegistryInv /\ NumberInv /\ [Next]_vars => NumberInv'
<1> SUFFICES ASSUME TypeOK, HookInv, FrameInv, RegistryInv, NumberInv, [Next]_vars
             PROVE  NumberInv'
  OBVIOUS
<1> USE DEF routing, streams
<1>k. "close" \notin Opens /\ "close" \notin Locking /\ "close" \notin Answered
  BY DEF Opens, Locking, Answered, Positional
<1>n. ASSUME NEW p \in Procs, Others(p), ~Owner(p), ~Owner(p)',
             UNCHANGED <<engine, files, table, held, published, opened, home>>
      PROVE  NumberInv'
  BY <1>n, NumberNeutral DEF Grown
<1>1. ASSUME try_activate \/ deactivate PROVE NumberInv'
  BY <1>1, NumberActivate
<1>2. ASSUME NEW p \in Procs, NEW o \in Opens, open_impl(p, o) PROVE NumberInv'
  <2>1. PICK next \in {"orig", "vfs"} : Begin(p, o, NotHeld, next)
    BY <1>2 DEF open_impl
  <2>2. Others(p) /\ ~Owner(p) /\ ~Owner(p)'
    BY <1>2, <1>k, <2>1, OthersFacts DEF open_impl, MayCall, Owner, Closing
  <2>. QED
    BY <1>2, <1>n, <2>2 DEF open_impl
<1>3. ASSUME NEW p \in Procs, NEW o \in FdOps, NEW f \in Fds, CallFd(p, o, f) PROVE NumberInv'
  <2>1. CASE o = "close"
    BY <1>3, <2>1, NumberClose
  <2>2. CASE o # "close"
    <3>1. Begin(p, o, f, "lookup")
      BY <1>3 DEF CallFd
    <3>2. Others(p) /\ ~Owner(p) /\ ~Owner(p)'
      BY <1>3, <2>2, <3>1, OthersFacts DEF CallFd, MayCall, Owner, Closing
    <3>. QED
      BY <1>3, <2>2, <1>n, <3>2 DEF CallFd
  <2>. QED
    BY <2>1, <2>2
<1>r. ASSUME NEW p \in Procs, Return(p), ~Owner(p),
             UNCHANGED <<engine, files, table, held, published, opened, home>>
      PROVE  NumberInv'
  BY <1>r, <1>n, OthersFacts DEF Owner, Closing
<1>g. ASSUME NEW p \in Procs, NEW to, to # "insert", Goto(p, to), UNCHANGED fd, ~Owner(p),
             op[p] # "close", UNCHANGED <<engine, files, table, held, published, opened, home>>
      PROVE  NumberInv'
  BY <1>g, <1>n, OthersFacts DEF Owner, Closing
<1>4. ASSUME NEW p \in Procs, OpenStream(p) PROVE NumberInv'
  <2>1. ~Owner(p) /\ op[p] # "close" /\ UNCHANGED <<engine, files, table, held, published>>
    BY <1>4, <1>k, FrameFacts DEF OpenStream, Running, Owner, Closing
  <2>2. Others(p) /\ ~Owner(p)'
    BY <1>4, <2>1, OthersFacts DEF OpenStream, Owner, Closing
  <2>3. Grown
    BY <1>4, BoundsAssumption DEF OpenStream, Grown, TypeOK, Streams
  <2>. QED
    BY <2>1, <2>2, <2>3, NumberNeutral
<1>5. ASSUME NEW p \in Procs, carrier_fd(p) PROVE NumberInv'
  BY <1>5, NumberCarrier
<1>6. ASSUME NEW p \in Procs, insert_file(p) PROVE NumberInv'
  BY <1>6, NumberInsert
<1>7. ASSUME NEW p \in Procs, get_file(p) PROVE NumberInv'
  <2>1. ~Owner(p) /\ op[p] # "close"
    BY <1>7, <1>k DEF get_file, Running, Owner, Closing
  <2>. QED
    BY <1>7, <1>g, <2>1 DEF get_file
<1>8. ASSUME NEW p \in Procs, Answer(p), op[p] \in Answered PROVE NumberInv'
  <2>1. ~Owner(p) /\ op[p] # "close"
    BY <1>8, <1>k DEF Answer, Running, Owner, Closing
  <2>. QED
    BY <1>8, <1>g, <1>r, <2>1 DEF Answer
<1>9. ASSUME NEW p \in Procs, remove_file(p) PROVE NumberInv'
  BY <1>9, NumberRemove
<1>10. ASSUME NEW p \in Procs, Original(p) PROVE NumberInv'
  BY <1>10, NumberOriginal
<1>l. ASSUME NEW p \in Procs, pc[p] \in {"lock", "io", "seek", "move", "restore", "vfs"}
      PROVE  ~Owner(p) /\ op[p] # "close"
  BY <1>l, <1>k, FrameFacts DEF Owner, Closing
<1>11. ASSUME NEW p \in Procs, Refuse(p) PROVE NumberInv'
  BY <1>11, <1>l, <1>r DEF Refuse, Running
<1>12. ASSUME NEW p \in Procs, Lock(p) PROVE NumberInv'
  BY <1>12, <1>l, <1>g DEF Lock, Running
<1>13. ASSUME NEW p \in Procs, fchmod(p) PROVE NumberInv'
  BY <1>13, <1>l, <1>g, <1>r DEF fchmod, Running
<1>14. ASSUME NEW p \in Procs, read(p) \/ write(p) \/ lseek(p) \/ ftruncate_fd(p) \/ fsync(p)
       PROVE  NumberInv'
  BY <1>14, <1>l, <1>r DEF read, write, lseek, ftruncate_fd, fsync, Running
<1>15. ASSUME NEW p \in Procs, NEW targets, SaveAndSeek(p, targets) PROVE NumberInv'
  BY <1>15, <1>l, <1>g DEF SaveAndSeek, Running
<1>16. ASSUME NEW p \in Procs, Transfer(p) PROVE NumberInv'
  BY <1>16, <1>l, <1>g DEF Transfer, Running
<1>17. ASSUME NEW p \in Procs, SeekBack(p) \/ Panic(p) PROVE NumberInv'
  BY <1>17, <1>l, <1>r DEF SeekBack, Panic, Running
<1>18. CASE UNCHANGED vars
  BY <1>18 DEF vars, NumberInv, OwnerInv, CarrierInv, EntryInv, ServedInv, Owner, Closing, Streams
<1>. QED
  BY <1>1, <1>2, <1>3, <1>4, <1>5, <1>6, <1>7, <1>8, <1>9, <1>10, <1>11, <1>12, <1>13, <1>14,
     <1>15, <1>16, <1>17, <1>18
     DEF Next, Step, fstatvfs, fdopendir, sendfile, Answered, pread, pwrite, fstat

-----------------------------------------------------------------------------
(* Write access *)

LEMMA WriteStep ==
  TypeOK /\ HookInv /\ FrameInv /\ RegistryInv /\ WriteInv /\ [Next]_vars => WriteInv'
<1> SUFFICES ASSUME TypeOK, HookInv, FrameInv, RegistryInv, WriteInv, [Next]_vars
             PROVE  WriteInv'
  OBVIOUS
<1> USE DEF routing, streams, Opening, Holding
<1> DEFINE Allowed(q) == pc[q] \in Opening /\ op[q] = "open_write" => AllowWrites[eng[q]]
           Granted(q) == pc[q] \in Holding /\ op[q] \in Mutating => writable[obj[q]]
<1>a. \A q \in Procs : Allowed(q) /\ Granted(q)
  BY DEF WriteInv
<1>b. ASSUME NEW p \in Procs, Others(p), UNCHANGED <<home, writable>>,
             \A q \in Procs : q # p => obj'[q] = obj[q], Allowed(p)', Granted(p)'
      PROVE  WriteInv'
  <2>1. \A q \in Procs : q # p => Allowed(q)' /\ Granted(q)'
    BY <1>a, <1>b DEF Others
  <2>. QED
    BY <1>b, <2>1 DEF WriteInv
<1>r. ASSUME NEW p \in Procs, Return(p), UNCHANGED <<home, writable>> PROVE WriteInv'
  <2>1. Others(p) /\ pc'[p] = "idle" /\ \A q \in Procs : q # p => obj'[q] = obj[q]
    BY <1>r, OthersFacts DEF Return, TypeOK
  <2>. QED
    BY <1>b, <1>r, <2>1
<1>g. ASSUME NEW p \in Procs, NEW to, Goto(p, to), UNCHANGED <<home, writable, fd, obj>>,
             \/ to = "orig"
             \/ to \in Holding /\ (op[p] \in Mutating => writable[obj[p]])
             \/ to \in Holding /\ pc[p] \in Holding
      PROVE  WriteInv'
  <2>1. Others(p) /\ pc'[p] = to /\ op'[p] = op[p] /\ eng'[p] = eng[p]
    BY <1>g, OthersFacts
  <2>2. Allowed(p)' /\ Granted(p)'
    BY <1>g, <1>a, <2>1
  <2>. QED
    BY <1>b, <1>g, <2>1, <2>2
<1>1. ASSUME try_activate \/ deactivate PROVE WriteInv'
  BY <1>1 DEF try_activate, deactivate, WriteInv
<1>2. ASSUME NEW p \in Procs, NEW o \in Opens, open_impl(p, o) PROVE WriteInv'
  <2>1. PICK next \in {"orig", "vfs"} : /\ Begin(p, o, NotHeld, next)
                                        /\ next = "vfs" /\ engine # 0 => WriteGranted(o)
    BY <1>2 DEF open_impl
  <2>2. /\ Others(p) /\ op'[p] = o /\ pc'[p] = IF Enters(p) /\ engine # 0 THEN next ELSE "orig"
        /\ eng'[p] = IF Enters(p) THEN engine ELSE 0
    BY <2>1, OthersFacts
  <2>3. Allowed(p)' /\ Granted(p)'
    BY <2>1, <2>2 DEF WriteGranted
  <2>. QED
    BY <1>2, <1>b, <2>1, <2>2, <2>3 DEF open_impl, Begin
<1>3. ASSUME NEW p \in Procs, NEW o \in FdOps, NEW f \in Fds, CallFd(p, o, f) PROVE WriteInv'
  <2>1. Begin(p, o, f, "lookup") /\ UNCHANGED <<home, writable, obj>>
    BY <1>3 DEF CallFd, Begin
  <2>2. Others(p) /\ pc'[p] \in {"lookup", "orig"}
    BY <2>1, OthersFacts
  <2>. QED
    BY <1>b, <2>1, <2>2
<1>4. ASSUME NEW p \in Procs, OpenStream(p) PROVE WriteInv'
  <2>1. CASE Return(p) /\ UNCHANGED streams
    BY <2>1, <1>r
  <2>2. CASE ~(Return(p) /\ UNCHANGED streams)
    <3>1. /\ opened < program.opens
          /\ home' = [home EXCEPT ![opened + 1] = eng[p]]
          /\ writable' = [writable EXCEPT ![opened + 1] = (op[p] = "open_write")]
          /\ obj' = [obj EXCEPT ![p] = opened + 1]
          /\ Goto(p, "carrier") /\ UNCHANGED fd
      BY <1>4, <2>2 DEF OpenStream
    <3>2. Others(p) /\ pc'[p] = "carrier" /\ op'[p] = op[p] /\ eng'[p] = eng[p]
      BY <3>1, OthersFacts
    <3>3. opened + 1 \in Streams
      BY <3>1, ProgramFacts, BoundsAssumption DEF TypeOK, Streams
    <3>4. pc[p] = "vfs" /\ eng[p] \in Engines
      BY <1>4, FrameFacts DEF OpenStream, Running
    <3>5. \A q \in Procs : Allowed(q)'
      BY <3>2, <3>4, <1>a DEF Others
    <3>6. \A o \in Streams : writable'[o] => home'[o] \in Engines /\ AllowWrites[home'[o]]
      BY <3>1, <3>3, <3>4, <1>a DEF WriteInv, TypeOK
    <3>7. ASSUME NEW q \in Procs PROVE Granted(q)'
      <4>1. CASE q = p
        BY <4>1, <3>2
      <4>2. CASE q # p
        <5>1. pc'[q] = pc[q] /\ op'[q] = op[q] /\ obj'[q] = obj[q]
          BY <4>2, <3>1, <3>2 DEF Others, TypeOK
        <5>2. pc[q] \in Holding => obj[q] \in 1..opened /\ obj[q] \in Streams
          BY FrameFacts
        <5>3. pc[q] \in Holding => writable'[obj[q]] = writable[obj[q]]
          BY <3>1, <5>2, BoundsAssumption DEF TypeOK
        <5>. QED
          BY <5>1, <5>3, <1>a
      <4>. QED
        BY <4>1, <4>2
    <3>. QED
      BY <3>5, <3>6, <3>7 DEF WriteInv
  <2>. QED
    BY <2>1, <2>2
<1>5. ASSUME NEW p \in Procs, carrier_fd(p) PROVE WriteInv'
  <2>1. CASE Return(p)
    BY <2>1, <1>5, <1>r DEF carrier_fd
  <2>2. CASE ~Return(p)
    <3>1. Goto(p, "insert") /\ pc[p] = "carrier" /\ UNCHANGED <<home, writable, obj>>
      BY <2>2, <1>5 DEF carrier_fd, Running
    <3>2. \E f : fd' = [fd EXCEPT ![p] = f]
      BY <2>2, <1>5 DEF carrier_fd
    <3>3. Others(p) /\ pc'[p] = "insert" /\ op'[p] = op[p] /\ eng'[p] = eng[p]
      BY <3>1, <3>2 DEF Goto, Others, TypeOK
    <3>. QED
      BY <1>b, <1>a, <3>1, <3>3
  <2>. QED
    BY <2>1, <2>2
<1>6. ASSUME NEW p \in Procs, insert_file(p) \/ Original(p) \/ Refuse(p) PROVE WriteInv'
  BY <1>6, <1>r DEF insert_file, Original, Refuse
<1>7. ASSUME NEW p \in Procs, get_file(p) PROVE WriteInv'
  <2>1. /\ Goto(p, IF Entry(p) = 0 THEN "orig" ELSE "lock") /\ UNCHANGED <<home, writable, fd>>
        /\ obj' = [obj EXCEPT ![p] = Entry(p)]
    BY <1>7 DEF get_file
  <2>2. Others(p) /\ pc'[p] \in {"orig", "lock"} /\ \A q \in Procs : q # p => obj'[q] = obj[q]
    BY <2>1, OthersFacts DEF TypeOK
  <2>. QED
    BY <1>b, <2>1, <2>2
<1>8. ASSUME NEW p \in Procs, Answer(p) \/ fchmod(p) PROVE WriteInv'
  BY <1>8, <1>r, <1>g DEF Answer, fchmod
<1>9. ASSUME NEW p \in Procs, remove_file(p) PROVE WriteInv'
  BY <1>9, <1>g DEF remove_file
<1>10. ASSUME NEW p \in Procs, Lock(p) PROVE WriteInv'
  BY <1>10, <1>g DEF Lock, Permitted
<1>11. ASSUME NEW p \in Procs, read(p) \/ write(p) \/ lseek(p) \/ ftruncate_fd(p) \/ fsync(p)
       PROVE  WriteInv'
  BY <1>11, <1>r DEF read, write, lseek, ftruncate_fd, fsync
<1>12. ASSUME NEW p \in Procs, NEW targets, SaveAndSeek(p, targets) PROVE WriteInv'
  BY <1>12, <1>g DEF SaveAndSeek, Running
<1>13. ASSUME NEW p \in Procs, Transfer(p) PROVE WriteInv'
  BY <1>13, <1>g DEF Transfer, Running
<1>14. ASSUME NEW p \in Procs, SeekBack(p) \/ Panic(p) PROVE WriteInv'
  BY <1>14, <1>r DEF SeekBack, Panic
<1>15. CASE UNCHANGED vars
  BY <1>15 DEF vars, WriteInv
<1>. QED
  BY <1>1, <1>2, <1>3, <1>4, <1>5, <1>6, <1>7, <1>8, <1>9, <1>10, <1>11, <1>12, <1>13, <1>14, <1>15
     DEF Next, Step, fstatvfs, fdopendir, sendfile, pread, pwrite, fstat

-----------------------------------------------------------------------------
(* The lock of the open file, and the cursor under it *)

StreamInv == LockInv /\ CursorInv

USE DEF Dependable

(* What LockInv and CursorInv say of one call. *)
LocksAt(p) ==
  /\ pc[p] \in Holding => holder[obj[p]] = p
  /\ pc[p] \in {"io", "seek"} /\ Dependable(obj[p]) => pos[obj[p]] = expect[obj[p]]
  /\ pc[p] \in {"move", "restore"} /\ Dependable(obj[p]) => saved[p] = expect[obj[p]]

(* and of one stream. *)
LockOf(o) ==
  /\ holder[o] # NoProc => pc[holder[o]] \in Holding /\ obj[holder[o]] = o
  /\ holder[o] = NoProc /\ Dependable(o) => pos[o] = expect[o]

LEMMA CursorParts ==
  /\ StreamInv <=> (\A p \in Procs : LocksAt(p)) /\ (\A o \in Streams : LockOf(o))
  /\ StreamInv' <=> (\A p \in Procs : LocksAt(p)') /\ (\A o \in Streams : LockOf(o)')
BY DEF StreamInv, LockInv, CursorInv, LocksAt, LockOf

(* A call that is not under a lock moves to a step that is not. *)
LEMMA CursorOutside ==
  ASSUME TypeOK, StreamInv, NEW p \in Procs, Others(p), pc[p] \notin Holding, pc'[p] \notin Holding,
         \A q \in Procs : q # p => obj'[q] = obj[q] /\ saved'[q] = saved[q],
         UNCHANGED <<pos, expect, holder, poisoned, strayed>>
  PROVE  StreamInv'
<1>1. ASSUME NEW q \in Procs PROVE LocksAt(q)'
  BY <1>1, CursorParts DEF LocksAt, Others, Holding
<1>2. ASSUME NEW o \in Streams PROVE LockOf(o)'
  <2>1. LockOf(o) /\ holder[o] \in Procs \cup {NoProc}
    BY CursorParts DEF TypeOK
  <2>2. holder[o] # NoProc => holder[o] # p
    BY <2>1 DEF LockOf
  <2>. QED
    BY <2>1, <2>2 DEF LockOf, Others
<1>. QED
  BY <1>1, <1>2, CursorParts

(* The holder of a lock leaves it, with the cursor where it is expected.   *)
LEMMA CursorUnlock ==
  ASSUME TypeOK, FrameInv, StreamInv, NEW p \in Procs, pc[p] \in Holding, Unlock(p), Return(p),
         \A o \in Streams : o # obj[p] => pos'[o] = pos[o] /\ expect'[o] = expect[o]
                                          /\ poisoned'[o] = poisoned[o]
                                          /\ strayed'[o] = strayed[o],
         ~poisoned'[obj[p]] /\ ~strayed'[obj[p]] => pos'[obj[p]] = expect'[obj[p]]
  PROVE  StreamInv'
<1>1. obj[p] \in Streams /\ holder[obj[p]] = p
  BY FrameFacts, CursorParts DEF LocksAt, Holding
<1>2. Others(p) /\ pc'[p] = "idle"
      /\ \A q \in Procs : q # p => obj'[q] = obj[q] /\ saved'[q] = saved[q]
  <2>1. \A q \in Procs : q # p => obj'[q] = obj[q] /\ saved'[q] = saved[q]
    BY DEF Return, TypeOK
  <2>. QED
    BY <2>1, OthersFacts
<1>3. \A o \in Streams : holder'[o] = IF o = obj[p] THEN NoProc ELSE holder[o]
  BY <1>1 DEF Unlock, TypeOK
<1>4. ASSUME NEW q \in Procs PROVE LocksAt(q)'
  <2>1. CASE q = p
    BY <2>1, <1>2 DEF LocksAt, Holding
  <2>2. CASE q # p
    <3>1. pc[q] \in Holding => obj[q] \in Streams /\ obj[q] # obj[p]
      BY <2>2, <1>1, FrameFacts, CursorParts DEF LocksAt, Holding
    <3>. QED
      BY <2>2, <3>1, <1>2, <1>3, CursorParts DEF LocksAt, Others, Holding
  <2>. QED
    BY <2>1, <2>2
<1>5. ASSUME NEW o \in Streams PROVE LockOf(o)'
  <2>1. CASE o = obj[p]
    BY <2>1, <1>3 DEF LockOf
  <2>2. CASE o # obj[p]
    <3>1. LockOf(o) /\ holder[o] \in Procs \cup {NoProc} /\ holder[o] # p
      BY <2>2, CursorParts, ProcFacts DEF LockOf, TypeOK
    <3>. QED
      BY <2>2, <3>1, <1>2, <1>3 DEF LockOf, Others
  <2>. QED
    BY <2>1, <2>2
<1>. QED
  BY <1>4, <1>5, CursorParts

(* The holder goes on under its lock. *)
LEMMA CursorInside ==
  ASSUME TypeOK, FrameInv, StreamInv, NEW p \in Procs, pc[p] \in Holding, NEW to \in Holding,
         Goto(p, to), UNCHANGED <<fd, obj, holder, poisoned, strayed>>,
         \A o \in Streams : o # obj[p] => pos'[o] = pos[o] /\ expect'[o] = expect[o],
         \A q \in Procs : q # p => saved'[q] = saved[q],
         LocksAt(p)'
  PROVE  StreamInv'
<1>1. obj[p] \in Streams /\ holder[obj[p]] = p
  BY FrameFacts, CursorParts DEF LocksAt, Holding
<1>2. Others(p) /\ pc'[p] = to
  BY OthersFacts
<1>3. ASSUME NEW q \in Procs, q # p PROVE LocksAt(q)'
  <2>1. pc[q] \in Holding => obj[q] \in Streams /\ obj[q] # obj[p]
    BY <1>3, <1>1, FrameFacts, CursorParts DEF LocksAt, Holding
  <2>. QED
    BY <1>3, <2>1, <1>2, CursorParts DEF LocksAt, Others, Holding
<1>4. ASSUME NEW o \in Streams PROVE LockOf(o)'
  <2>1. LockOf(o) /\ holder[o] \in Procs \cup {NoProc}
    BY CursorParts DEF TypeOK
  <2>2. CASE o = obj[p]
    BY <2>2, <1>1, <1>2, ProcFacts DEF LockOf
  <2>3. CASE o # obj[p]
    BY <2>1, <2>3, <1>1, <1>2 DEF LockOf, Others
  <2>. QED
    BY <2>2, <2>3
<1>. QED
  BY <1>3, <1>4, CursorParts

(* The lock is taken of a stream whose cursor is in its place. *)
LEMMA CursorLock ==
  ASSUME TypeOK, FrameInv, StreamInv, NEW p \in Procs, Lock(p)
  PROVE  StreamInv'
<1>1. /\ pc[p] = "lock" /\ holder[obj[p]] = NoProc /\ holder' = [holder EXCEPT ![obj[p]] = p]
      /\ Goto(p, IF op[p] \in Positional THEN "seek" ELSE "io")
      /\ UNCHANGED <<fd, obj, saved, pos, expect, poisoned, strayed>>
  BY DEF Lock, Running, Free, cursors
<1>2. obj[p] \in Streams /\ Others(p) /\ pc'[p] \in {"seek", "io"}
  BY <1>1, FrameFacts, OthersFacts
<1>3. \A o \in Streams : holder'[o] = IF o = obj[p] THEN p ELSE holder[o]
  BY <1>1, <1>2 DEF TypeOK
<1>4. ASSUME NEW q \in Procs PROVE LocksAt(q)'
  <2>1. CASE q = p
    BY <2>1, <1>1, <1>2, <1>3, CursorParts DEF LocksAt, LockOf
  <2>2. CASE q # p
    <3>1. pc[q] \in Holding => obj[q] \in Streams /\ obj[q] # obj[p]
      <4>1. q # NoProc /\ (pc[q] \in Holding => holder[obj[q]] = q)
        BY CursorParts, ProcFacts DEF LocksAt
      <4>. QED
        BY <4>1, <1>1, FrameFacts DEF Holding
    <3>. QED
      BY <2>2, <3>1, <1>1, <1>2, <1>3, CursorParts DEF LocksAt, Others, Holding
  <2>. QED
    BY <2>1, <2>2
<1>5. ASSUME NEW o \in Streams PROVE LockOf(o)'
  <2>1. LockOf(o) /\ holder[o] \in Procs \cup {NoProc}
    BY CursorParts DEF TypeOK
  <2>2. holder[o] # p
    BY <2>1, <1>1, ProcFacts DEF LockOf, Holding
  <2>. QED
    BY <2>1, <2>2, <1>1, <1>2, <1>3, ProcFacts DEF LockOf, Others, Holding
<1>. QED
  BY <1>4, <1>5, CursorParts

LEMMA CursorStep == TypeOK /\ FrameInv /\ StreamInv /\ [Next]_vars => StreamInv'
<1> SUFFICES ASSUME TypeOK, FrameInv, StreamInv, [Next]_vars PROVE StreamInv'
  OBVIOUS
<1> USE DEF cursors, locks
<1>r. ASSUME NEW p \in Procs, pc[p] \notin Holding, Return(p),
             UNCHANGED <<pos, expect, holder, poisoned, strayed>>
      PROVE  StreamInv'
  <2>1. Others(p) /\ pc'[p] = "idle"
    BY <1>r, OthersFacts
  <2>2. \A q \in Procs : q # p => obj'[q] = obj[q] /\ saved'[q] = saved[q]
    BY <1>r DEF Return, TypeOK
  <2>. QED
    BY <1>r, <2>1, <2>2, CursorOutside DEF Holding
<1>g. ASSUME NEW p \in Procs, NEW to \in {"orig", "lock", "carrier", "insert"},
             pc[p] \notin Holding, Goto(p, to),
             \A q \in Procs : q # p => obj'[q] = obj[q] /\ fd'[q] = fd[q],
             UNCHANGED <<saved, pos, expect, holder, poisoned, strayed>>
      PROVE  StreamInv'
  <2>1. Others(p) /\ pc'[p] = to
    BY <1>g DEF Goto, Others, TypeOK
  <2>. QED
    BY <1>g, <2>1, CursorOutside DEF Holding
<1>b. ASSUME NEW p \in Procs, NEW o, NEW f, NEW next \in {"orig", "vfs", "lookup"},
             MayCall(p), Begin(p, o, f, next), UNCHANGED <<pos, expect, holder, poisoned, strayed>>
      PROVE  StreamInv'
  <2>1. Others(p) /\ pc'[p] \in {"orig", "vfs", "lookup"}
    BY <1>b, OthersFacts
  <2>2. pc[p] = "idle" /\ UNCHANGED <<obj, saved>>
    BY <1>b DEF MayCall, Begin
  <2>. QED
    BY <1>b, <2>1, <2>2, CursorOutside DEF Holding
<1>h. ASSUME NEW p \in Procs, pc[p] \in Holding
      PROVE  obj[p] \in Streams /\ LocksAt(p) /\ holder[obj[p]] = p
  BY <1>h, FrameFacts, CursorParts DEF Holding, LocksAt
<1>1. ASSUME try_activate \/ deactivate PROVE StreamInv'
  BY <1>1 DEF try_activate, deactivate, StreamInv, LockInv, CursorInv
<1>2. ASSUME NEW p \in Procs, NEW o \in Opens, open_impl(p, o) PROVE StreamInv'
  BY <1>2, <1>b DEF open_impl
<1>3. ASSUME NEW p \in Procs, NEW o \in FdOps, NEW f \in Fds, CallFd(p, o, f) PROVE StreamInv'
  BY <1>3, <1>b DEF CallFd
<1>4. ASSUME NEW p \in Procs, OpenStream(p) PROVE StreamInv'
  <2>1. pc[p] \notin Holding
    BY <1>4 DEF OpenStream, Running, Holding
  <2>2. CASE Return(p)
    BY <1>4, <2>1, <2>2, <1>r DEF OpenStream
  <2>3. CASE ~Return(p)
    <3>1. Goto(p, "carrier") /\ obj' = [obj EXCEPT ![p] = opened + 1]
          /\ UNCHANGED <<fd, saved, pos, expect, holder, poisoned, strayed>>
      BY <1>4, <2>3 DEF OpenStream
    <3>2. \A q \in Procs : q # p => obj'[q] = obj[q] /\ fd'[q] = fd[q]
      BY <3>1 DEF TypeOK
    <3>. QED
      BY <2>1, <3>1, <3>2, <1>g
  <2>. QED
    BY <2>2, <2>3
<1>5. ASSUME NEW p \in Procs, carrier_fd(p) PROVE StreamInv'
  <2>1. pc[p] \notin Holding
    BY <1>5 DEF carrier_fd, Running, Holding
  <2>2. CASE Return(p)
    BY <1>5, <2>1, <2>2, <1>r DEF carrier_fd
  <2>3. CASE ~Return(p)
    <3>1. Goto(p, "insert") /\ (\E f : fd' = [fd EXCEPT ![p] = f])
          /\ UNCHANGED <<obj, saved, pos, expect, holder, poisoned, strayed>>
      BY <1>5, <2>3 DEF carrier_fd
    <3>2. \A q \in Procs : q # p => obj'[q] = obj[q] /\ fd'[q] = fd[q]
      BY <3>1 DEF TypeOK
    <3>. QED
      BY <2>1, <3>1, <3>2, <1>g
  <2>. QED
    BY <2>2, <2>3
<1>6. ASSUME NEW p \in Procs, insert_file(p) \/ Original(p) \/ Refuse(p) PROVE StreamInv'
  <2>1. pc[p] \notin Holding
    BY <1>6 DEF insert_file, Original, Refuse, Running, Holding
  <2>. QED
    BY <1>6, <2>1, <1>r DEF insert_file, Original, Refuse
<1>7. ASSUME NEW p \in Procs, get_file(p) PROVE StreamInv'
  <2>1. Goto(p, IF Entry(p) = 0 THEN "orig" ELSE "lock") /\ obj' = [obj EXCEPT ![p] = Entry(p)]
        /\ UNCHANGED <<fd, saved, pos, expect, holder, poisoned, strayed>> /\ pc[p] \notin Holding
    BY <1>7 DEF get_file, Running, Holding
  <2>2. \A q \in Procs : q # p => obj'[q] = obj[q] /\ fd'[q] = fd[q]
    BY <2>1 DEF TypeOK
  <2>. QED
    BY <2>1, <2>2, <1>g
<1>8. ASSUME NEW p \in Procs, Answer(p) \/ remove_file(p) \/ fchmod(p) PROVE StreamInv'
  <2>1. pc[p] \notin Holding
    BY <1>8 DEF Answer, remove_file, fchmod, Running, Holding
  <2>. QED
    BY <1>8, <2>1, <1>r, <1>g DEF Answer, remove_file, fchmod
<1>9. ASSUME NEW p \in Procs, Lock(p) PROVE StreamInv'
  BY <1>9, CursorLock
<1>v. ASSUME NEW p \in Procs, pc[p] = "io", Unlock(p), Return(p), NEW n \in Int, Advance(p, n),
             UNCHANGED <<poisoned, strayed>>
      PROVE  StreamInv'
  <2>1. obj[p] \in Streams /\ LocksAt(p) /\ pc[p] \in Holding
    BY <1>v, <1>h DEF Holding
  <2>2. \A o \in Streams : /\ pos'[o] = IF o = obj[p] THEN pos[o] + n ELSE pos[o]
                           /\ expect'[o] = IF o = obj[p] THEN expect[o] + n ELSE expect[o]
    BY <1>v, <2>1 DEF Advance, TypeOK
  <2>. QED
    BY <1>v, <2>1, <2>2, CursorUnlock DEF LocksAt
<1>10. ASSUME NEW p \in Procs, read(p) \/ write(p) PROVE StreamInv'
  <2>1. PICK n \in Room(pos[obj[p]]) \cap Room(expect[obj[p]]) : Advance(p, n)
    BY <1>10 DEF read, write
  <2>2. n \in Int
    BY <2>1 DEF Room
  <2>. QED
    BY <1>10, <2>1, <2>2, <1>v DEF read, write, Running
<1>11. ASSUME NEW p \in Procs, lseek(p) PROVE StreamInv'
  <2>0. pc[p] = "io" /\ Unlock(p) /\ Return(p) /\ UNCHANGED poisoned
    BY <1>11 DEF lseek, Running
  <2>1. ASSUME NEW to \in Positions, pos' = [pos EXCEPT ![obj[p]] = to],
               expect' = [expect EXCEPT ![obj[p]] = to],
               strayed' = [strayed EXCEPT ![obj[p]] = FALSE]
        PROVE  StreamInv'
    <3>1. obj[p] \in Streams /\ pc[p] \in Holding
      BY <2>0, <1>h DEF Holding
    <3>2. \A o \in Streams : /\ pos'[o] = IF o = obj[p] THEN to ELSE pos[o]
                             /\ expect'[o] = IF o = obj[p] THEN to ELSE expect[o]
                             /\ o # obj[p] => strayed'[o] = strayed[o]
      BY <2>1, <3>1 DEF TypeOK
    <3>. QED
      BY <2>0, <3>1, <3>2, CursorUnlock
  <2>2. ASSUME NEW n \in -program.reach..program.reach, Advance(p, n), UNCHANGED strayed
        PROVE  StreamInv'
    BY <2>0, <2>2, <1>v
  <2>. QED
    BY <1>11, <2>1, <2>2 DEF lseek
<1>12. ASSUME NEW p \in Procs, ftruncate_fd(p) \/ fsync(p) PROVE StreamInv'
  <2>1. pc[p] = "io" /\ Unlock(p) /\ Return(p) /\ UNCHANGED <<pos, expect, poisoned, strayed>>
    BY <1>12 DEF ftruncate_fd, fsync, Running
  <2>2. LocksAt(p) /\ pc[p] \in Holding
    BY <2>1, <1>h DEF Holding
  <2>. QED
    BY <2>1, <2>2, CursorUnlock DEF LocksAt
<1>13. ASSUME NEW p \in Procs, NEW targets, SaveAndSeek(p, targets) PROVE StreamInv'
  <2>1. /\ pc[p] = "seek" /\ saved' = [saved EXCEPT ![p] = pos[obj[p]]]
        /\ UNCHANGED <<expect, holder, poisoned, strayed, fd, obj>>
    BY <1>13 DEF SaveAndSeek, Running
  <2>2. obj[p] \in Streams /\ LocksAt(p) /\ pc[p] \in Holding
    BY <2>1, <1>h DEF Holding
  <2>3. PICK to \in {"move", "restore"} : Goto(p, to)
    BY <1>13 DEF SaveAndSeek
  <2>4. \A o \in Streams : o # obj[p] => pos'[o] = pos[o]
    BY <1>13 DEF SaveAndSeek, TypeOK
  <2>5. saved'[p] = pos[obj[p]] /\ pc'[p] = to /\ \A q \in Procs : q # p => saved'[q] = saved[q]
    BY <2>1, <2>3 DEF TypeOK, Goto
  <2>6. LocksAt(p)'
    BY <2>1, <2>2, <2>5 DEF LocksAt
  <2>. QED
    BY <2>1, <2>2, <2>3, <2>4, <2>5, <2>6, CursorInside DEF Holding
<1>14. ASSUME NEW p \in Procs, Transfer(p) PROVE StreamInv'
  <2>1. pc[p] = "move" /\ Goto(p, "restore") /\
                              UNCHANGED <<expect, holder, poisoned, strayed, fd, obj, saved>>
    BY <1>14 DEF Transfer, Running
  <2>2. obj[p] \in Streams /\ LocksAt(p) /\ pc[p] \in Holding
    BY <2>1, <1>h DEF Holding
  <2>3. \A o \in Streams : o # obj[p] => pos'[o] = pos[o]
    BY <1>14 DEF Transfer, TypeOK
  <2>4. pc'[p] = "restore"
    BY <2>1 DEF TypeOK, Goto
  <2>5. LocksAt(p)'
    BY <2>1, <2>2, <2>4 DEF LocksAt
  <2>. QED
    BY <2>1, <2>2, <2>3, <2>5, CursorInside DEF Holding
<1>15. ASSUME NEW p \in Procs, SeekBack(p) PROVE StreamInv'
  <2>1. pc[p] = "restore" /\ Unlock(p) /\ Return(p) /\ UNCHANGED <<expect, poisoned>>
    BY <1>15 DEF SeekBack, Running
  <2>2. obj[p] \in Streams /\ LocksAt(p) /\ pc[p] \in Holding
    BY <2>1, <1>h DEF Holding
  <2>3. CASE pos' = [pos EXCEPT ![obj[p]] = saved[p]] /\ UNCHANGED strayed
    <3>1. \A o \in Streams : pos'[o] = IF o = obj[p] THEN saved[p] ELSE pos[o]
      BY <2>2, <2>3 DEF TypeOK
    <3>. QED
      BY <2>1, <2>2, <2>3, <3>1, CursorUnlock DEF LocksAt
  <2>4. CASE strayed' = [strayed EXCEPT ![obj[p]] = TRUE] /\ UNCHANGED pos
    <3>1. strayed'[obj[p]] /\ \A o \in Streams : o # obj[p] => strayed'[o] = strayed[o]
      BY <2>2, <2>4 DEF TypeOK
    <3>. QED
      BY <2>1, <2>2, <2>4, <3>1, CursorUnlock
  <2>. QED
    BY <1>15, <2>3, <2>4 DEF SeekBack
<1>16. ASSUME NEW p \in Procs, Panic(p) PROVE StreamInv'
  <2>1. PICK at \in {"vfs", "io", "seek", "move", "restore"} : pc[p] = at
    BY <1>16 DEF Panic, Running
  <2>2. Return(p) /\ UNCHANGED <<pos, expect, strayed>>
    BY <1>16 DEF Panic
  <2>3. CASE at = "vfs"
    BY <1>16, <2>1, <2>2, <2>3, <1>r DEF Panic, Holding
  <2>4. CASE at # "vfs"
    <3>1. Unlock(p) /\ poisoned' = [poisoned EXCEPT ![obj[p]] = TRUE]
      BY <1>16, <2>1, <2>4 DEF Panic
    <3>2. obj[p] \in Streams /\ pc[p] \in Holding
      BY <2>1, <2>4, <1>h DEF Holding
    <3>3. poisoned'[obj[p]] /\ \A o \in Streams : o # obj[p] => poisoned'[o] = poisoned[o]
      BY <3>1, <3>2 DEF TypeOK
    <3>. QED
      BY <2>2, <3>1, <3>2, <3>3, CursorUnlock
  <2>. QED
    BY <2>3, <2>4
<1>17. CASE UNCHANGED vars
  BY <1>17 DEF vars, StreamInv, LockInv, CursorInv
<1>. QED
  BY <1>1, <1>2, <1>3, <1>4, <1>5, <1>6, <1>7, <1>8, <1>9, <1>10, <1>11, <1>12, <1>13, <1>14,
     <1>15, <1>16, <1>17
     DEF Next, Step, fstatvfs, fdopendir, sendfile, pread, pwrite, fstat

-----------------------------------------------------------------------------
(* Theorems *)

ShimInv == TypeOK /\ HookInv /\ FrameInv /\ RegistryInv /\ NumberInv /\ WriteInv /\ StreamInv

LEMMA ShimInit == Init => ShimInv
<1> SUFFICES ASSUME Init PROVE ShimInv
  OBVIOUS
<1> USE BoundsAssumption DEF Init
<1>1. 0 \in Positions /\ program \in Programs /\ 0 \in 0..program.panics
  BY ProgramAssumption DEF Positions
<1>2. TypeOK
  <2>1. /\ in_hook \in [Threads -> BOOLEAN] /\ scope \in [Procs -> BOOLEAN]
        /\ writable \in [Streams -> BOOLEAN] /\ poisoned \in [Streams -> BOOLEAN]
        /\ strayed \in [Streams -> BOOLEAN]
    BY Zenon
  <2>. QED
    BY <1>1, <2>1 DEF TypeOK, Kinds, Holdings, NotHeld, PC
<1>3. HookInv
  BY ProcFacts DEF HookInv
<1>4. FrameInv
  BY DEF FrameInv, FrameAt, Opening, Holding, WithStream
<1>5. RegistryInv
  BY DEF RegistryInv
<1>6. NumberInv
  BY DEF NumberInv, OwnerInv, CarrierInv, EntryInv, ServedInv, Owner, Closing,
         NotHeld, Real, Streams
<1>7. WriteInv
  BY DEF WriteInv, Opening, Holding
<1>8. StreamInv
  BY DEF StreamInv, LockInv, CursorInv, Holding
<1>. QED
  BY <1>2, <1>3, <1>4, <1>5, <1>6, <1>7, <1>8 DEF ShimInv

LEMMA ShimStep == ShimInv /\ [Next]_vars => ShimInv'
BY TypeStep, HookStep, FrameStep, RegistryStep, NumberStep, WriteStep, CursorStep DEF ShimInv

LEMMA ShimInvariant == Spec => []ShimInv
BY ShimInit, ShimStep, PTL DEF Spec

(* The state of the shims stays within its types, whatever they do. *)
THEOREM TypeCorrect == Spec => []TypeOK
<1>1. ShimInv => TypeOK
  BY DEF ShimInv
<1>. QED
  BY <1>1, ShimInvariant, PTL

(* An entry of the active registry is always backed by an open carrier:    *)
(* shim_close removes the entry before the original close, and whoever is  *)
(* between the two is the only owner of the number.                        *)
THEOREM EntriesBacked == Spec => []CarrierBacked
<1>1. ShimInv => CarrierBacked
  BY DEF ShimInv, NumberInv, EntryInv, CarrierBacked
<1>. QED
  BY <1>1, ShimInvariant, PTL

(* A virtual descriptor leads to the stream of its own open and a real one *)
(* to no stream, however the threads reuse numbers and engines.            *)
THEOREM HeldServed == Spec => []HeldIsServed
<1>1. ShimInv => HeldIsServed
  <2> SUFFICES ASSUME ShimInv, engine # 0, NEW f \in Fds
               PROVE  /\ held[f] \in Streams /\ home[held[f]] = engine => files[engine][f] = held[f]
                      /\ held[f] = Real => files[engine][f] = 0
    BY DEF HeldIsServed
  <2>1. held[f] \in Streams /\ home[held[f]] = engine => files[engine][f] = held[f]
    BY DEF ShimInv, NumberInv, ServedInv
  <2>2. held[f] = Real => files[engine][f] = 0
    BY DEF ShimInv, NumberInv, EntryInv, OwnerInv
  <2>. QED
    BY <2>1, <2>2
<1>. QED
  BY <1>1, ShimInvariant, PTL

(* When every call has returned, the open carriers are the virtual         *)
(* descriptors the program holds: open_impl and shim_close leak none.      *)
THEOREM NoCarrierLeaks == Spec => []CarriersReclaimed
<1>1. ShimInv => CarriersReclaimed
  BY DEF ShimInv, NumberInv, OwnerInv, CarrierInv, CarriersReclaimed, Owner, Closing
<1>. QED
  BY <1>1, ShimInvariant, PTL

(* A provider mounted without allow_writes is asked neither for a writable *)
(* stream nor to change one.                                               *)
THEOREM WritesAreGranted == Spec => []ReadOnlyEngines
<1>1. ShimInv => ReadOnlyEngines
  <2> SUFFICES ASSUME ShimInv, NEW p \in Procs, InProvider(p),
                      op[p] \in Mutating \cup {"open_write"}
               PROVE  AllowWrites[eng[p]]
    BY DEF ReadOnlyEngines
  <2>1. CASE pc[p] = "vfs"
    BY <2>1, FrameFacts DEF ShimInv, WriteInv, Opening, Opens, Mutating
  <2>2. CASE pc[p] \in {"io", "move"}
    <3>1. op[p] \in Locking /\ obj[p] \in Streams /\ home[obj[p]] = eng[p]
      BY <2>2, FrameFacts DEF ShimInv
    <3>2. op[p] \in Mutating
      BY <3>1 DEF Locking, Positional
    <3>. QED
      BY <2>2, <3>1, <3>2 DEF ShimInv, WriteInv, Holding
  <2>. QED
    BY <2>1, <2>2 DEF InProvider
<1>. QED
  BY <1>1, ShimInvariant, PTL

(* The positional calls are invisible: outside the lock the cursor of a    *)
(* stream is where read, write and lseek alone would have left it, if no   *)
(* call of its provider panicked under the lock and no seek back of pread, *)
(* pwrite or size failed since an lseek last set the position.  The code   *)
(* drops the error of that seek, so nothing can be said after one.         *)
THEOREM CursorPreserved == Spec => []CursorKept
<1>1. ShimInv => CursorKept
  BY DEF ShimInv, StreamInv, CursorInv, CursorKept
<1>. QED
  BY <1>1, ShimInvariant, PTL

(* IN_HOOK keeps a provider's own calls away from the lock its thread      *)
(* holds.                                                                  *)
THEOREM NoSelfDeadlock == Spec => []NoSelfWait
<1>1. ShimInv => NoSelfWait
  BY DEF ShimInv, HookInv, NoSelfWait
<1>. QED
  BY <1>1, ShimInvariant, PTL

=============================================================================
