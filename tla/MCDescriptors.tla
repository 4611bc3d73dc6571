---------------------------- MODULE MCDescriptors ---------------------------
(***************************************************************************)
(* Numbers: two threads open and close the same two numbers, under two     *)
(* installations of which the first allows writes.                         *)
(* Cursors: every call of two threads on one open file, of which a         *)
(* provider call may panic and any seek back may fail.                     *)
(* The sets are closed under exchanging threads and numbers.               *)
(***************************************************************************)
EXTENDS Descriptors, TLC

CONSTANTS t1, t2, f1, f2

FirstAllows == [e \in 1..MaxEngines |-> e = 1]

Numbers ==
  { [calls |-> [t \in Threads |->
                 IF t = w THEN Opens \cup Answered \cup {"write", "fchmod", "close"}
                 ELSE {"open", "pread", "close"}],
     fds |-> Fds, opens |-> 2, engines |-> 2, reach |-> 0, panics |-> 0,
     reentrant |-> {}] : w \in Threads }

Cursors ==
  { [calls |-> [t \in Threads |-> Calls], fds |-> {f}, opens |-> 1, engines |-> 1,
     reach |-> 2, panics |-> 1, reentrant |-> Threads] : f \in Fds }

NumbersAndCursors == Numbers \cup Cursors

Swap == Permutations({t1, t2}) \cup Permutations({f1, f2})
        \cup {g @@ h : g \in Permutations({t1, t2}), h \in Permutations({f1, f2})}
=============================================================================
