----------------------------- MODULE Win32Files -----------------------------
(***************************************************************************)
(* What a Windows program expects of the files it has open, whoever serves *)
(* them: every call on an open file or on a directory search takes effect  *)
(* at one instant between the call and its return, whatever the other      *)
(* threads do.  A positioned transfer moves the file pointer and transfers *)
(* at once, SetEndOfFile cuts the file where its pointer is at that        *)
(* instant, and a search gives every name of one snapshot of the directory *)
(* once.  A call may also fail, a failed positioned transfer having moved  *)
(* the pointer.                                                            *)
(***************************************************************************)
EXTENDS Integers, Sequences

CONSTANTS Threads, Names, Nodes, Opens, Finds, Limit

VARIABLES
  names,     \* [Names -> Nodes \cup {0}], the directory
  size,      \* [Nodes -> 0..Limit], the length of each file
  open,      \* [Opens -> [node, pos]], node 0 before it is opened
  search,    \* [Finds -> [left, given]], names to give and names given
  asked      \* [Threads -> request], what each thread has called and awaits

vars == <<names, size, open, search, asked>>

Nothing == [op |-> "none", o |-> 0, method |-> 0, off |-> 0, n |-> 0]

Init ==
  /\ names = [a \in Names |-> 0] /\ size = [x \in Nodes |-> 0]
  /\ open = [o \in Opens |-> [node |-> 0, pos |-> 0]]
  /\ search = [f \in Finds |-> [left |-> <<>>, given |-> <<>>]]
  /\ asked = [t \in Threads |-> Nothing]

-----------------------------------------------------------------------------
(* The directory *)

Live == {a \in Names : names[a] # 0}

(* A name comes to stand for another node or for none: an open that        *)
(* creates, a deletion, a move, a new directory.                           *)
Rename ==
  /\ names' \in [Names -> Nodes \cup {0}] /\ names' # names
  /\ \E a, b \in Names : \A c \in Names \ {a, b} : names'[c] = names[c]
  /\ UNCHANGED <<size, open, search, asked>>

(* A handle is opened at the start of a file, or at its end to append, and *)
(* the open may cut the file.                                              *)
Open ==
  /\ \E o \in Opens, x \in Nodes :
       /\ open[o].node = 0
       /\ size' \in {size, [size EXCEPT ![x] = 0]}
       /\ \E p \in {0, size'[x]} : open' = [open EXCEPT ![o] = [node |-> x, pos |-> p]]
  /\ UNCHANGED <<names, search, asked>>

-----------------------------------------------------------------------------
(* Calls on an open file *)

Ask(t) ==
  /\ asked[t] = Nothing
  /\ asked' = [asked EXCEPT ![t] = asked'[t]] /\ asked'[t] # Nothing
  /\ UNCHANGED <<names, size, open, search>>

Answered(t) == asked' = [asked EXCEPT ![t] = Nothing]

(* The position a request of t is about. *)
Target(t) ==
  LET r == asked[t]  f == open[r.o]
  IN  r.off + CASE r.method = 0 -> 0
                [] r.method = 1 -> f.pos
                [] r.method = 2 -> size[f.node]

PointerAt(o, p) == open' = [open EXCEPT ![o].pos = p]

ReadAt(t) ==
  LET r == asked[t]  x == open[r.o].node
  IN  /\ r.op = "read" /\ Answered(t)
      /\ \E k \in 0..r.n : /\ k > 0 => Target(t) + k <= size[x]
                           /\ PointerAt(r.o, Target(t) + k)
      /\ UNCHANGED <<names, size, search>>

WriteAt(t) ==
  LET r == asked[t]  x == open[r.o].node  end == Target(t) + r.n
  IN  /\ r.op = "write" /\ Answered(t)
      /\ PointerAt(r.o, end)
      /\ size' = [size EXCEPT ![x] = IF r.n > 0 /\ end > @ THEN end ELSE @]
      /\ UNCHANGED <<names, search>>

Seek(t) ==
  /\ asked[t].op = "seek" /\ Answered(t)
  /\ PointerAt(asked[t].o, Target(t))
  /\ UNCHANGED <<names, size, search>>

SetEnd(t) ==
  LET f == open[asked[t].o]
  IN  /\ asked[t].op = "end" /\ Answered(t)
      /\ size' = [size EXCEPT ![f.node] = f.pos]
      /\ UNCHANGED <<names, open, search>>

Fail(t) ==
  /\ asked[t] # Nothing /\ Answered(t)
  /\ \/ UNCHANGED open
     \/ asked[t].op \in {"read", "write"} /\ PointerAt(asked[t].o, Target(t))
  /\ UNCHANGED <<names, size, search>>

-----------------------------------------------------------------------------
(* Searches of the directory *)

NoRepeat(s) == \A i, j \in DOMAIN s : s[i] = s[j] => i = j
Elements(s) == {s[i] : i \in DOMAIN s}

(* The names that match are those of one instant. *)
Snapshot(f) ==
  /\ search[f] = [left |-> <<>>, given |-> <<>>]
  /\ \/ Elements(search'[f].left) = Live
     \/ \E a \in Live : search'[f].left = <<a>>
  /\ NoRepeat(search'[f].left) /\ search'[f].given = <<>>
  /\ search' = [search EXCEPT ![f] = search'[f]]
  /\ UNCHANGED <<names, size, open, asked>>

Give(f) ==
  /\ search[f].left # <<>>
  /\ search' = [search EXCEPT ![f] =
                  [left |-> Tail(@.left), given |-> Append(@.given, Head(@.left))]]
  /\ UNCHANGED <<names, size, open, asked>>

-----------------------------------------------------------------------------
Next ==
  \/ Rename \/ Open
  \/ \E t \in Threads : \/ Ask(t) \/ ReadAt(t) \/ WriteAt(t) \/ Seek(t)
                        \/ SetEnd(t) \/ Fail(t)
  \/ \E f \in Finds : Snapshot(f) \/ Give(f)

Spec == Init /\ [][Next]_vars
=============================================================================
