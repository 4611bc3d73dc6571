---------------------------- MODULE MCWinHandles ----------------------------
(***************************************************************************)
(* An instance of WinHandles: two threads that share their handles.        *)
(***************************************************************************)
EXTENDS WinHandles

CONSTANTS t1, t2, h1, h2, a, b

HandleSymmetry == Permutations(Handles)

(* The second installation may not write. *)
MCAllowWrites == [e \in 1..MaxEngines |-> e = 1]

MCProgram(first, second, modes, paths, engines) ==
  [calls |-> [t \in Threads |-> IF t = t1 THEN first ELSE second],
   modes |-> modes, paths |-> paths, engines |-> engines]

(* Two threads on one file. *)
Transfers == MCProgram(
  {"CreateFile", "WriteFile", "SetEndOfFile", "Query"},
  {"ReadFile", "SetFilePointer", "SetFilePointerEx"},
  {<<"write", "CREATE_ALWAYS", FALSE>>, <<"read", "OPEN_EXISTING", FALSE>>}, {a}, 1)

(* Two threads on one search, while names come and go. *)
Searching == MCProgram(
  {"CreateFile", "FindFirstFile", "FindNextFile", "DeleteFile"},
  {"FindNextFile", "FindClose", "MoveFile", "CreateDirectory"},
  {<<"append", "OPEN_ALWAYS", TRUE>>}, {a, b}, 1)

(* Handles that are closed and handed out again, by two installations. *)
Reusing == MCProgram(
  {"CreateFile", "CloseHandle", "FindFirstFile"},
  {"CreateFile", "CloseHandle", "FindClose", "PathQuery"},
  {<<"write", "CREATE_NEW", FALSE>>, <<"append", "TRUNCATE_EXISTING", FALSE>>},
  {a, Disk}, 2)

(* Paths alone, the unsafe ones too. *)
Naming == MCProgram({"MoveFile", "CreateFile"}, {"PathQuery", "DeleteFile"},
  {<<"write", "CREATE_NEW", FALSE>>}, {a, Rejected, Disk}, 1)
MCLeakPrograms == {Naming}

MCPrograms == {Transfers, Searching, Reusing}
=============================================================================
