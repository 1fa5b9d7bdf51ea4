------------------------------ MODULE MCFileSys ------------------------------
(* A small file system for TLC: two processes that work on /a, on the       *)
(* directory /d and inside it.                                              *)
EXTENDS FileSys, TLC

MCFiles == <<"a">>
MCDirs  == <<"d">>

OpenFile(path, create, trunc, write) ==
  [op |-> "open", path |-> path, create |-> create, trunc |-> trunc, write |-> write]

OnPath(op, path) == [op |-> op, path |-> path]

MCMenu ==
  {OpenFile(<<"a">>, TRUE, FALSE, TRUE), OpenFile(<<"/", "a">>, FALSE, TRUE, TRUE),
   OnPath("dir", <<"/", "d", "a">>), OnPath("dev", <<"d">>),
   OnPath("unlink", <<"/", "d">>), OnPath("unlink", <<"a">>), OnPath("unlink", <<"..">>),
   [op |-> "link", path |-> <<"/", "a">>, new |-> <<"/", "d", "a">>],
   OnPath("chdir", <<"d">>)}

Symmetry == Permutations(Procs)
=============================================================================
