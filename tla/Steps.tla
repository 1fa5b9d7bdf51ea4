-------------------------------- MODULE Steps --------------------------------
(* One operation after another: op of the value that x is.  (TLC evaluates  *)
(* x once.)                                                                 *)

Then(x, op(_)) == CHOOSE r \in {op(v) : v \in {x}} : TRUE
=============================================================================
