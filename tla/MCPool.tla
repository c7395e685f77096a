------------------------------ MODULE MCPool ------------------------------
(* Pool on two addresses and three successive tasks: enough for a task to  *)
(* be stopped, its key registered again and stopped again while the first  *)
(* goroutine has not left its select.                                      *)
EXTENDS Pool
=============================================================================
