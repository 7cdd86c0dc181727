----------------------------- MODULE MCGetWork -----------------------------
(* Small instances of GetWork for TLC. *)
EXTENDS GetWork

(* The default of opt_retries. *)
Forever == -1

(* What decides how the program goes on: the history of solutions does not. *)
NoHistory == <<tip, shared, mvars, reply, wq, wvars>>

=============================================================================
