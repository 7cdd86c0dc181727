-------------------------- MODULE MCStratumSession --------------------------
(* Small instances of StratumSession for TLC. *)
EXTENDS StratumSession

(* No retry at all, or retries for ever (-1, the default). *)
NoneOrAll == {-1, 0}

=============================================================================
