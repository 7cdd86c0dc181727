--------------------------- MODULE MCStratumMiner ---------------------------
(* Small instances of StratumMiner for TLC. *)
EXTENDS StratumMiner

(* Two jobs with coinbases of their own, as most pools send them; the      *)
(* second is not clean.                                                    *)
CoinbaseNotes ==
  <<[h2 |-> 1, cb |-> 1, ntime |-> 1, clean |-> TRUE],
    [h2 |-> 2, cb |-> 2, ntime |-> 1, clean |-> FALSE]>>

(* The second job is not clean: the threads are not restarted for it. *)
QuietNotes ==
  <<[h2 |-> 1, cb |-> 1, ntime |-> 1, clean |-> TRUE],
    [h2 |-> 1, cb |-> 2, ntime |-> 2, clean |-> FALSE]>>

(* Neither job is clean: only a new connection restarts the threads. *)
CalmNotes ==
  <<[h2 |-> 1, cb |-> 1, ntime |-> 1, clean |-> FALSE],
    [h2 |-> 1, cb |-> 2, ntime |-> 2, clean |-> FALSE]>>

(* Two jobs of a gateway that leaves the unused coinbase fields alone and  *)
(* makes both within a second.                                             *)
GatewayNotes ==
  <<[h2 |-> 1, cb |-> 0, ntime |-> 1, clean |-> TRUE],
    [h2 |-> 2, cb |-> 0, ntime |-> 1, clean |-> TRUE]>>

=============================================================================
