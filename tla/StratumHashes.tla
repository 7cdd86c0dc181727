---------------------------- MODULE StratumHashes ----------------------------
(***************************************************************************)
(* StratumMiner with a note of one hash, any of those its threads compare  *)
(* with the target, to see that none is compared again.                    *)
(***************************************************************************)
EXTENDS StratumMiner

VARIABLE noted   \* history: a header and a nonce that were tried, or none yet

hvars == <<vars, noted>>

Nothing == << >>

(* What tells a header from another but its nonce. Version and nbits are   *)
(* the job's, and so left out.                                             *)
HeaderOf(w) == <<w.h2, w.root, w.ntime>>

(* The hash that the scan loop compares with the target next. *)
HashOf(t) == <<HeaderOf(work[t]), cursor[t]>>

(* A comparison is noted, when none was before. *)
NoteTry ==
  \E t \in ThreadIds :
    /\ noted = Nothing
    /\ MinerFound(t) \/ MinerHash(t)
    /\ noted' = HashOf(t)

HashInit == Init /\ noted = Nothing
HashNext == NoteTry \/ (Next /\ UNCHANGED noted)
HashSpec == HashInit /\ [][HashNext]_hvars

-----------------------------------------------------------------------------
(* No hash is compared with the target twice, so that no share is found or *)
(* handed in twice: not by one thread, which comes back to its work after  *)
(* every slice, share, restart and lost connection, and not by two that    *)
(* scan the same header at once. As any comparison may be the one noted,   *)
(* what holds of it holds of all. (A hash may be taken twice: where scans  *)
(* go by batches, those of a batch behind a share are taken and left, and  *)
(* taken anew by the next scan of the same thread.)                        *)
TriedOnce ==
  \A t \in ThreadIds : pc[t] = "scan" => HashOf(t) # noted

=============================================================================
