---------------------------- MODULE StratumMiner ----------------------------
(***************************************************************************)
(* Stratum mining in cpu-miner.c: the stratum thread, which turns          *)
(* notifications of the pool into the shared work g_work, and the N miner  *)
(* threads, which copy g_work, scan their own part of the nonce space,     *)
(* regenerate g_work when the part is used up, and hand in shares.         *)
(*                                                                         *)
(* Sections under stratum.work_lock are single steps: the lock is held for *)
(* straight-line code only. Sections under g_work_lock are single steps    *)
(* too, but for the regeneration by a miner thread, which releases         *)
(* work_lock half way (stratum_gen_work reads job.diff after it) while it  *)
(* keeps g_work_lock. Whatever is read or written outside both locks       *)
(* (g_work_time, the job id test of the stratum thread, the restart flags) *)
(* is a step of its own.                                                   *)
(*                                                                         *)
(* Configuration modelled: stratum without jsonrpc_2, opt_retries = -1     *)
(* (the default: the connection is retried for ever), no --randomize, no   *)
(* time limit. "BLAKE2B" stands for the V2 header path of ALGO_BLAKE2B,    *)
(* "DEFAULT" for the algorithms with an 80-byte header, their scan loop    *)
(* that of sha256d, which hashes Lanes nonces at once: 8 or 4 on x86 and   *)
(* ARM with assembly, otherwise 1.                                         *)
(***************************************************************************)
EXTENDS Naturals, Sequences

CONSTANTS
  Algo,         \* "BLAKE2B" or "DEFAULT" (opt_algo)
  N,            \* number of miner threads (opt_n_threads)
  Span,         \* nonces of one thread: 0xffffffff / opt_n_threads
  Gap,          \* what end_nonce leaves unused at the end of a range: 0x20
  NonceMod,     \* number of nonces: 2^32
  Lanes,        \* nonces hashed at once by scanhash: 1, 4 or 8
  ScanMax,      \* largest scan (max64) a thread asks for
  Xn2Mod,       \* number of extranonce2 values: 256^xnonce2_size
  Notes,        \* the jobs of the pool, in order: [h2, cb, ntime, clean]
  Diffs,        \* share difficulties the pool may set
  DefaultDiff,  \* the difficulty of a new session: 1.0
  MaxXn1,       \* bound: extranonce1 values the pool hands out
  MaxGen,       \* bound: extranonce2 from which no work is regenerated
  MaxDrop       \* bound: extranonce2 from which the connection is not lost

ThreadIds == 0 .. N - 1
JobIds == 1 .. Len(Notes)

ASSUME AlgoAssumption == Algo \in {"BLAKE2B", "DEFAULT"}
ASSUME RangeAssumption ==
  /\ N \in Nat \ {0} /\ Span \in Nat /\ Gap \in Nat \ {0} /\ NonceMod \in Nat
  /\ Gap < Span /\ N * Span < NonceMod
ASSUME LanesAssumption ==
  Lanes \in Nat \ {0} /\ Lanes <= Gap /\ (Algo = "BLAKE2B" => Lanes = 1)
ASSUME BoundAssumption ==
  /\ ScanMax \in Nat \ {0} /\ Xn2Mod \in Nat \ {0}
  /\ MaxXn1 \in Nat \ {0} /\ MaxGen \in Nat /\ MaxDrop \in Nat
ASSUME PoolAssumption ==
  /\ Notes \in Seq([h2 : Nat \ {0}, cb : Nat, ntime : Nat, clean : BOOLEAN])
  /\ Diffs \subseteq Nat /\ DefaultDiff \in Nat

VARIABLES
  job,          \* stratum.job, written by the stratum thread (and its xn2 by all)
  next_diff,    \* stratum.next_diff
  xnonce1,      \* stratum.xnonce1
  g_work,       \* the shared work
  g_work_time,  \* "zero", "fresh", or "old": set 120 seconds ago or more
  g_work_lock,  \* owner of g_work_lock: a miner thread, or NoOwner
  restart,      \* work_restart[t].restart
  spc,          \* where the stratum thread is
  ri,           \* its loop counter in restart_threads
  pc,           \* where miner thread t is
  work,         \* the work miner thread t scans
  max_nonce,    \* the end of the scan of thread t
  cursor,       \* the nonce whose hash thread t compares next, or a share's
  lane,         \* its place in the batch that was hashed at once: i of the loop
  announced     \* history: the <<job id, difficulty>> pairs notified so far

svars == <<job, next_diff, xnonce1, spc, ri, announced>>
mvars == <<pc, work, max_nonce, cursor, lane>>
gvars == <<g_work, g_work_time, g_work_lock>>
vars == <<job, next_diff, xnonce1, spc, ri, announced, pc, work, max_nonce, cursor,
          lane, g_work, g_work_time, g_work_lock, restart>>

-----------------------------------------------------------------------------
(* Works                                                                   *)

NoOwner == N
NoRoot == <<0, 0, 0>>

(* A job before the first notification, and a zeroed struct work. *)
NoJob == [id |-> 0, h2 |-> 0, cb |-> 0, xn1 |-> 0, xn2 |-> 0, ntime |-> 0,
          clean |-> FALSE, diff |-> 0]
NoWork == [id |-> 0, xn2 |-> 0, h2 |-> 0, root |-> NoRoot, ntime |-> 0,
           hash1 |-> NoRoot, target |-> 0, nonce |-> 0, vnonce |-> 0]

(* Mutant: the end of a range is the start of the next one. *)
EndNonceFull(t) == Span * (t + 1)

(* The part of the nonce space of thread t. *)
StartNonce(t) == Span * t
EndNonce(t) == Span * (t + 1) - Gap

(* Bytes 43 to 75 of work.data: most of the merkle root, ntime and nbits. *)
TailOf(w) == <<w.root, w.ntime>>

(* Mutant: jobs told apart by their time. *)
HeadDiffersTime(a, b) == a.ntime # b.ntime

(* blake2b_job_changed, or the memcmp of the first 76 bytes of the header. *)
HeadDiffers(a, b) ==
  IF Algo = "BLAKE2B" THEN a.h2 # b.h2
  ELSE a.h2 # b.h2 \/ TailOf(a) # TailOf(b)

(* Mutant: jobs told apart by their previous block. *)
JobChangedPrev(a, b) == a.h2 # b.h2

(* The test as C groups it: (head differs || jsonrpc_2) ? tail differs : 0. *)
JobChanged(a, b) == HeadDiffers(a, b) /\ TailOf(a) # TailOf(b)

(* Mutant: extranonce2 is copied after it was stepped for the next work. *)
GenBodyStepped(w) ==
  [id |-> job.id, xn2 |-> (job.xn2 + 1) % Xn2Mod, h2 |-> job.h2,
   root |-> <<job.cb, job.xn1, job.xn2>>, ntime |-> job.ntime,
   hash1 |-> IF Algo = "BLAKE2B" THEN <<job.h2, xnonce1, job.xn2>> ELSE w.hash1,
   target |-> w.target, nonce |-> 0, vnonce |-> 0]

(* stratum_gen_work up to the release of work_lock: everything but the     *)
(* target. The V2 branch takes extranonce1 from the session, the merkle    *)
(* root has the one the coinbase was built with.                           *)
GenBody(w) ==
  [id |-> job.id, xn2 |-> job.xn2, h2 |-> job.h2,
   root |-> <<job.cb, job.xn1, job.xn2>>, ntime |-> job.ntime,
   hash1 |-> IF Algo = "BLAKE2B" THEN <<job.h2, xnonce1, job.xn2>> ELSE w.hash1,
   target |-> w.target, nonce |-> 0, vnonce |-> 0]

(* Mutant: every work is generated with the same extranonce2. *)
NextXn2Kept == job

NextXn2 == [job EXCEPT !.xn2 = (job.xn2 + 1) % Xn2Mod]

SetNonce(w, n) ==
  IF Algo = "BLAKE2B" THEN [w EXCEPT !.nonce = n, !.vnonce = n]
  ELSE [w EXCEPT !.nonce = n]

(* Mutant: the nonce is not stepped. *)
NextWorkStuck(t, g) ==
  IF JobChanged(work[t], g) THEN SetNonce(g, StartNonce(t)) ELSE work[t]

(* What a thread goes on with once g_work is up to date: a copy of it, its *)
(* nonce set to the start of the range, or the old work and the next nonce. *)
NextWork(t, g) ==
  IF JobChanged(work[t], g) THEN SetNonce(g, StartNonce(t))
  ELSE SetNonce(work[t], (work[t].nonce + 1) % NonceMod)

-----------------------------------------------------------------------------
(* Miner threads                                                           *)

(* The loop that sleeps while g_work is 120 seconds old or more. *)
MinerWait(t) ==
  /\ pc[t] = "wait" /\ g_work_time = "fresh"
  /\ pc' = [pc EXCEPT ![t] = "lock"]
  /\ UNCHANGED <<svars, gvars, work, max_nonce, cursor, lane, restart>>

NeedsRegen(t) == work[t].nonce >= EndNonce(t) /\ ~JobChanged(work[t], g_work)

Adopt(t, g) ==
  /\ work' = [work EXCEPT ![t] = NextWork(t, g)]
  /\ pc' = [pc EXCEPT ![t] = "clear"]
  /\ UNCHANGED <<max_nonce, cursor, lane>>

MinerTake(t) ==
  /\ pc[t] = "lock" /\ g_work_lock = NoOwner
  /\ ~NeedsRegen(t)
  /\ Adopt(t, g_work)
  /\ UNCHANGED <<svars, gvars, restart>>

MinerTakeRegen(t) ==
  /\ pc[t] = "lock" /\ g_work_lock = NoOwner
  /\ NeedsRegen(t) /\ job.xn2 < MaxGen
  /\ g_work_lock' = t
  /\ pc' = [pc EXCEPT ![t] = "gen"]
  /\ UNCHANGED <<svars, g_work, g_work_time, work, max_nonce, cursor, lane, restart>>

MinerGenBody(t) ==
  /\ pc[t] = "gen"
  /\ g_work' = GenBody(g_work)
  /\ job' = NextXn2
  /\ pc' = [pc EXCEPT ![t] = "target"]
  /\ UNCHANGED <<next_diff, xnonce1, spc, ri, announced, g_work_time,
                 g_work_lock, work, max_nonce, cursor, lane, restart>>

(* work_set_target reads job.diff after work_lock is released. *)
MinerGenTarget(t) ==
  /\ pc[t] = "target"
  /\ g_work' = [g_work EXCEPT !.target = job.diff]
  /\ Adopt(t, g_work')
  /\ g_work_lock' = NoOwner
  /\ UNCHANGED <<svars, g_work_time, restart>>

(* restart is cleared after the unlock, then come the tests that skip the  *)
(* scan, then the choice of max_nonce and the start of scanhash.           *)
MinerStart(t) ==
  /\ pc[t] = "clear"
  /\ restart' = [restart EXCEPT ![t] = FALSE]
  /\ Algo = "DEFAULT" => work[t].id # 0
  /\ \E m \in 1 .. ScanMax :
       max_nonce' = [max_nonce EXCEPT ![t] =
         IF work[t].nonce + m > EndNonce(t) THEN EndNonce(t) ELSE work[t].nonce + m]
  /\ cursor' = [cursor EXCEPT ![t] =
       IF Algo = "BLAKE2B" THEN work[t].vnonce ELSE work[t].nonce]
  /\ lane' = [lane EXCEPT ![t] = 0]
  /\ pc' = [pc EXCEPT ![t] = "scan"]
  /\ UNCHANGED <<svars, gvars, work>>

(* wanna_mine may refuse (temperature, rate); so does a work without job. *)
MinerSkip(t) ==
  /\ pc[t] = "clear"
  /\ restart' = [restart EXCEPT ![t] = FALSE]
  /\ pc' = [pc EXCEPT ![t] = "wait"]
  /\ UNCHANGED <<svars, gvars, work, max_nonce, cursor, lane>>

(* A hash that meets the target: scanhash returns its nonce in data[19]. A *)
(* batch is compared in order, and what lies behind the share is left: the *)
(* next scan hashes it again.                                              *)
MinerFound(t) ==
  /\ pc[t] = "scan"
  /\ work' = [work EXCEPT ![t] = SetNonce(@, cursor[t])]
  /\ pc' = [pc EXCEPT ![t] = "submit"]
  /\ UNCHANGED <<svars, gvars, max_nonce, cursor, lane, restart>>

(* A hash that does not, and behind the last of a batch the test at the    *)
(* end of the scan loop. The V2 loop steps n before the test, and so       *)
(* leaves a nonce it did not hash; the other one steps it after the test.  *)
MinerHash(t) ==
  LET next == (cursor[t] + 1) % NonceMod
      n == IF Algo = "BLAKE2B" THEN next ELSE cursor[t]
      inBatch == lane[t] + 1 < Lanes
      more == inBatch \/ (n < max_nonce[t] /\ ~restart[t])
  IN /\ pc[t] = "scan"
     /\ IF more
        THEN /\ cursor' = [cursor EXCEPT ![t] = next]
             /\ lane' = [lane EXCEPT ![t] = IF inBatch THEN @ + 1 ELSE 0]
             /\ UNCHANGED <<pc, work, max_nonce>>
        ELSE /\ work' = [work EXCEPT ![t] = SetNonce(@, n)]
             /\ pc' = [pc EXCEPT ![t] = "wait"]
             /\ max_nonce' = [max_nonce EXCEPT ![t] = 0]
             /\ cursor' = [cursor EXCEPT ![t] = 0]
             /\ lane' = [lane EXCEPT ![t] = 0]
     /\ UNCHANGED <<svars, gvars, restart>>

(* submit_work hands a copy of the work to the workio thread. *)
MinerSubmit(t) ==
  /\ pc[t] = "submit"
  /\ pc' = [pc EXCEPT ![t] = "wait"]
  /\ max_nonce' = [max_nonce EXCEPT ![t] = 0]
  /\ cursor' = [cursor EXCEPT ![t] = 0]
  /\ lane' = [lane EXCEPT ![t] = 0]
  /\ UNCHANGED <<svars, gvars, work, restart>>

Miner(t) ==
  \/ MinerWait(t) \/ MinerTake(t) \/ MinerTakeRegen(t) \/ MinerGenBody(t)
  \/ MinerGenTarget(t) \/ MinerStart(t) \/ MinerSkip(t) \/ MinerFound(t)
  \/ MinerHash(t) \/ MinerSubmit(t)

-----------------------------------------------------------------------------
(* The stratum thread                                                      *)

(* The head of the connection loop: g_work_time = 0 under g_work_lock. *)
StratumZero ==
  /\ spc = "zero" /\ g_work_lock = NoOwner
  /\ g_work_time' = "zero"
  /\ spc' = "kick" /\ ri' = 0
  /\ UNCHANGED <<job, next_diff, xnonce1, announced, g_work, g_work_lock,
                 mvars, restart>>

(* Mutant: the loop goes one thread too far. *)
RestartThreadsPast(from, to) ==
  /\ spc = from
  /\ IF ri <= N
     THEN /\ restart' = [restart EXCEPT ![ri] = TRUE]
          /\ ri' = ri + 1 /\ spc' = spc
     ELSE /\ spc' = to /\ ri' = 0
          /\ UNCHANGED restart
  /\ UNCHANGED <<job, next_diff, xnonce1, announced, gvars, mvars>>

(* restart_threads, called before a connection and after new clean work. *)
RestartThreads(from, to) ==
  /\ spc = from
  /\ IF ri < N
     THEN /\ restart' = [restart EXCEPT ![ri] = TRUE]
          /\ ri' = ri + 1 /\ spc' = spc
     ELSE /\ spc' = to /\ ri' = 0
          /\ UNCHANGED restart
  /\ UNCHANGED <<job, next_diff, xnonce1, announced, gvars, mvars>>

StratumKick == RestartThreads("kick", "connect")
StratumRestart == RestartThreads("restart", "recv")

(* stratum_connect and stratum_subscribe succeed: a session, perhaps with  *)
(* a new extranonce1.                                                      *)
StratumSubscribe ==
  /\ spc = "connect"
  /\ xnonce1' \in {x \in {xnonce1, xnonce1 + 1} : x \in 1 .. MaxXn1}
  /\ next_diff' = DefaultDiff
  /\ spc' = "auth"
  /\ UNCHANGED <<job, ri, announced, gvars, mvars, restart>>

StratumAuthorize ==
  /\ spc = "auth"
  /\ spc' = "check"
  /\ UNCHANGED <<job, next_diff, xnonce1, ri, announced, gvars, mvars, restart>>

(* connect, subscribe or authorize fails, the connection times out or is   *)
(* closed, or the pool asks to reconnect: disconnect, and round again.     *)
StratumDisconnect ==
  /\ spc \in {"connect", "auth", "recv"} /\ job.xn2 < MaxDrop
  /\ spc' = "zero"
  /\ UNCHANGED <<job, next_diff, xnonce1, ri, announced, gvars, mvars, restart>>

(* Where a line of the pool is handled: in the main loop, or while the     *)
(* answer to mining.authorize is awaited.                                  *)
AfterLine == IF spc = "recv" THEN "check" ELSE "auth"

(* stratum_notify. A new job id resets extranonce2, a repeated one keeps it. *)
StratumNotify ==
  /\ spc \in {"recv", "auth"}
  /\ \E id \in {i \in JobIds : i \in {job.id, job.id + 1}} :
       /\ job' = [id |-> id, h2 |-> Notes[id].h2, cb |-> Notes[id].cb,
                  xn1 |-> xnonce1, xn2 |-> IF id = job.id THEN job.xn2 ELSE 0,
                  ntime |-> Notes[id].ntime, clean |-> Notes[id].clean,
                  diff |-> next_diff]
       /\ announced' = announced \cup {<<id, next_diff>>}
  /\ spc' = AfterLine
  /\ UNCHANGED <<next_diff, xnonce1, ri, gvars, mvars, restart>>

StratumSetDifficulty ==
  /\ spc \in {"recv", "auth"}
  /\ next_diff' \in Diffs
  /\ spc' = AfterLine
  /\ UNCHANGED <<job, xnonce1, ri, announced, gvars, mvars, restart>>

(* stratum_parse_extranonce on mining.set_extranonce. *)
StratumSetExtranonce ==
  /\ spc \in {"recv", "auth"} /\ xnonce1 < MaxXn1
  /\ xnonce1' = xnonce1 + 1
  /\ spc' = AfterLine
  /\ UNCHANGED <<job, next_diff, ri, announced, gvars, mvars, restart>>

(* A line that leaves no trace here: the answer to a share, a request of   *)
(* the pool's that is only answered, or a notification that is refused.    *)
StratumResponse ==
  /\ spc = "recv"
  /\ spc' = "check"
  /\ UNCHANGED <<job, next_diff, xnonce1, ri, announced, gvars, mvars, restart>>

(* The test for new work, read without g_work_lock. While a miner thread   *)
(* is replacing g_work.job_id the string compared may be freed memory, and *)
(* the test may come out either way.                                       *)
JobIdTorn == \E t \in ThreadIds : pc[t] = "gen"
(* Mutant: only an expired work is replaced. *)
NewWorkExpired == job.id # 0 /\ g_work_time = "zero"
NewWork == job.id # 0 /\ (g_work_time = "zero" \/ job.id # g_work.id)

StratumCheck ==
  /\ spc = "check"
  /\ \E new \in {NewWork} \cup
                (IF JobIdTorn /\ job.id # 0 /\ g_work_time # "zero"
                 THEN BOOLEAN ELSE {}) :
       spc' = IF new THEN "gen" ELSE "recv"
  /\ UNCHANGED <<job, next_diff, xnonce1, ri, announced, gvars, mvars, restart>>

(* stratum_gen_work and time(&g_work_time) under g_work_lock. *)
StratumGen ==
  /\ spc = "gen" /\ g_work_lock = NoOwner
  /\ g_work' = [GenBody(g_work) EXCEPT !.target = job.diff]
  /\ job' = NextXn2
  /\ g_work_time' = "fresh"
  /\ spc' = IF job.clean THEN "restart" ELSE "recv"
  /\ UNCHANGED <<next_diff, xnonce1, ri, announced, g_work_lock, mvars, restart>>

Stratum ==
  \/ StratumZero \/ StratumKick \/ StratumSubscribe \/ StratumAuthorize
  \/ StratumDisconnect \/ StratumNotify \/ StratumSetDifficulty
  \/ StratumSetExtranonce \/ StratumResponse \/ StratumCheck \/ StratumGen
  \/ StratumRestart

(* 120 seconds pass without new work. *)
Age ==
  /\ g_work_time = "fresh"
  /\ g_work_time' = "old"
  /\ UNCHANGED <<svars, mvars, g_work, g_work_lock, restart>>

-----------------------------------------------------------------------------
Init ==
  /\ job = NoJob /\ next_diff = 0 /\ xnonce1 = 1 /\ spc = "zero" /\ ri = 0
  /\ g_work = NoWork /\ g_work_time = "zero" /\ g_work_lock = NoOwner
  /\ restart = [t \in ThreadIds |-> FALSE]
  /\ pc = [t \in ThreadIds |-> "wait"]
  /\ work = [t \in ThreadIds |-> NoWork]
  /\ max_nonce = [t \in ThreadIds |-> 0]
  /\ cursor = [t \in ThreadIds |-> 0] /\ lane = [t \in ThreadIds |-> 0]
  /\ announced = {}

Next == Stratum \/ Age \/ \E t \in ThreadIds : Miner(t)

Spec == Init /\ [][Next]_vars

-----------------------------------------------------------------------------
(* Properties                                                              *)

Works == [id : Nat, xn2 : Nat, h2 : Nat, root : Nat \X Nat \X Nat, ntime : Nat,
          hash1 : Nat \X Nat \X Nat, target : Nat,
          nonce : 0 .. NonceMod - 1, vnonce : 0 .. NonceMod - 1]
Jobs == [id : Nat, h2 : Nat, cb : Nat, xn1 : Nat, xn2 : Nat, ntime : Nat,
         clean : BOOLEAN, diff : Nat]

(* Every variable has its type; restart_threads keeps to work_restart. *)
TypeOK ==
  /\ job \in Jobs /\ next_diff \in Nat /\ xnonce1 \in Nat
  /\ g_work \in Works /\ g_work_time \in {"zero", "fresh", "old"}
  /\ g_work_lock \in ThreadIds \cup {NoOwner}
  /\ restart \in [ThreadIds -> BOOLEAN]
  /\ spc \in {"zero", "kick", "connect", "auth", "check", "gen", "restart", "recv"}
  /\ ri \in 0 .. N
  /\ pc \in [ThreadIds -> {"wait", "lock", "gen", "target", "clear", "scan", "submit"}]
  /\ work \in [ThreadIds -> Works]
  /\ max_nonce \in [ThreadIds -> Nat]
  /\ cursor \in [ThreadIds -> 0 .. NonceMod - 1]
  /\ lane \in [ThreadIds -> 0 .. Lanes - 1]
  /\ announced \subseteq Nat \X Nat

(* A share names the job, extranonce2, time and nonce its hash was taken   *)
(* with: what the pool rebuilds from them and the extranonce1 of a session *)
(* is what scanhash hashed. A work mixed of two jobs, or a nonce other     *)
(* than the one hashed, is a rejected share.                               *)
ShareOf(w) ==
  /\ w.id \in JobIds
  /\ w.h2 = Notes[w.id].h2 /\ w.ntime = Notes[w.id].ntime
  /\ IF Algo = "BLAKE2B"
     THEN \E x \in 1 .. MaxXn1 : w.hash1 = <<Notes[w.id].h2, x, w.xn2>>
     ELSE \E x \in 1 .. MaxXn1 : w.root = <<Notes[w.id].cb, x, w.xn2>>

ShareIntegrity ==
  \A t \in ThreadIds :
    pc[t] = "submit" => ShareOf(work[t]) /\ work[t].nonce = cursor[t]

(* When the stratum thread waits for the pool and nobody holds             *)
(* g_work_lock, g_work is of the last job and its target of a difficulty   *)
(* that job was announced with. Between, g_work may pair a job with the    *)
(* difficulty of another: a miner thread reads job.diff outside work_lock. *)
SettledWork ==
  spc = "recv" /\ g_work_lock = NoOwner /\ g_work_time # "zero"
    => g_work.id = job.id /\ <<g_work.id, g_work.target>> \in announced

(* A thread hashes nonces of its own part of the nonce space only, also    *)
(* with the last batch of a scan, which may go beyond the end of the scan: *)
(* no two threads ever take the same hash.                                 *)
OwnRange ==
  \A t \in ThreadIds :
    pc[t] = "scan" => cursor[t] >= StartNonce(t) /\ cursor[t] < StartNonce(t + 1)

(* No thread comes back to nonces it has looked at: a step of its own      *)
(* takes it to a higher nonce of the header it scans, or to a header       *)
(* generated later, for a later job or with a higher extranonce2 of the    *)
(* same job.                                                               *)
Later(v, w) == v.id > w.id \/ (v.id = w.id /\ v.xn2 > w.xn2)

ScanAdvances ==
  [][\A t \in ThreadIds :
       /\ pc[t] # "clear" /\ pc'[t] = "clear"
            => IF TailOf(work'[t]) = TailOf(work[t])
               THEN work'[t].nonce > work[t].nonce
               ELSE Later(work'[t], work[t])
       /\ pc[t] = "scan" /\ pc'[t] = "scan" => cursor'[t] >= cursor[t]
       /\ pc[t] = "scan" /\ pc'[t] # "scan" => work'[t].nonce >= cursor[t]]_vars

(* A thread that comes for work while g_work commits to another h2 takes   *)
(* it: the comment at blake2b_job_changed says h2 changes on every job and *)
(* is what tells jobs apart.                                               *)
NewH2Adopted ==
  [][\A t \in ThreadIds :
       pc[t] \in {"lock", "target"} /\ pc'[t] = "clear" /\ work[t].h2 # g_work.h2
         => work'[t].h2 = g_work.h2]_vars

(* Threads run, and a thread that waits for g_work_lock gets it some day.  *)
(* Nothing is assumed of the pool.                                         *)
Fairness ==
  /\ \A t \in ThreadIds : /\ WF_vars(Miner(t))
                          /\ SF_vars(MinerTake(t) \/ MinerTakeRegen(t))
  /\ WF_vars(StratumCheck \/ StratumRestart) /\ SF_vars(StratumGen)

FairSpec == Spec /\ Fairness

(* Every miner thread comes to work on a job of the pool, or on a later    *)
(* one, unless the connection is lost or the work grows old: also if the   *)
(* job id test was read torn, if another thread put the job into g_work    *)
(* first, or if the restart flag was cleared just after it was set.        *)
JobReachesThreads ==
  \A t \in ThreadIds : \A id \in JobIds :
    (job.id = id /\ spc \in {"check", "gen", "restart", "recv"})
      ~> (work[t].id >= id \/ spc = "zero" \/ g_work_time = "old")

-----------------------------------------------------------------------------
(* Inductive strengthenings of the safety properties.                      *)

(* g_work_lock is held by the one thread that regenerates g_work. *)
LockOwner ==
  \A t \in ThreadIds : pc[t] \in {"gen", "target"} <=> g_work_lock = t

(* The job is one of the pool's, built with an extranonce1 of a session. *)
JobOfPool ==
  /\ xnonce1 \in 1 .. MaxXn1 /\ job.id \in 0 .. Len(Notes)
  /\ job.id # 0 => /\ job.h2 = Notes[job.id].h2 /\ job.cb = Notes[job.id].cb
                   /\ job.ntime = Notes[job.id].ntime /\ job.xn1 \in 1 .. MaxXn1
                   /\ <<job.id, job.diff>> \in announced
  /\ spc = "gen" => job.id # 0

(* A work is zeroed, or made from one job and of one piece. *)
Sound(w) == /\ ShareOf(w)
            /\ w.root = <<Notes[w.id].cb, w.root[2], w.xn2>> /\ w.root[2] # 0
Blank(w) == w.id = 0 /\ w.h2 = 0 /\ w.root = NoRoot

SoundWorks ==
  /\ Blank(g_work) \/ Sound(g_work)
  /\ g_work_time # "zero" => g_work.id # 0
  /\ g_work.id # 0 => job.id # 0
  /\ \A t \in ThreadIds :
       /\ Blank(work[t]) \/ Sound(work[t])
       /\ pc[t] # "wait" => g_work.id # 0
       /\ pc[t] \in {"clear", "scan", "submit"} => work[t].id # 0
       /\ pc[t] = "submit" => work[t].nonce = cursor[t]

(* g_work is never of a later job than the pool's, and of that very job    *)
(* wherever the stratum thread has no reason left to replace it.           *)
FreshWork ==
  /\ g_work.id <= job.id
  /\ g_work_lock = NoOwner /\ g_work.id # 0 /\ g_work.id = job.id
       => <<g_work.id, g_work.target>> \in announced
  /\ spc \in {"recv", "restart"} /\ g_work_time # "zero" /\ g_work.id # job.id
       => \E t \in ThreadIds : pc[t] = "gen"

IInv == TypeOK /\ LockOwner /\ JobOfPool /\ SoundWorks /\ FreshWork

(* What the nonce ranges rest on, for the 80-byte headers: extranonce2     *)
(* moves on with every work of a job, so that a regenerated work differs   *)
(* from the one it replaces, and starts the range over.                    *)
DistinctNotes ==
  \A i, j \in JobIds : Notes[i].cb = Notes[j].cb /\ Notes[i].ntime = Notes[j].ntime => i = j

InRange(t, n) == StartNonce(t) <= n /\ n <= EndNonce(t) + Lanes - 1

Ranges ==
  /\ job.xn2 < Xn2Mod /\ g_work.xn2 < Xn2Mod
  /\ g_work.id # 0 /\ g_work.id = job.id => job.xn2 = (g_work.xn2 + 1) % Xn2Mod
  /\ \A t \in ThreadIds :
       /\ pc[t] = "gen" => TailOf(work[t]) = TailOf(g_work) /\ work[t].id # 0
       /\ pc[t] = "target" => TailOf(work[t]) # TailOf(g_work)
       /\ work[t].id # 0 => InRange(t, work[t].nonce)
       /\ pc[t] = "clear" => work[t].nonce <= EndNonce(t)
       /\ pc[t] = "scan" => /\ InRange(t, cursor[t]) /\ max_nonce[t] <= EndNonce(t)
                            /\ cursor[t] <= EndNonce(t) + lane[t]

RInv == IInv /\ Ranges

=============================================================================
