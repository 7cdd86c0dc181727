------------------------ MODULE StratumMiner_proofs -------------------------
(***************************************************************************)
(* Theorems about StratumMiner, for any number of threads, any size of the *)
(* nonce space and of extranonce2, any jobs and difficulties of the pool.  *)
(***************************************************************************)
EXTENDS StratumHashes, SequenceTheorems, TLAPS

-----------------------------------------------------------------------------
(* Arithmetic of nonces and of extranonce2. *)

LEMMA ModType ==
  ASSUME NEW a \in Nat, NEW m \in Nat \ {0}
  PROVE  a % m \in 0 .. m - 1
OBVIOUS

LEMMA NextDiffers ==
  ASSUME NEW a \in Nat, NEW m \in Nat, m >= 2, a < m
  PROVE  (a + 1) % m # a
<1>1. CASE a + 1 < m
  BY <1>1
<1>2. CASE a + 1 = m
  <2>1. (a + 1) % m = 0
    BY <1>2
  <2> QED
    BY <1>2, <2>1
<1> QED
  BY <1>1, <1>2

LEMMA ThreadRange ==
  ASSUME NEW t \in ThreadIds
  PROVE  /\ StartNonce(t) \in 0 .. NonceMod - 1
         /\ EndNonce(t) \in 0 .. NonceMod - 1
         /\ StartNonce(t) <= EndNonce(t)
         /\ StartNonce(t) = Span * t
         /\ EndNonce(t) + Lanes - 1 < StartNonce(t + 1)
         /\ EndNonce(t) + Lanes - 1 < NonceMod
         /\ Lanes \in Nat \ {0} /\ StartNonce(t + 1) \in Nat
<1> USE RangeAssumption, LanesAssumption DEF ThreadIds, StartNonce, EndNonce
<1>1. Span * (t + 1) = Span * t + Span /\ Span * t \in Nat
  OBVIOUS
<1>2. Span * (t + 1) <= N * Span
  <2>1. t + 1 <= N /\ t + 1 \in Nat
    OBVIOUS
  <2>2. ASSUME NEW a \in Nat, NEW b \in Nat, NEW s \in Nat, a <= b PROVE s * a <= b * s
    <3>1. s * a + s * (b - a) = b * s /\ s * (b - a) >= 0
      BY <2>2
    <3> QED
      BY <2>2, <3>1
  <2> QED
    BY <2>1, <2>2
<1> QED
  BY <1>1, <1>2

LEMMA NonceSpace == NonceMod \in Nat \ {0} /\ 0 \in 0 .. NonceMod - 1
<1>1. 0 \in ThreadIds
  BY RangeAssumption DEF ThreadIds
<1>2. StartNonce(0) \in 0 .. NonceMod - 1
  BY <1>1, ThreadRange
<1> QED
  BY <1>2, RangeAssumption

LEMMA NextNonceType ==
  ASSUME NEW a \in 0 .. NonceMod - 1
  PROVE  (a + 1) % NonceMod \in 0 .. NonceMod - 1
<1>1. a + 1 \in Nat
  OBVIOUS
<1> QED
  BY <1>1, NonceSpace, ModType

-----------------------------------------------------------------------------
(* Types of what the actions build. *)

Note == [h2 : Nat \ {0}, cb : Nat, ntime : Nat, clean : BOOLEAN]

LEMMA NoteType ==
  ASSUME NEW id \in JobIds
  PROVE  Notes[id] \in Note
<1>1. Notes \in Seq(Note) /\ id \in 1 .. Len(Notes)
  BY PoolAssumption DEF JobIds, Note
<1> QED
  BY <1>1, ElementOfSeq

LEMMA GenBodyType ==
  ASSUME TypeOK
  PROVE  GenBody(g_work) \in Works /\ NextXn2 \in Jobs
<1>1. 0 \in 0 .. NonceMod - 1
  BY RangeAssumption
<1>2. (job.xn2 + 1) % Xn2Mod \in Nat
  BY BoundAssumption, ModType DEF TypeOK, Jobs
<1>3. GenBody(g_work) \in Works
  BY <1>1 DEF TypeOK, GenBody, Works, Jobs
<1>4. NextXn2 \in Jobs
  BY <1>2 DEF TypeOK, NextXn2, Jobs
<1> QED
  BY <1>3, <1>4

LEMMA SetNonceType ==
  ASSUME NEW w \in Works, NEW n \in 0 .. NonceMod - 1
  PROVE  /\ SetNonce(w, n) \in Works
         /\ SetNonce(w, n).nonce = n
         /\ Algo = "BLAKE2B" => SetNonce(w, n).vnonce = n
         /\ SetNonce(w, n).id = w.id /\ SetNonce(w, n).xn2 = w.xn2
         /\ SetNonce(w, n).h2 = w.h2 /\ SetNonce(w, n).root = w.root
         /\ SetNonce(w, n).ntime = w.ntime /\ SetNonce(w, n).hash1 = w.hash1
BY DEF SetNonce, Works

LEMMA NextWorkType ==
  ASSUME TypeOK, NEW t \in ThreadIds, NEW g \in Works
  PROVE  NextWork(t, g) \in Works
<1>1. work[t] \in Works /\ work[t].nonce \in 0 .. NonceMod - 1
  BY DEF TypeOK, Works
<1>2. (work[t].nonce + 1) % NonceMod \in 0 .. NonceMod - 1
  BY <1>1, NextNonceType
<1> QED
  BY <1>1, <1>2, SetNonceType, ThreadRange DEF NextWork

-----------------------------------------------------------------------------
(* Type correctness.                                                       *)
LEMMA InitType == Init => TypeOK
<1>1. 0 \in 0 .. NonceMod - 1 /\ 0 \in 0 .. N
  BY RangeAssumption
<1>2. NoWork \in Works /\ NoJob \in Jobs
  BY <1>1 DEF NoWork, NoJob, NoRoot, Works, Jobs
<1>3. 0 \in 0 .. Lanes - 1
  BY LanesAssumption
<1> QED
  BY <1>1, <1>2, <1>3 DEF Init, TypeOK

LEMMA StepType ==
  ASSUME TypeOK, [Next]_vars
  PROVE  TypeOK'
<1> USE DEF TypeOK, svars, gvars, mvars
<1>1. ASSUME NEW t \in ThreadIds, MinerWait(t) PROVE TypeOK'
  BY <1>1 DEF MinerWait
<1>2. ASSUME NEW t \in ThreadIds, MinerTake(t) PROVE TypeOK'
  BY <1>2, NextWorkType DEF MinerTake, Adopt
<1>3. ASSUME NEW t \in ThreadIds, MinerTakeRegen(t) PROVE TypeOK'
  BY <1>3 DEF MinerTakeRegen
<1>4. ASSUME NEW t \in ThreadIds, MinerGenBody(t) PROVE TypeOK'
  BY <1>4, GenBodyType DEF MinerGenBody
<1>5. ASSUME NEW t \in ThreadIds, MinerGenTarget(t) PROVE TypeOK'
  <2>1. g_work' \in Works
    BY <1>5 DEF MinerGenTarget, Works, Jobs
  <2> QED
    BY <1>5, <2>1, NextWorkType DEF MinerGenTarget, Adopt
<1>6. ASSUME NEW t \in ThreadIds, MinerStart(t) PROVE TypeOK'
  <2>1. ASSUME NEW m \in 1 .. ScanMax
        PROVE  (IF work[t].nonce + m > EndNonce(t) THEN EndNonce(t)
                ELSE work[t].nonce + m) \in Nat
    BY ThreadRange, RangeAssumption DEF Works
  <2>2. (IF Algo = "BLAKE2B" THEN work[t].vnonce ELSE work[t].nonce)
          \in 0 .. NonceMod - 1
    BY DEF Works
  <2>3. max_nonce' \in [ThreadIds -> Nat]
    BY <1>6, <2>1 DEF MinerStart
  <2>4. cursor' \in [ThreadIds -> 0 .. NonceMod - 1]
    BY <1>6, <2>2 DEF MinerStart
  <2>5. lane' \in [ThreadIds -> 0 .. Lanes - 1]
    BY <1>6, LanesAssumption DEF MinerStart
  <2> QED
    BY <1>6, <2>3, <2>4, <2>5 DEF MinerStart
<1>7. ASSUME NEW t \in ThreadIds, MinerSkip(t) PROVE TypeOK'
  BY <1>7 DEF MinerSkip
<1>8. ASSUME NEW t \in ThreadIds, MinerFound(t) PROVE TypeOK'
  BY <1>8, SetNonceType DEF MinerFound
<1>9. ASSUME NEW t \in ThreadIds, MinerHash(t) PROVE TypeOK'
  <2>1. (cursor[t] + 1) % NonceMod \in 0 .. NonceMod - 1 /\ 0 \in 0 .. NonceMod - 1
    BY NonceSpace, NextNonceType
  <2> DEFINE next == (cursor[t] + 1) % NonceMod
             n == IF Algo = "BLAKE2B" THEN next ELSE cursor[t]
  <2>2. n \in 0 .. NonceMod - 1 /\ SetNonce(work[t], n) \in Works
    BY <2>1, SetNonceType
  <2>3. lane' \in [ThreadIds -> 0 .. Lanes - 1]
    <3>1. lane[t] \in 0 .. Lanes - 1 /\ Lanes \in Nat \ {0}
      BY LanesAssumption
    <3>2. (IF lane[t] + 1 < Lanes THEN lane[t] + 1 ELSE 0) \in 0 .. Lanes - 1
          /\ 0 \in 0 .. Lanes - 1
      BY <3>1
    <3> QED
      BY <1>9, <3>2, Zenon DEF MinerHash
  <2> QED
    BY <1>9, <2>1, <2>2, <2>3 DEF MinerHash
<1>10. ASSUME NEW t \in ThreadIds, MinerSubmit(t) PROVE TypeOK'
  BY <1>10, RangeAssumption, LanesAssumption DEF MinerSubmit
<1>11. CASE StratumZero
  BY <1>11, RangeAssumption DEF StratumZero
<1>12. CASE StratumKick
  <2>1. CASE ri < N
    <3>1. ri \in ThreadIds /\ ri + 1 \in 0 .. N
      BY <2>1, RangeAssumption DEF ThreadIds
    <3>2. restart' \in [ThreadIds -> BOOLEAN]
      BY <1>12, <2>1, <3>1, Zenon DEF StratumKick, RestartThreads
    <3> QED
      BY <1>12, <2>1, <3>1, <3>2 DEF StratumKick, RestartThreads
  <2>2. CASE ~(ri < N)
    BY <1>12, <2>2, RangeAssumption DEF StratumKick, RestartThreads
  <2> QED
    BY <2>1, <2>2
<1>13. CASE StratumSubscribe
  BY <1>13, PoolAssumption DEF StratumSubscribe
<1>14. CASE StratumAuthorize
  BY <1>14 DEF StratumAuthorize
<1>15. CASE StratumDisconnect
  BY <1>15 DEF StratumDisconnect
<1>16. CASE StratumNotify
  <2>1. PICK id \in JobIds :
          /\ job' = [id |-> id, h2 |-> Notes[id].h2, cb |-> Notes[id].cb,
                xn1 |-> xnonce1, xn2 |-> IF id = job.id THEN job.xn2 ELSE 0,
                ntime |-> Notes[id].ntime, clean |-> Notes[id].clean,
                diff |-> next_diff]
          /\ announced' = announced \cup {<<id, next_diff>>}
    BY <1>16 DEF StratumNotify
  <2>2. Notes[id] \in Note
    BY NoteType
  <2>3. job' \in Jobs
    BY <2>1, <2>2 DEF Jobs, JobIds, Note
  <2>4. announced' \subseteq Nat \X Nat
    BY <2>1 DEF JobIds
  <2> QED
    BY <1>16, <2>3, <2>4 DEF StratumNotify, AfterLine
<1>17. CASE StratumSetDifficulty
  BY <1>17, PoolAssumption DEF StratumSetDifficulty, AfterLine
<1>18. CASE StratumSetExtranonce
  BY <1>18 DEF StratumSetExtranonce, AfterLine
<1>19. CASE StratumCheck \/ StratumResponse
  BY <1>19 DEF StratumCheck, StratumResponse
<1>20. CASE StratumGen
  <2>1. g_work' \in Works /\ job' \in Jobs
    BY <1>20, GenBodyType DEF StratumGen, Works, Jobs
  <2> QED
    BY <1>20, <2>1 DEF StratumGen
<1>21. CASE StratumRestart
  <2>1. CASE ri < N
    <3>1. ri \in ThreadIds /\ ri + 1 \in 0 .. N
      BY <2>1, RangeAssumption DEF ThreadIds
    <3>2. restart' \in [ThreadIds -> BOOLEAN]
      BY <1>21, <2>1, <3>1, Zenon DEF StratumRestart, RestartThreads
    <3> QED
      BY <1>21, <2>1, <3>1, <3>2 DEF StratumRestart, RestartThreads
  <2>2. CASE ~(ri < N)
    BY <1>21, <2>2, RangeAssumption DEF StratumRestart, RestartThreads
  <2> QED
    BY <2>1, <2>2
<1>22. CASE Age
  BY <1>22 DEF Age
<1>23. CASE UNCHANGED vars
  BY <1>23 DEF vars
<1> QED
  BY <1>1, <1>2, <1>3, <1>4, <1>5, <1>6, <1>7, <1>8, <1>9, <1>10, <1>11, <1>12,
     <1>13, <1>14, <1>15, <1>16, <1>17, <1>18, <1>19, <1>20, <1>21, <1>22, <1>23
     DEF Next, Miner, Stratum

(* Every variable keeps its type; restart_threads keeps to the flags of    *)
(* the threads there are.                                                  *)
THEOREM Typing == Spec => []TypeOK
BY InitType, StepType, PTL DEF Spec

-----------------------------------------------------------------------------
(* The lock. A miner thread holds g_work_lock exactly while it regenerates. *)
LEMMA LockStep ==
  ASSUME TypeOK, LockOwner, [Next]_vars
  PROVE  LockOwner'
<1> USE DEF TypeOK, LockOwner, svars, gvars, mvars
<1>0. NoOwner \notin ThreadIds
  BY RangeAssumption DEF NoOwner, ThreadIds
<1>1. ASSUME NEW t \in ThreadIds, MinerTakeRegen(t) PROVE LockOwner'
  BY <1>0, <1>1 DEF MinerTakeRegen
<1>2. ASSUME NEW t \in ThreadIds, MinerGenBody(t) PROVE LockOwner'
  BY <1>2 DEF MinerGenBody
<1>3. ASSUME NEW t \in ThreadIds, MinerGenTarget(t) PROVE LockOwner'
  BY <1>0, <1>3 DEF MinerGenTarget, Adopt
<1>4. ASSUME NEW t \in ThreadIds, MinerWait(t) \/ MinerTake(t) \/ MinerStart(t)
             \/ MinerSkip(t) \/ MinerFound(t) \/ MinerHash(t) \/ MinerSubmit(t)
      PROVE  LockOwner'
  <2>1. /\ g_work_lock' = g_work_lock
        /\ pc[t] \notin {"gen", "target"} /\ pc'[t] \notin {"gen", "target"}
        /\ \A u \in ThreadIds \ {t} : pc'[u] = pc[u]
    BY <1>4 DEF MinerWait, MinerTake, MinerStart, MinerSkip, MinerFound,
                MinerHash, MinerSubmit, Adopt
  <2> QED
    BY <2>1
<1>5. CASE Stratum
  BY <1>5 DEF Stratum, StratumZero, StratumKick, StratumSubscribe,
     StratumAuthorize, StratumDisconnect, StratumNotify, StratumSetDifficulty,
     StratumSetExtranonce, StratumResponse, StratumCheck,
     StratumGen, StratumRestart, RestartThreads
<1>6. CASE Age \/ UNCHANGED vars
  BY <1>6 DEF Age, vars
<1> QED
  BY <1>1, <1>2, <1>3, <1>4, <1>5, <1>6 DEF Next, Miner

-----------------------------------------------------------------------------
(* The job of the pool.                                                    *)
LEMMA JobStep ==
  ASSUME TypeOK, JobOfPool, SoundWorks, [Next]_vars
  PROVE  JobOfPool'
<1> USE DEF JobOfPool, svars
<1>1. ASSUME NEW t \in ThreadIds, MinerGenBody(t) PROVE JobOfPool'
  BY <1>1 DEF MinerGenBody, NextXn2, TypeOK, Jobs
<1>2. ASSUME NEW t \in ThreadIds, Miner(t), ~MinerGenBody(t) PROVE JobOfPool'
  BY <1>2 DEF Miner, MinerWait, MinerTake, MinerTakeRegen, MinerGenTarget,
     MinerStart, MinerSkip, MinerFound, MinerHash, MinerSubmit
<1>3. CASE StratumSubscribe
  BY <1>3 DEF StratumSubscribe
<1>4. CASE StratumNotify
  <2>1. PICK id \in JobIds :
          /\ job' = [id |-> id, h2 |-> Notes[id].h2, cb |-> Notes[id].cb,
                xn1 |-> xnonce1, xn2 |-> IF id = job.id THEN job.xn2 ELSE 0,
                ntime |-> Notes[id].ntime, clean |-> Notes[id].clean,
                diff |-> next_diff]
          /\ announced' = announced \cup {<<id, next_diff>>}
    BY <1>4 DEF StratumNotify
  <2>2. id \in 0 .. Len(Notes) /\ xnonce1' = xnonce1 /\ spc' # "gen"
    BY <1>4, PoolAssumption DEF StratumNotify, JobIds, AfterLine
  <2> QED
    BY <2>1, <2>2
<1>5. CASE StratumSetExtranonce
  BY <1>5, BoundAssumption DEF StratumSetExtranonce, AfterLine
<1>6. CASE StratumCheck
  BY <1>6 DEF StratumCheck, NewWork
<1>7. CASE StratumGen
  BY <1>7 DEF StratumGen, NextXn2, TypeOK, Jobs
<1>8. CASE \/ StratumZero \/ StratumKick \/ StratumAuthorize \/ StratumDisconnect
           \/ StratumSetDifficulty \/ StratumResponse \/ StratumRestart
  BY <1>8 DEF StratumZero, StratumKick, StratumAuthorize, StratumDisconnect,
     StratumSetDifficulty, StratumResponse, StratumRestart, RestartThreads, AfterLine
<1>9. CASE Age \/ UNCHANGED vars
  BY <1>9 DEF Age, vars
<1> QED
  BY <1>1, <1>2, <1>3, <1>4, <1>5, <1>6, <1>7, <1>8, <1>9 DEF Next, Stratum

-----------------------------------------------------------------------------
(* What a work generated from the job, and a work adopted by a thread, is. *)
LEMMA NotBoth ==
  ASSUME NEW w, Sound(w)
  PROVE  w.id # 0 /\ ~Blank(w)
BY DEF Sound, ShareOf, Blank, JobIds

LEMMA SoundGen ==
  ASSUME TypeOK, JobOfPool, job.id # 0, NEW w, NEW d
  PROVE  /\ Sound(GenBody(w)) /\ Sound([GenBody(w) EXCEPT !.target = d])
         /\ GenBody(w).id = job.id /\ GenBody(w).id # 0
<1>1. /\ job.id \in JobIds /\ job.xn1 \in 1 .. MaxXn1 /\ job.xn1 # 0
      /\ xnonce1 \in 1 .. MaxXn1
  BY BoundAssumption, PoolAssumption DEF JobOfPool, JobIds
<1> QED
  BY <1>1 DEF Sound, ShareOf, GenBody, JobOfPool

LEMMA SoundTarget ==
  ASSUME NEW w \in Works, NEW d \in Nat, Sound(w)
  PROVE  Sound([w EXCEPT !.target = d]) /\ [w EXCEPT !.target = d] \in Works
BY DEF Sound, ShareOf, Works

LEMMA SoundNonce ==
  ASSUME NEW w \in Works, NEW n \in 0 .. NonceMod - 1
  PROVE  /\ Sound(w) => Sound(SetNonce(w, n))
         /\ Blank(w) => Blank(SetNonce(w, n))
BY SetNonceType DEF Sound, ShareOf, Blank

LEMMA BlankIsNotSound ==
  ASSUME NEW w \in Works, NEW g \in Works, Blank(w), Sound(g)
  PROVE  JobChanged(w, g)
<1>1. g.id \in JobIds /\ Notes[g.id].h2 # 0
  BY NoteType DEF Sound, ShareOf, Note
<1>2. w.h2 # g.h2
  BY <1>1 DEF Blank, Sound, ShareOf
<1>3. w.root # g.root
  <2>1. w.root[2] = 0 /\ g.root[2] # 0
    BY DEF Blank, Sound, NoRoot
  <2> QED
    BY <2>1
<1> QED
  BY <1>2, <1>3 DEF JobChanged, HeadDiffers, TailOf

LEMMA SoundAdopt ==
  ASSUME TypeOK, NEW t \in ThreadIds, NEW g \in Works, Sound(g),
         Blank(work[t]) \/ Sound(work[t])
  PROVE  Sound(NextWork(t, g)) /\ NextWork(t, g).id # 0
<1>1. Sound(NextWork(t, g))
  <2>1. work[t] \in Works /\ (work[t].nonce + 1) % NonceMod \in 0 .. NonceMod - 1
    <3>1. work[t] \in Works /\ work[t].nonce \in 0 .. NonceMod - 1
      BY DEF TypeOK, Works
    <3> QED
      BY <3>1, NextNonceType
  <2>2. CASE JobChanged(work[t], g)
    BY <2>2, SoundNonce, ThreadRange DEF NextWork
  <2>3. CASE ~JobChanged(work[t], g)
    BY <2>1, <2>3, SoundNonce, BlankIsNotSound DEF NextWork
  <2> QED
    BY <2>2, <2>3
<1> QED
  BY <1>1, NotBoth

-----------------------------------------------------------------------------
(* Works are zeroed or sound, and only sound ones are scanned.             *)
LEMMA WorksStep ==
  ASSUME TypeOK, TypeOK', JobOfPool, LockOwner, SoundWorks, [Next]_vars
  PROVE  SoundWorks'
<1> USE DEF SoundWorks, svars, gvars, mvars
<1>1. ASSUME NEW t \in ThreadIds, MinerWait(t) PROVE SoundWorks'
  BY <1>1 DEF MinerWait, TypeOK
<1>2. ASSUME NEW t \in ThreadIds, MinerTake(t) PROVE SoundWorks'
  <2>1. Sound(g_work) /\ g_work \in Works
    BY <1>2 DEF MinerTake, Blank, TypeOK
  <2>2. Sound(NextWork(t, g_work)) /\ NextWork(t, g_work).id # 0
    BY <2>1, SoundAdopt
  <2>3. /\ work' = [work EXCEPT ![t] = NextWork(t, g_work)]
        /\ pc' = [pc EXCEPT ![t] = "clear"] /\ pc[t] = "lock"
        /\ UNCHANGED <<job, g_work, g_work_time, cursor>>
    BY <1>2 DEF MinerTake, Adopt
  <2> QED
    BY <2>2, <2>3 DEF TypeOK
<1>3. ASSUME NEW t \in ThreadIds, MinerTakeRegen(t) PROVE SoundWorks'
  BY <1>3 DEF MinerTakeRegen, TypeOK
<1>4. ASSUME NEW t \in ThreadIds, MinerGenBody(t) PROVE SoundWorks'
  <2>1. job.id # 0 /\ Sound(GenBody(g_work)) /\ GenBody(g_work).id # 0
    BY <1>4, SoundGen DEF MinerGenBody
  <2>2. /\ g_work' = GenBody(g_work) /\ job'.id = job.id
        /\ pc' = [pc EXCEPT ![t] = "target"]
        /\ UNCHANGED <<work, g_work_time, cursor>>
    BY <1>4 DEF MinerGenBody, NextXn2, TypeOK, Jobs
  <2> QED
    BY <2>1, <2>2, <1>4 DEF TypeOK, MinerGenBody
<1>5. ASSUME NEW t \in ThreadIds, MinerGenTarget(t) PROVE SoundWorks'
  <2>1. g_work.id # 0 /\ Sound(g_work) /\ g_work \in Works /\ job.diff \in Nat
    BY <1>5 DEF MinerGenTarget, Blank, TypeOK, Jobs
  <2>2. Sound(g_work') /\ g_work' \in Works /\ g_work'.id # 0
    BY <1>5, <2>1, SoundTarget, NotBoth DEF MinerGenTarget
  <2>3. Sound(NextWork(t, g_work')) /\ NextWork(t, g_work').id # 0
    BY <2>2, SoundAdopt
  <2>4. /\ work' = [work EXCEPT ![t] = NextWork(t, g_work')]
        /\ pc' = [pc EXCEPT ![t] = "clear"] /\ pc[t] = "target"
        /\ UNCHANGED <<job, g_work_time, cursor>>
    BY <1>5 DEF MinerGenTarget, Adopt
  <2> QED
    BY <2>1, <2>2, <2>3, <2>4 DEF TypeOK
<1>6. ASSUME NEW t \in ThreadIds, MinerStart(t) PROVE SoundWorks'
  BY <1>6 DEF MinerStart, TypeOK
<1>7. ASSUME NEW t \in ThreadIds, MinerSkip(t) PROVE SoundWorks'
  BY <1>7 DEF MinerSkip, TypeOK
<1>8. ASSUME NEW t \in ThreadIds, MinerFound(t) PROVE SoundWorks'
  <2>1. work[t] \in Works /\ Sound(work[t]) /\ cursor[t] \in 0 .. NonceMod - 1
    BY <1>8 DEF MinerFound, TypeOK, Blank
  <2>2. /\ Sound(SetNonce(work[t], cursor[t])) /\ SetNonce(work[t], cursor[t]).id # 0
        /\ SetNonce(work[t], cursor[t]).nonce = cursor[t]
    BY <2>1, SoundNonce, SetNonceType, NotBoth
  <2>3. /\ work' = [work EXCEPT ![t] = SetNonce(work[t], cursor[t])]
        /\ pc' = [pc EXCEPT ![t] = "submit"] /\ pc[t] = "scan"
        /\ UNCHANGED <<job, g_work, g_work_time, cursor>>
    BY <1>8 DEF MinerFound
  <2> QED
    BY <2>2, <2>3 DEF TypeOK
<1>9. ASSUME NEW t \in ThreadIds, MinerHash(t) PROVE SoundWorks'
  <2> DEFINE next == (cursor[t] + 1) % NonceMod
             n == IF Algo = "BLAKE2B" THEN next ELSE cursor[t]
             w == SetNonce(work[t], n)
  <2>1. work[t] \in Works /\ Sound(work[t])
    BY <1>9 DEF MinerHash, TypeOK, Blank
  <2>2. n \in 0 .. NonceMod - 1
    BY NextNonceType DEF TypeOK
  <2>3. Sound(w) /\ w.id # 0
    BY <2>1, <2>2, SoundNonce, NotBoth
  <2>4. /\ pc[t] = "scan" /\ UNCHANGED <<job, g_work, g_work_time>>
        /\ \/ /\ UNCHANGED <<pc, work>>
              /\ \A u \in ThreadIds \ {t} : cursor'[u] = cursor[u]
           \/ /\ work' = [work EXCEPT ![t] = w]
              /\ pc' = [pc EXCEPT ![t] = "wait"]
              /\ \A u \in ThreadIds \ {t} : cursor'[u] = cursor[u]
    BY <1>9 DEF MinerHash, TypeOK
  <2> QED
    BY <2>3, <2>4 DEF TypeOK
<1>10. ASSUME NEW t \in ThreadIds, MinerSubmit(t) PROVE SoundWorks'
  BY <1>10 DEF MinerSubmit, TypeOK
<1>11. CASE StratumNotify
  <2>1. job'.id # 0 /\ UNCHANGED <<g_work, g_work_time, pc, work, cursor>>
    BY <1>11 DEF StratumNotify, JobIds
  <2> QED
    BY <2>1
<1>12. CASE StratumGen
  <2>1. job.id # 0
    BY <1>12 DEF JobOfPool, StratumGen
  <2>2. Sound(g_work') /\ g_work'.id # 0
    BY <1>12, <2>1, SoundGen, NotBoth DEF StratumGen
  <2>3. job'.id # 0 /\ UNCHANGED <<pc, work, cursor>>
    BY <1>12, <2>1 DEF StratumGen, NextXn2, TypeOK, Jobs
  <2> QED
    BY <2>2, <2>3
<1>13. CASE Stratum /\ ~StratumNotify /\ ~StratumGen
  <2>1. /\ UNCHANGED <<job, g_work, pc, work, cursor>>
        /\ g_work_time' \in {g_work_time, "zero"}
    BY <1>13 DEF Stratum, StratumZero, StratumKick, StratumSubscribe,
     StratumAuthorize, StratumDisconnect, StratumSetDifficulty,
     StratumSetExtranonce, StratumResponse, StratumCheck,
     StratumRestart, RestartThreads
  <2> QED
    BY <2>1
<1>14. CASE Age \/ UNCHANGED vars
  BY <1>14 DEF Age, vars
<1> QED
  BY <1>1, <1>2, <1>3, <1>4, <1>5, <1>6, <1>7, <1>8, <1>9, <1>10, <1>11, <1>12,
     <1>13, <1>14 DEF Next, Miner

-----------------------------------------------------------------------------
(* g_work against the job: its id, its target, when it is replaced.        *)
LEMMA FreshStep ==
  ASSUME TypeOK, TypeOK', LockOwner, JobOfPool, JobOfPool', SoundWorks, FreshWork,
         [Next]_vars
  PROVE  FreshWork'
<1> USE DEF FreshWork, svars, gvars, mvars
<1>0. NoOwner \notin ThreadIds
  BY RangeAssumption DEF NoOwner, ThreadIds
<1>1. ASSUME NEW t \in ThreadIds, MinerTakeRegen(t) PROVE FreshWork'
  <2>1. g_work_lock' # NoOwner
    BY <1>0, <1>1 DEF MinerTakeRegen
  <2>2. UNCHANGED <<job, g_work, g_work_time, spc, announced>> /\ pc'[t] = "gen"
    BY <1>1 DEF MinerTakeRegen, TypeOK
  <2> QED
    BY <2>1, <2>2
<1>2. ASSUME NEW t \in ThreadIds, MinerGenBody(t) PROVE FreshWork'
  <2>1. /\ g_work'.id = job.id /\ job'.id = job.id /\ job.id \in Nat
        /\ g_work_lock' = g_work_lock
    BY <1>2 DEF MinerGenBody, GenBody, NextXn2, TypeOK, Jobs
  <2>2. g_work_lock = t
    BY <1>2 DEF MinerGenBody, LockOwner
  <2> QED
    BY <1>0, <2>1, <2>2
<1>3. ASSUME NEW t \in ThreadIds, MinerGenTarget(t) PROVE FreshWork'
  <2>1. /\ g_work'.id = g_work.id /\ g_work'.target = job.diff
        /\ UNCHANGED <<job, g_work_time, spc, announced>>
        /\ pc' = [pc EXCEPT ![t] = "clear"] /\ pc[t] = "target"
    BY <1>3 DEF MinerGenTarget, Adopt, TypeOK, Works
  <2>2. \A u \in ThreadIds : pc[u] = "gen" => pc'[u] = "gen"
    BY <2>1 DEF TypeOK
  <2>3. job.id # 0 => <<job.id, job.diff>> \in announced
    BY DEF JobOfPool
  <2> QED
    BY <2>1, <2>2, <2>3
<1>4. ASSUME NEW t \in ThreadIds, MinerWait(t) \/ MinerTake(t) \/ MinerStart(t)
             \/ MinerSkip(t) \/ MinerFound(t) \/ MinerHash(t) \/ MinerSubmit(t)
      PROVE  FreshWork'
  <2>1. /\ UNCHANGED <<job, g_work, g_work_time, g_work_lock, spc, announced>>
        /\ pc[t] # "gen" /\ \A u \in ThreadIds \ {t} : pc'[u] = pc[u]
    BY <1>4 DEF MinerWait, MinerTake, MinerStart, MinerSkip, MinerFound,
                MinerHash, MinerSubmit, Adopt, TypeOK
  <2> QED
    BY <2>1
<1>5. CASE StratumNotify
  <2>1. PICK id \in JobIds : /\ id \in {job.id, job.id + 1} /\ job'.id = id
                             /\ announced' = announced \cup {<<id, next_diff>>}
    BY <1>5 DEF StratumNotify
  <2>2. /\ UNCHANGED <<g_work, g_work_lock>> /\ spc' \notin {"recv", "restart"}
        /\ g_work.id \in Nat /\ job.id \in Nat
    BY <1>5 DEF StratumNotify, AfterLine, TypeOK, Works, Jobs
  <2> QED
    BY <2>1, <2>2
<1>6. CASE StratumGen
  <2>1. /\ g_work'.id = job.id /\ job'.id = job.id /\ g_work'.target = job.diff
        /\ job.id \in Nat /\ announced' = announced
    BY <1>6 DEF StratumGen, GenBody, NextXn2, TypeOK, Jobs
  <2>2. job.id # 0 => <<job.id, job.diff>> \in announced
    BY DEF JobOfPool
  <2> QED
    BY <2>1, <2>2
<1>7. CASE StratumCheck
  <2>1. /\ UNCHANGED <<job, g_work, g_work_time, g_work_lock, announced, pc>>
        /\ spc' = "recv" => ~NewWork \/ JobIdTorn
        /\ spc' # "restart"
    BY <1>7 DEF StratumCheck
  <2>2. ~NewWork /\ g_work_time # "zero" => g_work.id = job.id
    BY DEF NewWork, SoundWorks
  <2> QED
    BY <2>1, <2>2 DEF JobIdTorn
<1>8. CASE StratumZero
  BY <1>8 DEF StratumZero
<1>9. CASE StratumKick \/ StratumRestart
  BY <1>9 DEF StratumKick, StratumRestart, RestartThreads
<1>10. CASE \/ StratumSubscribe \/ StratumAuthorize \/ StratumDisconnect
            \/ StratumSetDifficulty \/ StratumSetExtranonce \/ StratumResponse
  BY <1>10 DEF StratumSubscribe, StratumAuthorize, StratumDisconnect,
     StratumSetDifficulty, StratumSetExtranonce, StratumResponse, AfterLine
<1>11. CASE Age \/ UNCHANGED vars
  BY <1>11 DEF Age, vars
<1> QED
  BY <1>1, <1>2, <1>3, <1>4, <1>5, <1>6, <1>7, <1>8, <1>9, <1>10, <1>11
     DEF Next, Miner, Stratum

-----------------------------------------------------------------------------
(* The inductive invariant.                                                *)
LEMMA InitInv == Init => IInv
<1> SUFFICES ASSUME Init PROVE IInv
  OBVIOUS
<1>1. TypeOK
  BY InitType
<1>2. NoOwner \notin ThreadIds /\ 1 \in 1 .. MaxXn1 /\ 0 \in 0 .. Len(Notes)
  BY RangeAssumption, BoundAssumption, PoolAssumption DEF NoOwner, ThreadIds
<1>3. LockOwner
  BY <1>2 DEF Init, LockOwner
<1>4. JobOfPool
  BY <1>2 DEF Init, JobOfPool, NoJob
<1>5. SoundWorks
  BY DEF Init, SoundWorks, Blank, NoWork
<1>6. FreshWork
  BY DEF Init, FreshWork, NoWork, NoJob
<1> QED
  BY <1>1, <1>3, <1>4, <1>5, <1>6 DEF IInv

LEMMA StepInv == IInv /\ [Next]_vars => IInv'
<1> SUFFICES ASSUME IInv, [Next]_vars PROVE IInv'
  OBVIOUS
<1> USE DEF IInv
<1>1. TypeOK'
  BY StepType
<1>2. LockOwner'
  BY LockStep
<1>3. JobOfPool'
  BY JobStep
<1>4. SoundWorks'
  BY <1>1, WorksStep
<1>5. FreshWork'
  BY <1>1, <1>3, FreshStep
<1> QED
  BY <1>1, <1>2, <1>3, <1>4, <1>5

THEOREM Invariance == Spec => []IInv
BY InitInv, StepInv, PTL DEF Spec

(* Shares are of one piece: the job, extranonce2, time and nonce handed in *)
(* are those the hash was taken with.                                      *)
THEOREM SharesAreSound == Spec => []ShareIntegrity
<1>1. IInv => ShareIntegrity
  BY DEF IInv, SoundWorks, ShareIntegrity, Sound, Blank
<1> QED
  BY <1>1, Invariance, PTL

(* Wherever the stratum thread waits for the pool, and no thread is        *)
(* regenerating, g_work is of the pool's last job and of a difficulty it   *)
(* was announced with.                                                     *)
THEOREM WorkSettles == Spec => []SettledWork
<1>1. IInv => SettledWork
  <2> SUFFICES ASSUME IInv, spc = "recv", g_work_lock = NoOwner, g_work_time # "zero"
               PROVE  g_work.id = job.id /\ <<g_work.id, g_work.target>> \in announced
    BY DEF SettledWork
  <2>1. NoOwner \notin ThreadIds
    BY RangeAssumption DEF NoOwner, ThreadIds
  <2>2. \A t \in ThreadIds : pc[t] # "gen"
    BY <2>1 DEF IInv, LockOwner
  <2>3. g_work.id = job.id /\ g_work.id # 0
    BY <2>2 DEF IInv, FreshWork, SoundWorks
  <2> QED
    BY <2>3 DEF IInv, FreshWork
<1> QED
  BY <1>1, Invariance, PTL

-----------------------------------------------------------------------------
(* Nonce ranges, for the 80-byte headers.                                  *)
LEMMA DefaultChanged ==
  ASSUME Algo = "DEFAULT", NEW a, NEW b
  PROVE  JobChanged(a, b) <=> TailOf(a) # TailOf(b)
BY DEF JobChanged, HeadDiffers

(* A thread that goes on with the work g is inside its range: at the start *)
(* of it, or one nonce further than it was.                                *)
LEMMA AdoptInRange ==
  ASSUME TypeOK, NEW t \in ThreadIds, NEW g \in Works,
         work[t].id # 0 => InRange(t, work[t].nonce),
         JobChanged(work[t], g) \/ (work[t].id # 0 /\ work[t].nonce < EndNonce(t))
  PROVE  /\ InRange(t, NextWork(t, g).nonce)
         /\ NextWork(t, g).nonce <= EndNonce(t)
<1>1. /\ work[t] \in Works /\ work[t].nonce \in 0 .. NonceMod - 1
      /\ StartNonce(t) \in Nat /\ EndNonce(t) \in 0 .. NonceMod - 1
      /\ StartNonce(t) <= EndNonce(t) /\ Lanes \in Nat \ {0}
  BY ThreadRange, RangeAssumption DEF TypeOK, Works
<1>2. CASE JobChanged(work[t], g)
  <2>1. NextWork(t, g).nonce = StartNonce(t)
    BY <1>2, SetNonceType, ThreadRange DEF NextWork
  <2> QED
    BY <1>1, <2>1 DEF InRange
<1>3. CASE ~JobChanged(work[t], g)
  <2>1. work[t].nonce + 1 < NonceMod /\ work[t].nonce + 1 <= EndNonce(t)
    BY <1>1, <1>3, RangeAssumption
  <2>2. (work[t].nonce + 1) % NonceMod = work[t].nonce + 1
    BY <1>1, <2>1, NonceSpace
  <2>3. NextWork(t, g) = SetNonce(work[t], work[t].nonce + 1)
    BY <1>3, <2>2 DEF NextWork
  <2>4. work[t].nonce + 1 \in 0 .. NonceMod - 1
    BY <1>1, <2>1, NonceSpace
  <2>5. NextWork(t, g).nonce = work[t].nonce + 1
    <3>1. \A n \in 0 .. NonceMod - 1 : SetNonce(work[t], n).nonce = n
      BY <1>1, SetNonceType
    <3> QED
      BY <2>3, <2>4, <3>1
  <2> QED
    BY <1>1, <1>3, <2>1, <2>5 DEF InRange
<1> QED
  BY <1>2, <1>3

(* A regenerated work differs from the one it replaces.                    *)
LEMMA RegenDiffers ==
  ASSUME IInv, Ranges, Xn2Mod >= 2, DistinctNotes, g_work.id # 0, NEW w
  PROVE  TailOf(GenBody(w)) # TailOf(g_work)
<1>1. Sound(g_work) /\ job.id \in JobIds /\ g_work.id \in JobIds
  <2>1. Sound(g_work) /\ job.id # 0
    BY DEF IInv, SoundWorks, Blank
  <2>2. g_work.id \in JobIds
    BY <2>1 DEF Sound, ShareOf
  <2>3. job.id \in 0 .. Len(Notes) /\ Len(Notes) \in Nat
    BY PoolAssumption DEF IInv, JobOfPool
  <2> QED
    BY <2>1, <2>2, <2>3 DEF JobIds
<1>2. /\ GenBody(w).root = <<Notes[job.id].cb, job.xn1, job.xn2>>
      /\ GenBody(w).ntime = Notes[job.id].ntime
      /\ g_work.root = <<Notes[g_work.id].cb, g_work.root[2], g_work.xn2>>
      /\ g_work.ntime = Notes[g_work.id].ntime
  BY <1>1, NotBoth DEF GenBody, Sound, ShareOf, IInv, JobOfPool, SoundWorks
<1>3. CASE g_work.id = job.id
  <2>1. job.xn2 # g_work.xn2
    <3>1. g_work.xn2 \in Nat /\ g_work.xn2 < Xn2Mod /\ Xn2Mod \in Nat
      BY BoundAssumption DEF IInv, TypeOK, Works, Ranges
    <3> QED
      BY <1>3, <3>1, NextDiffers DEF Ranges
  <2> QED
    BY <1>2, <2>1 DEF TailOf
<1>4. CASE g_work.id # job.id
  <2>1. ~(/\ Notes[job.id].cb = Notes[g_work.id].cb
          /\ Notes[job.id].ntime = Notes[g_work.id].ntime)
    BY <1>1, <1>4 DEF DistinctNotes
  <2> QED
    BY <1>2, <2>1 DEF TailOf
<1> QED
  BY <1>3, <1>4

(* Extranonce2 of the job moves on, and g_work has the one before it.      *)
LEMMA Xn2Step ==
  ASSUME IInv, Ranges, [Next]_vars
  PROVE  /\ job'.xn2 < Xn2Mod /\ g_work'.xn2 < Xn2Mod
         /\ g_work'.id # 0 /\ g_work'.id = job'.id
              => job'.xn2 = (g_work'.xn2 + 1) % Xn2Mod
<1> USE DEF IInv, svars, gvars, mvars
<1>0. /\ job.xn2 \in Nat /\ job.id \in Nat /\ g_work.id \in Nat /\ Xn2Mod \in Nat \ {0}
      /\ (job.xn2 + 1) % Xn2Mod < Xn2Mod /\ job.xn2 < Xn2Mod /\ g_work.xn2 < Xn2Mod
      /\ g_work.id # 0 /\ g_work.id = job.id => job.xn2 = (g_work.xn2 + 1) % Xn2Mod
  <2>1. job.xn2 \in Nat /\ job.id \in Nat /\ g_work.id \in Nat /\ Xn2Mod \in Nat \ {0}
    BY BoundAssumption DEF TypeOK, Works, Jobs
  <2>2. (job.xn2 + 1) % Xn2Mod \in 0 .. Xn2Mod - 1
    BY <2>1, ModType
  <2> QED
    BY <2>1, <2>2 DEF Ranges
<1>1. ASSUME NEW t \in ThreadIds, MinerGenBody(t)
      PROVE  job'.xn2 = (g_work'.xn2 + 1) % Xn2Mod /\ g_work'.xn2 = job.xn2
  BY <1>1 DEF MinerGenBody, GenBody, NextXn2, TypeOK, Jobs
<1>2. CASE StratumGen
  <2>1. job'.xn2 = (g_work'.xn2 + 1) % Xn2Mod /\ g_work'.xn2 = job.xn2
    BY <1>2 DEF StratumGen, GenBody, NextXn2, TypeOK, Jobs
  <2> QED
    BY <1>0, <2>1
<1>3. CASE StratumNotify
  <2>1. PICK id \in JobIds : /\ id \in {job.id, job.id + 1} /\ job'.id = id
                             /\ job'.xn2 = IF id = job.id THEN job.xn2 ELSE 0
    BY <1>3 DEF StratumNotify
  <2>2. g_work' = g_work /\ g_work.id <= job.id
    BY <1>3 DEF StratumNotify, FreshWork
  <2> QED
    BY <1>0, <2>1, <2>2
<1>4. ASSUME NEW t \in ThreadIds, MinerGenTarget(t)
      PROVE  job' = job /\ g_work'.id = g_work.id /\ g_work'.xn2 = g_work.xn2
  BY <1>4 DEF MinerGenTarget, TypeOK, Works
<1>5. ASSUME NEW t \in ThreadIds, Miner(t), ~MinerGenBody(t), ~MinerGenTarget(t)
      PROVE  UNCHANGED <<job, g_work>>
  BY <1>5 DEF Miner, MinerWait, MinerTake, MinerTakeRegen, MinerStart, MinerSkip,
     MinerFound, MinerHash, MinerSubmit
<1>6. CASE Stratum /\ ~StratumNotify /\ ~StratumGen
  <2>1. UNCHANGED <<job, g_work>>
    BY <1>6 DEF Stratum, StratumZero, StratumKick, StratumSubscribe,
       StratumAuthorize, StratumDisconnect, StratumSetDifficulty,
       StratumSetExtranonce, StratumResponse, StratumCheck,
       StratumRestart, RestartThreads
  <2> QED
    BY <1>0, <2>1
<1>7. CASE Age \/ UNCHANGED vars
  BY <1>0, <1>7 DEF Age, vars
<1>8. ASSUME NEW t \in ThreadIds, Miner(t)
      PROVE  /\ job'.xn2 < Xn2Mod /\ g_work'.xn2 < Xn2Mod
             /\ g_work'.id # 0 /\ g_work'.id = job'.id
                  => job'.xn2 = (g_work'.xn2 + 1) % Xn2Mod
  BY <1>0, <1>1, <1>4, <1>5, <1>8
<1> QED
  BY <1>2, <1>3, <1>6, <1>7, <1>8 DEF Next

(* What Ranges says of one thread. *)
ThreadInRange(t) ==
  /\ pc[t] = "gen" => TailOf(work[t]) = TailOf(g_work) /\ work[t].id # 0
  /\ pc[t] = "target" => TailOf(work[t]) # TailOf(g_work)
  /\ work[t].id # 0 => InRange(t, work[t].nonce)
  /\ pc[t] = "clear" => work[t].nonce <= EndNonce(t)
  /\ pc[t] = "scan" => /\ InRange(t, cursor[t]) /\ max_nonce[t] <= EndNonce(t)
                       /\ cursor[t] <= EndNonce(t) + lane[t]

(* What Ranges says of a thread that takes no step, whatever another one   *)
(* does: g_work is not replaced under a thread that holds its lock.        *)
LEMMA BystanderStep ==
  ASSUME IInv, Ranges, NEW u \in ThreadIds, pc'[u] = pc[u], work'[u] = work[u],
         cursor'[u] = cursor[u], max_nonce'[u] = max_nonce[u], lane'[u] = lane[u],
         pc[u] \in {"gen", "target"} => g_work' = g_work
  PROVE  ThreadInRange(u)'
BY DEF Ranges, ThreadInRange

LEMMA OthersKeepWork ==
  ASSUME IInv, NEW t \in ThreadIds, NEW u \in ThreadIds \ {t}, Miner(t)
  PROVE  /\ pc'[u] = pc[u] /\ work'[u] = work[u] /\ cursor'[u] = cursor[u]
         /\ max_nonce'[u] = max_nonce[u] /\ lane'[u] = lane[u]
         /\ pc[u] \in {"gen", "target"} => g_work' = g_work
<1> USE DEF IInv, svars, gvars
<1>1. /\ pc'[u] = pc[u] /\ work'[u] = work[u] /\ cursor'[u] = cursor[u]
      /\ max_nonce'[u] = max_nonce[u] /\ lane'[u] = lane[u]
  BY DEF TypeOK, Miner, MinerWait, MinerTake, MinerTakeRegen, MinerGenBody,
     MinerGenTarget, MinerStart, MinerSkip, MinerFound, MinerHash, MinerSubmit, Adopt
<1>2. CASE MinerGenBody(t) \/ MinerGenTarget(t)
  <2>1. g_work_lock = t
    BY <1>2 DEF MinerGenBody, MinerGenTarget, LockOwner
  <2>2. pc[u] \notin {"gen", "target"}
    BY <2>1 DEF LockOwner
  <2> QED
    BY <1>1, <2>2
<1>3. CASE ~MinerGenBody(t) /\ ~MinerGenTarget(t)
  <2>1. g_work' = g_work
    BY <1>3 DEF Miner, MinerWait, MinerTake, MinerTakeRegen, MinerStart, MinerSkip,
       MinerFound, MinerHash, MinerSubmit
  <2> QED
    BY <1>1, <2>1
<1> QED
  BY <1>2, <1>3

(* What a hash that meets no target does to its thread: one nonce further, *)
(* in the batch or to the next one, or the end of the scan.                *)
LEMMA HashStep ==
  ASSUME IInv, Ranges, Algo = "DEFAULT", NEW t \in ThreadIds, MinerHash(t)
  PROVE  \/ /\ UNCHANGED <<pc, work, max_nonce>> /\ cursor'[t] = cursor[t] + 1
            /\ cursor'[t] <= EndNonce(t) + lane'[t] /\ lane'[t] <= Lanes - 1
         \/ /\ work' = [work EXCEPT ![t] = SetNonce(work[t], cursor[t])]
            /\ pc' = [pc EXCEPT ![t] = "wait"]
            /\ work'[t].nonce = cursor[t]
<1>0. /\ work[t] \in Works /\ cursor[t] \in 0 .. NonceMod - 1 /\ NonceMod \in Nat
      /\ EndNonce(t) \in 0 .. NonceMod - 1 /\ max_nonce[t] \in Nat
      /\ max_nonce[t] <= EndNonce(t) /\ cursor[t] <= EndNonce(t) + lane[t]
      /\ lane[t] \in 0 .. Lanes - 1 /\ Lanes \in Nat \ {0}
      /\ EndNonce(t) + Lanes - 1 < NonceMod
  BY ThreadRange, NonceSpace DEF MinerHash, IInv, TypeOK, Ranges
<1>1. CASE lane[t] + 1 < Lanes
  <2>1. cursor[t] + 1 < NonceMod /\ cursor[t] + 1 <= EndNonce(t) + (lane[t] + 1)
    BY <1>0, <1>1
  <2>2. (cursor[t] + 1) % NonceMod = cursor[t] + 1
    BY <1>0, <2>1
  <2>3. /\ UNCHANGED <<pc, work, max_nonce>>
        /\ cursor'[t] = (cursor[t] + 1) % NonceMod /\ lane'[t] = lane[t] + 1
    BY <1>1 DEF MinerHash, IInv, TypeOK
  <2> QED
    BY <1>0, <1>1, <2>1, <2>2, <2>3
<1>2. CASE ~(lane[t] + 1 < Lanes) /\ cursor[t] < max_nonce[t] /\ ~restart[t]
  <2>1. cursor[t] + 1 < NonceMod /\ cursor[t] + 1 <= EndNonce(t)
    BY <1>0, <1>2
  <2>2. (cursor[t] + 1) % NonceMod = cursor[t] + 1
    BY <1>0, <2>1
  <2>3. /\ UNCHANGED <<pc, work, max_nonce>>
        /\ cursor'[t] = (cursor[t] + 1) % NonceMod /\ lane'[t] = 0
    BY <1>2 DEF MinerHash, IInv, TypeOK
  <2> QED
    BY <1>0, <2>1, <2>2, <2>3
<1>3. CASE ~(lane[t] + 1 < Lanes) /\ ~(cursor[t] < max_nonce[t] /\ ~restart[t])
  <2>1. /\ work' = [work EXCEPT ![t] = SetNonce(work[t], cursor[t])]
        /\ pc' = [pc EXCEPT ![t] = "wait"]
    BY <1>3 DEF MinerHash
  <2>2. SetNonce(work[t], cursor[t]).nonce = cursor[t]
    BY <1>0, SetNonceType
  <2> QED
    BY <2>1, <2>2 DEF IInv, TypeOK
<1> QED
  BY <1>1, <1>2, <1>3

LEMMA RangeStep ==
  ASSUME IInv, IInv', Ranges, [Next]_vars,
         Algo = "DEFAULT", Xn2Mod >= 2, DistinctNotes
  PROVE  Ranges'
<1> USE DEF svars, gvars, mvars
<1>1. ASSUME NEW t \in ThreadIds, Miner(t) PROVE ThreadInRange(t)'
  <2>0. /\ ThreadInRange(t) /\ work[t] \in Works /\ g_work \in Works
        /\ StartNonce(t) \in 0 .. NonceMod - 1 /\ EndNonce(t) \in 0 .. NonceMod - 1
        /\ StartNonce(t) <= EndNonce(t) /\ Lanes \in Nat \ {0}
        /\ work[t].nonce \in 0 .. NonceMod - 1 /\ cursor[t] \in 0 .. NonceMod - 1
        /\ max_nonce[t] \in Nat /\ NonceMod \in Nat
    BY ThreadRange, RangeAssumption DEF Ranges, ThreadInRange, IInv, TypeOK, Works
  <2>1. CASE MinerWait(t) \/ MinerSkip(t) \/ MinerSubmit(t)
    <3>1. pc'[t] \in {"lock", "wait"} /\ work' = work
      BY <2>1 DEF MinerWait, MinerSkip, MinerSubmit, IInv, TypeOK
    <3> QED
      BY <2>0, <3>1 DEF ThreadInRange
  <2>2. CASE MinerTake(t)
    <3>1. Blank(work[t]) \/ work[t].id # 0
      BY NotBoth DEF IInv, SoundWorks
    <3>2. JobChanged(work[t], g_work) \/ work[t].id # 0
      <4>1. Sound(g_work)
        BY <2>2 DEF MinerTake, IInv, SoundWorks, Blank
      <4> QED
        BY <2>0, <3>1, <4>1, BlankIsNotSound
    <3>3. JobChanged(work[t], g_work) \/ work[t].nonce < EndNonce(t)
      BY <2>0, <2>2 DEF MinerTake, NeedsRegen
    <3>4. InRange(t, NextWork(t, g_work).nonce) /\ NextWork(t, g_work).nonce <= EndNonce(t)
      BY <2>0, <3>2, <3>3, AdoptInRange DEF ThreadInRange, IInv
    <3>5. pc'[t] = "clear" /\ work'[t] = NextWork(t, g_work)
      BY <2>2 DEF MinerTake, Adopt, IInv, TypeOK
    <3> QED
      BY <3>4, <3>5 DEF ThreadInRange, InRange
  <2>3. CASE MinerTakeRegen(t)
    <3>1. /\ ~JobChanged(work[t], g_work) /\ g_work' = g_work /\ work' = work
          /\ pc'[t] = "gen" /\ g_work.id # 0
      BY <2>3 DEF MinerTakeRegen, NeedsRegen, IInv, TypeOK, SoundWorks
    <3>2. work[t].id # 0
      <4>1. Sound(g_work) /\ (Blank(work[t]) \/ Sound(work[t]))
        BY <3>1 DEF IInv, SoundWorks, Blank
      <4> QED
        BY <2>0, <3>1, <4>1, BlankIsNotSound, NotBoth
    <3> QED
      BY <2>0, <3>1, <3>2, DefaultChanged DEF ThreadInRange
  <2>4. CASE MinerGenBody(t)
    <3>1. /\ g_work' = GenBody(g_work) /\ work' = work /\ pc'[t] = "target"
          /\ TailOf(work[t]) = TailOf(g_work) /\ g_work.id # 0
      BY <2>0, <2>4 DEF MinerGenBody, ThreadInRange, IInv, TypeOK, SoundWorks
    <3>2. TailOf(GenBody(g_work)) # TailOf(g_work)
      BY <3>1, RegenDiffers
    <3>3. TailOf(g_work') # TailOf(work'[t])
      BY <3>1, <3>2
    <3> QED
      BY <2>0, <3>1, <3>3 DEF ThreadInRange, TailOf
  <2>5. CASE MinerGenTarget(t)
    <3>1. /\ TailOf(g_work') = TailOf(g_work) /\ g_work' \in Works
      BY <2>0, <2>5 DEF MinerGenTarget, TailOf, Works, IInv, TypeOK
    <3>2. JobChanged(work[t], g_work')
      BY <2>0, <2>5, <3>1, DefaultChanged DEF ThreadInRange, MinerGenTarget
    <3>3. InRange(t, NextWork(t, g_work').nonce) /\ NextWork(t, g_work').nonce <= EndNonce(t)
      BY <2>0, <3>1, <3>2, AdoptInRange DEF ThreadInRange, IInv
    <3>4. pc'[t] = "clear" /\ work'[t] = NextWork(t, g_work')
      BY <2>5 DEF MinerGenTarget, Adopt, IInv, TypeOK
    <3> QED
      BY <3>3, <3>4 DEF ThreadInRange, InRange
  <2>6. CASE MinerStart(t)
    <3>1. /\ work' = work /\ pc'[t] = "scan" /\ cursor'[t] = work[t].nonce
          /\ work[t].id # 0 /\ lane'[t] = 0 /\ work[t].nonce <= EndNonce(t)
      BY <2>0, <2>6 DEF MinerStart, ThreadInRange, IInv, TypeOK, SoundWorks
    <3>2. PICK m \in 1 .. ScanMax :
            max_nonce'[t] = IF work[t].nonce + m > EndNonce(t) THEN EndNonce(t)
                            ELSE work[t].nonce + m
      BY <2>6 DEF MinerStart, IInv, TypeOK
    <3>3. max_nonce'[t] <= EndNonce(t)
      BY <2>0, <3>2, BoundAssumption
    <3> QED
      BY <2>0, <3>1, <3>3 DEF ThreadInRange, InRange
  <2>7. CASE MinerFound(t)
    <3>1. /\ pc'[t] = "submit" /\ work'[t].nonce = cursor[t]
          /\ InRange(t, cursor[t])
      <4>1. SetNonce(work[t], cursor[t]).nonce = cursor[t]
        BY <2>0, SetNonceType
      <4>2. pc'[t] = "submit" /\ work'[t] = SetNonce(work[t], cursor[t])
        BY <2>7 DEF MinerFound, IInv, TypeOK
      <4>3. InRange(t, cursor[t])
        BY <2>0, <2>7 DEF MinerFound, ThreadInRange
      <4> QED
        BY <4>1, <4>2, <4>3
    <3> QED
      BY <3>1 DEF ThreadInRange, InRange
  <2>8. CASE MinerHash(t)
    <3>1. pc[t] = "scan" /\ InRange(t, cursor[t]) /\ max_nonce[t] <= EndNonce(t)
          /\ cursor[t] <= EndNonce(t) + lane[t]
      BY <2>0, <2>8 DEF MinerHash, ThreadInRange
    <3>2. CASE /\ UNCHANGED <<pc, work, max_nonce>> /\ cursor'[t] = cursor[t] + 1
               /\ cursor'[t] <= EndNonce(t) + lane'[t] /\ lane'[t] <= Lanes - 1
      <4>1. lane'[t] \in Nat
        BY LanesAssumption DEF IInv, TypeOK
      <4>2. InRange(t, cursor'[t])
        BY <2>0, <3>1, <3>2, <4>1 DEF InRange
      <4> QED
        BY <2>0, <3>1, <3>2, <4>2 DEF ThreadInRange, InRange
    <3>3. CASE /\ pc' = [pc EXCEPT ![t] = "wait"] /\ work'[t].nonce = cursor[t]
      <4>1. pc'[t] = "wait"
        BY <3>3 DEF IInv, TypeOK
      <4> QED
        BY <3>1, <3>3, <4>1 DEF ThreadInRange, InRange
    <3> QED
      BY <2>8, <3>2, <3>3, HashStep, Zenon
  <2> QED
    BY <1>1, <2>1, <2>2, <2>3, <2>4, <2>5, <2>6, <2>7, <2>8 DEF Miner
<1>2. ASSUME NEW t \in ThreadIds, Miner(t), NEW u \in ThreadIds PROVE ThreadInRange(u)'
  <2>1. CASE u = t
    BY <1>1, <1>2, <2>1
  <2>2. CASE u # t
    <3>1. u \in ThreadIds \ {t}
      BY <2>2
    <3> QED
      BY <1>2, <3>1, OthersKeepWork, BystanderStep
  <2> QED
    BY <2>1, <2>2
<1>3. ASSUME Stratum \/ Age \/ UNCHANGED vars, NEW u \in ThreadIds
      PROVE  ThreadInRange(u)'
  <2>1. UNCHANGED mvars
    BY <1>3 DEF Stratum, StratumZero, StratumKick, StratumSubscribe,
       StratumAuthorize, StratumDisconnect, StratumNotify, StratumSetDifficulty,
       StratumSetExtranonce, StratumResponse, StratumCheck, StratumGen, StratumRestart,
       RestartThreads, Age, vars
  <2>2. pc[u] \in {"gen", "target"} => g_work' = g_work
    <3>1. CASE StratumGen
      BY <3>1, RangeAssumption
         DEF StratumGen, IInv, LockOwner, NoOwner, ThreadIds
    <3>2. CASE ~StratumGen
      BY <1>3, <3>2 DEF Stratum, StratumZero, StratumKick, StratumSubscribe,
         StratumAuthorize, StratumDisconnect, StratumNotify, StratumSetDifficulty,
         StratumSetExtranonce, StratumResponse, StratumCheck,
         StratumRestart, RestartThreads, Age, vars
    <3> QED
      BY <3>1, <3>2
  <2> QED
    BY <2>1, <2>2, BystanderStep
<1>4. \A u \in ThreadIds : ThreadInRange(u)'
  BY <1>2, <1>3 DEF Next
<1> QED
  BY <1>4, Xn2Step DEF Ranges, ThreadInRange

LEMMA InitRanges == Init => Ranges
<1>1. 0 < Xn2Mod
  BY BoundAssumption
<1> QED
  BY <1>1 DEF Init, Ranges, NoWork, NoJob

(* With an extranonce2 and jobs of distinct coinbases or times, a thread   *)
(* hashes nonces of its own range only: 80-byte headers, any number of     *)
(* threads and of jobs.                                                    *)
THEOREM RangesAreOwn ==
  ASSUME Algo = "DEFAULT", Xn2Mod >= 2, DistinctNotes
  PROVE  Spec => []OwnRange
<1>1. Init => RInv
  BY InitInv, InitRanges DEF RInv
<1>2. RInv /\ [Next]_vars => RInv'
  BY StepInv, RangeStep DEF RInv
<1>3. RInv => OwnRange
  <2> SUFFICES ASSUME RInv, NEW t \in ThreadIds, pc[t] = "scan"
               PROVE  cursor[t] >= StartNonce(t) /\ cursor[t] < StartNonce(t + 1)
    BY DEF OwnRange
  <2>1. InRange(t, cursor[t]) /\ cursor[t] \in Nat
    BY NonceSpace DEF RInv, IInv, TypeOK, Ranges
  <2>2. /\ StartNonce(t) \in Nat /\ EndNonce(t) \in Nat /\ StartNonce(t + 1) \in Nat
        /\ Lanes \in Nat /\ EndNonce(t) + Lanes - 1 < StartNonce(t + 1)
    BY ThreadRange, NonceSpace
  <2> QED
    BY <2>1, <2>2 DEF InRange
<1> QED
  BY <1>1, <1>2, <1>3, PTL DEF Spec

-----------------------------------------------------------------------------
(* New h2, for every kind of header. *)

(* A thread that comes to "clear" has come by one of two actions of its    *)
(* own, and goes on with what NextWork makes of g_work.                    *)
LEMMA Adoption ==
  ASSUME IInv, [Next]_vars, NEW t \in ThreadIds, pc[t] # "clear", pc'[t] = "clear"
  PROVE  /\ MinerTake(t) \/ MinerGenTarget(t)
         /\ work'[t] = NextWork(t, g_work')
         /\ g_work' \in Works /\ TailOf(g_work') = TailOf(g_work)
         /\ g_work'.h2 = g_work.h2 /\ g_work'.id = g_work.id
         /\ g_work'.xn2 = g_work.xn2
<1> USE DEF IInv, svars, gvars, mvars
<1>1. UNCHANGED vars \/ Stratum \/ Age => pc' = pc
  BY DEF vars, Age, Stratum, StratumZero, StratumKick, StratumSubscribe,
     StratumAuthorize, StratumDisconnect, StratumNotify, StratumSetDifficulty,
     StratumSetExtranonce, StratumResponse, StratumCheck, StratumGen, StratumRestart,
     RestartThreads
<1>2. PICK u \in ThreadIds : Miner(u)
  BY <1>1 DEF Next
<1>3. u = t
  BY <1>2, OthersKeepWork
<1>4. MinerTake(t) \/ MinerGenTarget(t)
  <2>1. \/ MinerWait(t) \/ MinerTakeRegen(t) \/ MinerGenBody(t) \/ MinerStart(t)
        \/ MinerSkip(t) \/ MinerFound(t) \/ MinerHash(t) \/ MinerSubmit(t)
        => pc'[t] # "clear"
    BY DEF MinerWait, MinerTakeRegen, MinerGenBody, MinerStart, MinerSkip, MinerFound,
       MinerHash, MinerSubmit, TypeOK
  <2> QED
    BY <1>2, <1>3, <2>1 DEF Miner
<1>5. CASE MinerTake(t)
  BY <1>5 DEF MinerTake, Adopt, TypeOK
<1>6. CASE MinerGenTarget(t)
  <2>1. g_work' = [g_work EXCEPT !.target = job.diff] /\ g_work \in Works /\ job.diff \in Nat
    BY <1>6 DEF MinerGenTarget, TypeOK, Jobs
  <2>2. g_work' \in Works
    BY <2>1 DEF Works
  <2>3. /\ TailOf(g_work') = TailOf(g_work) /\ g_work'.h2 = g_work.h2
        /\ g_work'.id = g_work.id /\ g_work'.xn2 = g_work.xn2
    BY <2>1 DEF TailOf, Works
  <2> QED
    BY <1>6, <2>2, <2>3 DEF MinerGenTarget, Adopt, TypeOK
<1> QED
  BY <1>4, <1>5, <1>6

(* Works whose header tails are equal are of one job.                      *)
LEMMA TailTellsJobs ==
  ASSUME DistinctNotes, NEW a \in Works, NEW b \in Works, Sound(a), Sound(b),
         TailOf(a) = TailOf(b)
  PROVE  a.id = b.id /\ a.h2 = b.h2
<1>1. a.id \in JobIds /\ b.id \in JobIds
  BY DEF Sound, ShareOf
<1>2. /\ a.root = <<Notes[a.id].cb, a.root[2], a.xn2>>
      /\ b.root = <<Notes[b.id].cb, b.root[2], b.xn2>>
      /\ a.root = b.root
      /\ Notes[a.id].ntime = Notes[b.id].ntime
  BY DEF Sound, ShareOf, TailOf
<1>3. Notes[a.id].cb = Notes[b.id].cb
  BY <1>2
<1>4. a.id = b.id
  BY <1>1, <1>2, <1>3 DEF DistinctNotes
<1> QED
  BY <1>4 DEF Sound, ShareOf

(* When the jobs of the pool differ in coinbase or in time, a thread that  *)
(* comes for work while g_work commits to another h2 takes that work. The  *)
(* hypothesis is needed: MinerV2NewH2 violates the property without it.    *)
THEOREM NewH2Taken ==
  ASSUME DistinctNotes
  PROVE  Spec => NewH2Adopted
<1>1. ASSUME IInv, [Next]_vars, NEW t \in ThreadIds, pc[t] \in {"lock", "target"},
             pc'[t] = "clear", work[t].h2 # g_work.h2
      PROVE  work'[t].h2 = g_work.h2
  <2>1. /\ work'[t] = NextWork(t, g_work') /\ g_work' \in Works
        /\ TailOf(g_work') = TailOf(g_work) /\ g_work'.h2 = g_work.h2
    BY <1>1, Adoption
  <2>2. /\ Sound(g_work) /\ g_work \in Works /\ work[t] \in Works
        /\ Blank(work[t]) \/ Sound(work[t])
    BY <1>1 DEF IInv, SoundWorks, Blank, TypeOK
  <2>3. TailOf(work[t]) # TailOf(g_work)
    <3>1. CASE Blank(work[t])
      BY <2>2, <3>1, BlankIsNotSound DEF JobChanged
    <3>2. CASE Sound(work[t])
      BY <1>1, <2>2, <3>2, TailTellsJobs
    <3> QED
      BY <2>2, <3>1, <3>2
  <2>4. JobChanged(work[t], g_work')
    BY <1>1, <2>1, <2>3 DEF JobChanged, HeadDiffers
  <2>5. work'[t] = SetNonce(g_work', StartNonce(t))
    BY <2>1, <2>4 DEF NextWork
  <2> QED
    BY <2>1, <2>5, SetNonceType, ThreadRange
<1>2. IInv /\ [Next]_vars =>
        \A t \in ThreadIds :
          pc[t] \in {"lock", "target"} /\ pc'[t] = "clear" /\ work[t].h2 # g_work.h2
            => work'[t].h2 = g_work.h2
  BY <1>1
<1> QED
  BY <1>2, Invariance, PTL DEF Spec, NewH2Adopted

-----------------------------------------------------------------------------
(* No thread comes back to what it has looked at. *)

(* The extranonce2 of a job at its highest, less one.                      *)
Most == IF MaxGen >= MaxDrop THEN MaxGen ELSE MaxDrop

(* Extranonce2 does not come round to one a work of the job already has.   *)
NoWrap == Most + 2 <= Xn2Mod

(* What keeps it from coming round: where the stratum thread is bound to   *)
(* generate, and where a miner thread is, one more value is left.          *)
Bounded ==
  /\ job.xn2 <= Most + 1
  /\ spc \in {"zero", "gen"} \/ g_work_time = "zero" => job.xn2 <= Most
  /\ g_work.id # job.id => job.xn2 = 0
  /\ \A t \in ThreadIds : pc[t] = "gen" => job.xn2 < MaxGen

(* The works in the order they are generated in: the job is above g_work,  *)
(* and g_work is above every thread's work, or is the work it has.         *)
Below(w, g) ==
  /\ w.id <= g.id
  /\ w.id = g.id => w.xn2 <= g.xn2
  /\ w.id = g.id /\ w.xn2 = g.xn2 => TailOf(w) = TailOf(g)

Ascending ==
  /\ g_work.id # 0 /\ g_work.id = job.id => g_work.xn2 < job.xn2
  /\ \A t \in ThreadIds : Below(work[t], g_work)

AInv == RInv /\ Bounded /\ Ascending

LEMMA MostType == Most \in Nat /\ MaxGen <= Most /\ MaxDrop <= Most
BY BoundAssumption DEF Most

LEMMA BoundedStep ==
  ASSUME IInv, IInv', Bounded, [Next]_vars, NoWrap
  PROVE  Bounded'
<1> USE DEF Bounded, svars, gvars, mvars
<1>0. /\ job.xn2 \in Nat /\ job.id \in Nat /\ g_work.id \in Nat /\ g_work.id <= job.id
      /\ Most \in Nat /\ MaxGen <= Most /\ MaxDrop <= Most
      /\ MaxGen \in Nat /\ MaxDrop \in Nat /\ Xn2Mod \in Nat
  BY MostType, BoundAssumption DEF IInv, TypeOK, Jobs, Works, FreshWork
<1>1. job.xn2 <= Most => (job.xn2 + 1) % Xn2Mod = job.xn2 + 1
  BY <1>0 DEF NoWrap
<1>2. ASSUME NEW t \in ThreadIds, MinerGenBody(t) PROVE Bounded'
  <2>1. /\ job'.xn2 = (job.xn2 + 1) % Xn2Mod /\ job'.id = job.id /\ g_work'.id = job.id
        /\ UNCHANGED <<spc, g_work_time>> /\ job.xn2 < MaxGen
    BY <1>2 DEF MinerGenBody, NextXn2, GenBody, IInv, TypeOK, Jobs
  <2>2. job'.xn2 = job.xn2 + 1
    BY <1>0, <1>1, <2>1
  <2>3. \A u \in ThreadIds : pc'[u] # "gen"
    BY <1>2 DEF MinerGenBody, IInv, LockOwner, TypeOK
  <2>4. job'.xn2 <= Most /\ job'.xn2 <= Most + 1
    BY <1>0, <2>1, <2>2
  <2> QED
    BY <2>1, <2>3, <2>4
<1>3. ASSUME NEW t \in ThreadIds, MinerTakeRegen(t) PROVE Bounded'
  BY <1>3 DEF MinerTakeRegen, IInv, TypeOK
<1>4. ASSUME NEW t \in ThreadIds, Miner(t), ~MinerGenBody(t), ~MinerTakeRegen(t)
      PROVE  Bounded'
  <2>1. /\ UNCHANGED <<job, spc, g_work_time>> /\ g_work'.id = g_work.id
        /\ \A u \in ThreadIds : pc'[u] = "gen" => pc[u] = "gen"
    BY <1>4 DEF Miner, MinerWait, MinerTake, MinerGenTarget, MinerStart, MinerSkip,
       MinerFound, MinerHash, MinerSubmit, Adopt, IInv, TypeOK, Works
  <2> QED
    BY <2>1
<1>5. CASE StratumZero
  BY <1>5 DEF StratumZero
<1>6. CASE StratumDisconnect
  BY <1>0, <1>6 DEF StratumDisconnect
<1>7. CASE StratumNotify
  <2>1. PICK id \in JobIds : /\ id \in {job.id, job.id + 1} /\ job'.id = id
                             /\ job'.xn2 = IF id = job.id THEN job.xn2 ELSE 0
    BY <1>7 DEF StratumNotify
  <2>2. UNCHANGED <<g_work, g_work_time, pc>> /\ spc' \notin {"zero", "gen"}
    BY <1>7 DEF StratumNotify, AfterLine
  <2>3. CASE id = job.id
    BY <2>1, <2>2, <2>3
  <2>4. CASE id = job.id + 1
    <3>1. job'.xn2 = 0
      BY <1>0, <2>1, <2>4
    <3> QED
      BY <1>0, <2>2, <3>1
  <2> QED
    BY <2>1, <2>3, <2>4
<1>8. CASE StratumCheck
  <2>1. UNCHANGED <<job, g_work, g_work_time, pc>> /\ spc' \in {"gen", "recv"}
    BY <1>8 DEF StratumCheck
  <2>2. spc' = "gen" => NewWork \/ JobIdTorn
    BY <1>8 DEF StratumCheck
  <2>3. NewWork \/ JobIdTorn => job.xn2 <= Most
    BY <1>0 DEF NewWork, JobIdTorn
  <2> QED
    BY <2>1, <2>2, <2>3
<1>9. CASE StratumGen
  <2>1. /\ job'.xn2 = (job.xn2 + 1) % Xn2Mod /\ job'.id = job.id /\ g_work'.id = job.id
        /\ g_work_time' = "fresh" /\ spc' \in {"restart", "recv"} /\ job.xn2 <= Most
        /\ pc' = pc
    BY <1>9 DEF StratumGen, NextXn2, GenBody, IInv, TypeOK, Jobs
  <2>2. \A u \in ThreadIds : pc[u] # "gen"
    BY <1>9, RangeAssumption DEF StratumGen, IInv, LockOwner, NoOwner, ThreadIds
  <2> QED
    BY <1>0, <1>1, <2>1, <2>2
<1>10. CASE \/ StratumKick \/ StratumSubscribe \/ StratumAuthorize
            \/ StratumSetDifficulty \/ StratumSetExtranonce \/ StratumResponse
            \/ StratumRestart
  <2>1. UNCHANGED <<job, g_work, g_work_time, pc>> /\ spc' \notin {"zero", "gen"}
    BY <1>10 DEF StratumKick, StratumSubscribe, StratumAuthorize,
       StratumSetDifficulty, StratumSetExtranonce, StratumResponse,
       StratumRestart, RestartThreads, AfterLine
  <2> QED
    BY <2>1
<1>11. CASE Age \/ UNCHANGED vars
  BY <1>11 DEF Age, vars
<1> QED
  BY <1>2, <1>3, <1>4, <1>5, <1>6, <1>7, <1>8, <1>9, <1>10, <1>11 DEF Next, Stratum

(* A work of the order keeps its place when its nonce is set, and when     *)
(* g_work is generated anew.                                               *)
LEMMA BelowNonce ==
  ASSUME NEW w \in Works, NEW g \in Works, NEW n \in 0 .. NonceMod - 1
  PROVE  /\ Below(w, g) => Below(SetNonce(w, n), g)
         /\ Below(SetNonce(g, n), g)
<1>1. ASSUME NEW v \in Works
      PROVE  /\ SetNonce(v, n).id = v.id /\ SetNonce(v, n).xn2 = v.xn2
             /\ TailOf(SetNonce(v, n)) = TailOf(v) /\ v.id \in Nat /\ v.xn2 \in Nat
  BY SetNonceType DEF TailOf, Works
<1> QED
  BY <1>1 DEF Below

LEMMA BelowNext ==
  ASSUME TypeOK, NEW t \in ThreadIds, NEW g \in Works, Below(work[t], g)
  PROVE  Below(NextWork(t, g), g)
<1>1. work[t] \in Works /\ (work[t].nonce + 1) % NonceMod \in 0 .. NonceMod - 1
  <2>1. work[t] \in Works /\ work[t].nonce \in 0 .. NonceMod - 1
    BY DEF TypeOK, Works
  <2> QED
    BY <2>1, NextNonceType
<1> QED
  BY <1>1, BelowNonce, ThreadRange DEF NextWork

LEMMA BelowGen ==
  ASSUME IInv, Bounded, Ascending, job.id # 0, NEW g \in Works,
         g.id = job.id, g.xn2 = job.xn2, NEW t \in ThreadIds
  PROVE  Below(work[t], g)
<1>1. /\ work[t].id \in Nat /\ g_work.id \in Nat /\ job.id \in Nat
      /\ work[t].xn2 \in Nat /\ g_work.xn2 \in Nat /\ job.xn2 \in Nat
      /\ g_work.id <= job.id
  BY DEF IInv, TypeOK, Works, Jobs, FreshWork
<1>2. /\ work[t].id <= g_work.id
      /\ work[t].id = g_work.id => work[t].xn2 <= g_work.xn2
      /\ g_work.id = job.id => g_work.xn2 < job.xn2
  BY DEF Ascending, Below
<1>3. work[t].id <= job.id /\ (work[t].id = job.id => work[t].xn2 < job.xn2)
  BY <1>1, <1>2
<1> QED
  BY <1>1, <1>3 DEF Below

LEMMA AscendingStep ==
  ASSUME IInv, IInv', Bounded, Ascending, [Next]_vars, NoWrap
  PROVE  Ascending'
<1> USE DEF svars, gvars, mvars
<1>0. /\ job.xn2 \in Nat /\ job.id \in Nat /\ g_work.id \in Nat /\ g_work.id <= job.id
      /\ g_work \in Works /\ \A u \in ThreadIds : work[u] \in Works
      /\ Most \in Nat /\ MaxGen <= Most /\ MaxGen \in Nat /\ Xn2Mod \in Nat
  BY MostType, BoundAssumption DEF IInv, TypeOK, Jobs, Works, FreshWork
<1>1. job.xn2 <= Most => (job.xn2 + 1) % Xn2Mod = job.xn2 + 1
  BY <1>0 DEF NoWrap
<1>2. ASSUME NEW t \in ThreadIds, MinerGenBody(t) PROVE Ascending'
  <2>1. /\ job'.xn2 = (job.xn2 + 1) % Xn2Mod /\ job'.id = job.id
        /\ g_work'.id = job.id /\ g_work'.xn2 = job.xn2 /\ g_work' \in Works
        /\ work' = work /\ job.xn2 < MaxGen /\ job.id # 0
    BY <1>2, GenBodyType
       DEF MinerGenBody, NextXn2, GenBody, IInv, TypeOK, Jobs, Bounded, SoundWorks
  <2>2. \A u \in ThreadIds : Below(work[u], g_work')
    BY <2>1, BelowGen
  <2>3. g_work'.xn2 < job'.xn2
    BY <1>0, <1>1, <2>1
  <2> QED
    BY <2>1, <2>2, <2>3 DEF Ascending
<1>3. CASE StratumGen
  <2>1. /\ job'.xn2 = (job.xn2 + 1) % Xn2Mod /\ job'.id = job.id
        /\ g_work'.id = job.id /\ g_work'.xn2 = job.xn2 /\ g_work' \in Works
        /\ work' = work /\ job.xn2 <= Most /\ job.id # 0
    <3>1. /\ job'.xn2 = (job.xn2 + 1) % Xn2Mod /\ job'.id = job.id
          /\ g_work'.id = job.id /\ g_work'.xn2 = job.xn2 /\ work' = work
      BY <1>3 DEF StratumGen, NextXn2, GenBody, IInv, TypeOK, Jobs
    <3>2. job.xn2 <= Most /\ job.id # 0 /\ g_work' \in Works
      BY <1>3 DEF StratumGen, Bounded, IInv, JobOfPool, TypeOK
    <3> QED
      BY <3>1, <3>2
  <2>2. \A u \in ThreadIds : Below(work[u], g_work')
    BY <2>1, BelowGen
  <2>3. g_work'.xn2 < job'.xn2
    BY <1>0, <1>1, <2>1
  <2> QED
    BY <2>1, <2>2, <2>3 DEF Ascending
<1>4. CASE StratumNotify
  <2>1. PICK id \in JobIds : /\ id \in {job.id, job.id + 1} /\ job'.id = id
                             /\ job'.xn2 = IF id = job.id THEN job.xn2 ELSE 0
    BY <1>4 DEF StratumNotify
  <2>2. UNCHANGED <<g_work, work>>
    BY <1>4 DEF StratumNotify
  <2>3. g_work'.id # 0 /\ g_work'.id = job'.id => g_work'.xn2 < job'.xn2
    BY <1>0, <2>1, <2>2 DEF Ascending
  <2> QED
    BY <2>2, <2>3 DEF Ascending
<1>5. ASSUME NEW t \in ThreadIds, MinerTake(t) PROVE Ascending'
  <2>1. UNCHANGED <<job, g_work>> /\ work' = [work EXCEPT ![t] = NextWork(t, g_work)]
    BY <1>5 DEF MinerTake, Adopt
  <2>2. Below(NextWork(t, g_work), g_work)
    BY <1>0, BelowNext DEF Ascending, IInv
  <2> QED
    BY <2>1, <2>2 DEF Ascending, IInv, TypeOK
<1>6. ASSUME NEW t \in ThreadIds, MinerGenTarget(t) PROVE Ascending'
  <2>1. /\ job' = job /\ work' = [work EXCEPT ![t] = NextWork(t, g_work')]
        /\ g_work' = [g_work EXCEPT !.target = job.diff] /\ g_work' \in Works
    BY <1>6 DEF MinerGenTarget, Adopt, IInv, TypeOK
  <2>2. /\ g_work'.id = g_work.id /\ g_work'.xn2 = g_work.xn2
        /\ TailOf(g_work') = TailOf(g_work)
    BY <1>0, <2>1 DEF TailOf, Works
  <2>3. \A u \in ThreadIds : Below(work[u], g_work')
    BY <2>2 DEF Ascending, Below
  <2>4. Below(NextWork(t, g_work'), g_work')
    BY <2>1, <2>3, BelowNext DEF IInv
  <2>5. \A u \in ThreadIds : Below(work'[u], g_work')
    BY <2>1, <2>3, <2>4 DEF IInv, TypeOK
  <2> QED
    BY <2>1, <2>2, <2>5 DEF Ascending
<1>7. ASSUME NEW t \in ThreadIds, NEW n \in 0 .. NonceMod - 1,
             UNCHANGED <<job, g_work>>, work' = [work EXCEPT ![t] = SetNonce(work[t], n)]
      PROVE  Ascending'
  <2>1. Below(SetNonce(work[t], n), g_work)
    BY <1>0, BelowNonce DEF Ascending
  <2> QED
    BY <1>7, <2>1 DEF Ascending, IInv, TypeOK
<1>8. ASSUME NEW t \in ThreadIds, MinerFound(t) PROVE Ascending'
  BY <1>7, <1>8 DEF MinerFound, IInv, TypeOK
<1>9. ASSUME NEW t \in ThreadIds, MinerHash(t) PROVE Ascending'
  <2> DEFINE next == (cursor[t] + 1) % NonceMod
             n == IF Algo = "BLAKE2B" THEN next ELSE cursor[t]
  <2>1. n \in 0 .. NonceMod - 1
    BY NextNonceType DEF IInv, TypeOK
  <2>2. /\ UNCHANGED <<job, g_work>>
        /\ work' = work \/ work' = [work EXCEPT ![t] = SetNonce(work[t], n)]
    BY <1>9 DEF MinerHash
  <2>3. CASE work' = work
    BY <2>2, <2>3 DEF Ascending
  <2>4. CASE work' = [work EXCEPT ![t] = SetNonce(work[t], n)]
    <3> HIDE DEF n
    <3> QED
      BY <1>7, <2>1, <2>2, <2>4
  <2> QED
    BY <2>2, <2>3, <2>4
<1>10. ASSUME NEW t \in ThreadIds, MinerWait(t) \/ MinerTakeRegen(t) \/ MinerStart(t)
              \/ MinerSkip(t) \/ MinerSubmit(t)
       PROVE  UNCHANGED <<job, g_work, work>>
  BY <1>10 DEF MinerWait, MinerTakeRegen, MinerStart, MinerSkip, MinerSubmit
<1>11. CASE Stratum /\ ~StratumNotify /\ ~StratumGen
  <2>1. UNCHANGED <<job, g_work, work>>
    BY <1>11 DEF Stratum, StratumZero, StratumKick, StratumSubscribe,
       StratumAuthorize, StratumDisconnect, StratumSetDifficulty,
       StratumSetExtranonce, StratumResponse, StratumCheck,
       StratumRestart, RestartThreads
  <2> QED
    BY <2>1 DEF Ascending
<1>12. CASE Age \/ UNCHANGED vars
  BY <1>12 DEF Age, vars, Ascending
<1>13. ASSUME UNCHANGED <<job, g_work, work>> PROVE Ascending'
  BY <1>13 DEF Ascending
<1> QED
  BY <1>2, <1>3, <1>4, <1>5, <1>6, <1>8, <1>9, <1>10, <1>11, <1>12, <1>13 DEF Next, Miner

LEMMA InitAscending == Init => Bounded /\ Ascending
<1> SUFFICES ASSUME Init PROVE Bounded /\ Ascending
  OBVIOUS
<1>1. /\ job = NoJob /\ g_work = NoWork /\ \A t \in ThreadIds : work[t] = NoWork
      /\ \A t \in ThreadIds : pc[t] = "wait"
  BY DEF Init
<1> QED
  BY <1>1, MostType DEF Bounded, Ascending, Below, NoJob, NoWork

(* What a step of the scan loop does to the nonces of a thread.            *)
LEMMA ScanStep ==
  ASSUME RInv, [Next]_vars, Algo = "DEFAULT", NEW t \in ThreadIds, pc[t] = "scan"
  PROVE  /\ pc'[t] = "scan" => cursor'[t] >= cursor[t]
         /\ pc'[t] # "scan" => work'[t].nonce >= cursor[t]
<1> USE DEF svars, gvars, mvars
<1>0. /\ work[t] \in Works /\ cursor[t] \in 0 .. NonceMod - 1 /\ NonceMod \in Nat
      /\ EndNonce(t) \in 0 .. NonceMod - 1 /\ max_nonce[t] \in Nat
      /\ max_nonce[t] <= EndNonce(t)
  BY ThreadRange, NonceSpace DEF RInv, IInv, TypeOK, Ranges
<1>1. SetNonce(work[t], cursor[t]).nonce = cursor[t]
  BY <1>0, SetNonceType
<1>2. CASE MinerFound(t)
  BY <1>0, <1>1, <1>2 DEF MinerFound, RInv, IInv, TypeOK
<1>3. CASE MinerHash(t)
  <2>1. CASE pc' = pc /\ cursor'[t] = cursor[t] + 1
    BY <1>0, <2>1
  <2>2. CASE pc' = [pc EXCEPT ![t] = "wait"] /\ work'[t].nonce = cursor[t]
    BY <1>0, <2>2 DEF RInv, IInv, TypeOK
  <2> QED
    BY <1>3, <2>1, <2>2, HashStep, Zenon DEF RInv
<1>4. ASSUME NEW u \in ThreadIds, Miner(u), u # t
      PROVE  pc'[t] = pc[t] /\ cursor'[t] = cursor[t]
  BY <1>4, OthersKeepWork DEF RInv
<1>5. Miner(t) => MinerFound(t) \/ MinerHash(t)
  BY DEF Miner, MinerWait, MinerTake, MinerTakeRegen, MinerGenBody, MinerGenTarget,
     MinerStart, MinerSkip, MinerSubmit
<1>6. CASE Stratum \/ Age \/ UNCHANGED vars
  <2>1. pc' = pc /\ cursor' = cursor
    BY <1>6 DEF Stratum, StratumZero, StratumKick, StratumSubscribe,
       StratumAuthorize, StratumDisconnect, StratumNotify, StratumSetDifficulty,
       StratumSetExtranonce, StratumResponse, StratumCheck, StratumGen, StratumRestart,
       RestartThreads, Age, vars
  <2> QED
    BY <1>0, <2>1
<1>7. ASSUME NEW u \in ThreadIds, Miner(u)
      PROVE  /\ pc'[t] = "scan" => cursor'[t] >= cursor[t]
             /\ pc'[t] # "scan" => work'[t].nonce >= cursor[t]
  BY <1>0, <1>2, <1>3, <1>4, <1>5, <1>7
<1> QED
  BY <1>6, <1>7 DEF Next

(* What a thread goes on with when it comes for work is a nonce further    *)
(* on, or of a header generated later.                                     *)
LEMMA AdoptAdvances ==
  ASSUME AInv, [Next]_vars, Algo = "DEFAULT", NEW t \in ThreadIds,
         pc[t] # "clear", pc'[t] = "clear"
  PROVE  IF TailOf(work'[t]) = TailOf(work[t])
         THEN work'[t].nonce > work[t].nonce
         ELSE Later(work'[t], work[t])
<1>0. /\ work[t] \in Works /\ work[t].nonce \in 0 .. NonceMod - 1 /\ NonceMod \in Nat
      /\ work[t].id \in Nat /\ work[t].xn2 \in Nat
      /\ EndNonce(t) \in 0 .. NonceMod - 1 /\ StartNonce(t) \in 0 .. NonceMod - 1
      /\ g_work.id \in Nat /\ g_work.xn2 \in Nat
  BY ThreadRange, NonceSpace DEF AInv, RInv, IInv, TypeOK, Works
<1>1. /\ MinerTake(t) \/ MinerGenTarget(t)
      /\ work'[t] = NextWork(t, g_work') /\ g_work' \in Works
      /\ TailOf(g_work') = TailOf(g_work)
      /\ g_work'.id = g_work.id /\ g_work'.xn2 = g_work.xn2
  BY Adoption DEF AInv, RInv
<1>2. CASE TailOf(work[t]) # TailOf(g_work)
  <2>1. work'[t] = SetNonce(g_work', StartNonce(t))
    BY <1>1, <1>2, DefaultChanged DEF NextWork
  <2>2. /\ work'[t].id = g_work.id /\ work'[t].xn2 = g_work.xn2
        /\ TailOf(work'[t]) = TailOf(g_work)
    <3>1. \A n \in 0 .. NonceMod - 1 :
            /\ SetNonce(g_work', n).id = g_work'.id
            /\ SetNonce(g_work', n).xn2 = g_work'.xn2
            /\ SetNonce(g_work', n).root = g_work'.root
            /\ SetNonce(g_work', n).ntime = g_work'.ntime
      BY <1>1, SetNonceType
    <3>2. /\ work'[t].id = g_work'.id /\ work'[t].xn2 = g_work'.xn2
          /\ TailOf(work'[t]) = TailOf(g_work')
      BY <1>0, <2>1, <3>1 DEF TailOf
    <3> QED
      BY <1>1, <3>2
  <2>3. Later(work'[t], work[t])
    BY <1>0, <1>2, <2>2 DEF Later, AInv, Ascending, Below
  <2> QED
    BY <1>2, <2>2, <2>3
<1>3. CASE TailOf(work[t]) = TailOf(g_work)
  <2>1. MinerTake(t)
    BY <1>1, <1>3 DEF MinerGenTarget, AInv, RInv, Ranges
  <2>2. ~JobChanged(work[t], g_work') /\ ~JobChanged(work[t], g_work)
    BY <1>1, <1>3, DefaultChanged
  <2>3. work[t].nonce < EndNonce(t)
    BY <1>0, <2>1, <2>2 DEF MinerTake, NeedsRegen
  <2>4. (work[t].nonce + 1) % NonceMod = work[t].nonce + 1
    BY <1>0, <2>3
  <2>5. work'[t] = SetNonce(work[t], work[t].nonce + 1)
    BY <1>1, <2>2, <2>4 DEF NextWork
  <2>6. work[t].nonce + 1 \in 0 .. NonceMod - 1
    BY <1>0, <2>3
  <2>7. SetNonce(work[t], work[t].nonce + 1).nonce = work[t].nonce + 1
    BY <1>0, <2>6, SetNonceType
  <2>8. TailOf(work'[t]) = TailOf(work[t])
    <3>1. \A n \in 0 .. NonceMod - 1 : /\ SetNonce(work[t], n).root = work[t].root
                                       /\ SetNonce(work[t], n).ntime = work[t].ntime
      BY <1>0, SetNonceType
    <3> QED
      BY <2>5, <2>6, <3>1 DEF TailOf
  <2> QED
    BY <1>0, <2>5, <2>7, <2>8
<1> QED
  BY <1>2, <1>3

(* AInv is inductive by itself.                                            *)
LEMMA AInvStep ==
  ASSUME AInv, [Next]_vars, Algo = "DEFAULT", NoWrap, DistinctNotes
  PROVE  AInv'
<1>1. Xn2Mod >= 2
  BY MostType, BoundAssumption DEF NoWrap
<1>2. IInv' /\ Ranges'
  BY <1>1, StepInv, RangeStep DEF AInv, RInv
<1>. QED  BY <1>2, BoundedStep, AscendingStep DEF AInv, RInv

(* With 80-byte headers, jobs of distinct coinbases or times and an        *)
(* extranonce2 that does not come round, no thread comes back to nonces of *)
(* a header it has looked at, whatever is notified again, regenerated or   *)
(* lost: each step takes it to a higher nonce, or to a work generated      *)
(* later.                                                                  *)
THEOREM NothingTwice ==
  ASSUME Algo = "DEFAULT", NoWrap, DistinctNotes
  PROVE  Spec => ScanAdvances
<1>1. Init => AInv
  BY InitInv, InitRanges, InitAscending DEF AInv, RInv
<1>2. AInv /\ [Next]_vars => AInv'
  BY AInvStep
<1>3. AInv /\ [Next]_vars =>
        \A t \in ThreadIds :
          /\ pc[t] # "clear" /\ pc'[t] = "clear"
               => IF TailOf(work'[t]) = TailOf(work[t])
                  THEN work'[t].nonce > work[t].nonce
                  ELSE Later(work'[t], work[t])
          /\ pc[t] = "scan" /\ pc'[t] = "scan" => cursor'[t] >= cursor[t]
          /\ pc[t] = "scan" /\ pc'[t] # "scan" => work'[t].nonce >= cursor[t]
  <2> SUFFICES ASSUME AInv, [Next]_vars, NEW t \in ThreadIds
               PROVE  /\ pc[t] # "clear" /\ pc'[t] = "clear"
                           => IF TailOf(work'[t]) = TailOf(work[t])
                              THEN work'[t].nonce > work[t].nonce
                              ELSE Later(work'[t], work[t])
                      /\ pc[t] = "scan" /\ pc'[t] = "scan" => cursor'[t] >= cursor[t]
                      /\ pc[t] = "scan" /\ pc'[t] # "scan" => work'[t].nonce >= cursor[t]
    OBVIOUS
  <2>1. RInv
    BY DEF AInv
  <2>2. ASSUME pc[t] # "clear", pc'[t] = "clear"
        PROVE  IF TailOf(work'[t]) = TailOf(work[t])
               THEN work'[t].nonce > work[t].nonce
               ELSE Later(work'[t], work[t])
    BY <2>2, AdoptAdvances
  <2>3. ASSUME pc[t] = "scan"
        PROVE  /\ pc'[t] = "scan" => cursor'[t] >= cursor[t]
               /\ pc'[t] # "scan" => work'[t].nonce >= cursor[t]
    BY <2>1, <2>3, ScanStep
  <2> QED
    BY <2>2, <2>3
<1> QED
  BY <1>1, <1>2, <1>3, PTL DEF Spec, ScanAdvances

-----------------------------------------------------------------------------
(* No hash is compared twice. *)

(* Thread t is through with nonce n of the header it has.                  *)
Through(t, n) ==
  /\ pc[t] = "scan" => n < cursor[t]
  /\ pc[t] = "clear" => n < work[t].nonce
  /\ pc[t] \notin {"scan", "clear"} => n <= work[t].nonce

(* What has been tried, of the work v, is behind the thread it was for.    *)
Behind(t, v, n) ==
  \/ Later(work[t], v)
  \/ TailOf(work[t]) = TailOf(v) /\ Through(t, n)

NotedBehind ==
  noted # Nothing =>
    \E v \in Works, n \in 0 .. NonceMod - 1 :
      /\ Sound(v) /\ noted = <<HeaderOf(v), n>>
      /\ \A t \in ThreadIds : InRange(t, n) => Behind(t, v, n)

HInv == AInv /\ NotedBehind

(* The ranges of two threads have no nonce in common.                      *)
LEMMA RangesApart ==
  ASSUME NEW t \in ThreadIds, NEW u \in ThreadIds, NEW n \in Nat, InRange(t, n), InRange(u, n)
  PROVE  t = u
<1>1. ASSUME NEW a \in ThreadIds, NEW b \in ThreadIds, a < b, InRange(a, n), InRange(b, n)
      PROVE  FALSE
  <2>1. /\ a \in Nat /\ b \in Nat /\ Span \in Nat /\ Gap \in Nat \ {0} /\ a + 1 <= b
        /\ Lanes \in Nat \ {0} /\ Lanes <= Gap
    BY <1>1, RangeAssumption, LanesAssumption DEF ThreadIds
  <2>2. Span * (a + 1) <= Span * b
    <3>1. PICK d \in Nat : b = a + 1 + d
      <4>1. b - (a + 1) \in Nat /\ b = a + 1 + (b - (a + 1))
        BY <2>1
      <4>. QED  BY <4>1
    <3>2. Span * b = Span * (a + 1) + Span * d /\ Span * d \in Nat /\ Span * (a + 1) \in Nat
      BY <2>1, <3>1
    <3>. QED  BY <3>2
  <2>3. n <= Span * (a + 1) - Gap + Lanes - 1 /\ Span * b <= n
    BY <1>1 DEF InRange, EndNonce, StartNonce
  <2>4. Span * (a + 1) \in Nat /\ Span * b \in Nat
    BY <2>1
  <2>. QED  BY <2>1, <2>2, <2>3, <2>4
<1>2. t \in Nat /\ u \in Nat
  BY RangeAssumption DEF ThreadIds
<1>. QED  BY <1>1, <1>2

(* Works with equal tails are of one job and one extranonce2.              *)
LEMMA TailTellsWorks ==
  ASSUME DistinctNotes, NEW a \in Works, NEW b \in Works, Sound(b), Sound(a) \/ Blank(a),
         TailOf(a) = TailOf(b)
  PROVE  a.id = b.id /\ a.xn2 = b.xn2 /\ a.id \in Nat /\ a.xn2 \in Nat
<1>1. a.root = b.root /\ b.root = <<Notes[b.id].cb, b.root[2], b.xn2>> /\ b.root[2] # 0
  BY DEF Sound, TailOf
<1>2. ~Blank(a)
  BY <1>1 DEF Blank, NoRoot
<1>3. a.root = <<Notes[a.id].cb, a.root[2], a.xn2>> /\ Sound(a)
  BY <1>2 DEF Sound
<1>4. a.xn2 = b.xn2
  BY <1>1, <1>3
<1>. QED  BY <1>3, <1>4, TailTellsJobs DEF Works

(* What a thread is behind of, it stays behind of.                         *)
LEMMA BehindStep ==
  ASSUME AInv, AInv', [Next]_vars, Algo = "DEFAULT", DistinctNotes, NEW t \in ThreadIds,
         NEW v \in Works, Sound(v), NEW n \in 0 .. NonceMod - 1, Behind(t, v, n)
  PROVE  Behind(t, v, n)'
<1>0. /\ work[t] \in Works /\ work'[t] \in Works /\ NonceMod \in Nat
      /\ work[t].nonce \in 0 .. NonceMod - 1 /\ work'[t].nonce \in 0 .. NonceMod - 1
      /\ cursor[t] \in 0 .. NonceMod - 1 /\ cursor'[t] \in 0 .. NonceMod - 1
      /\ Blank(work[t]) \/ Sound(work[t])
      /\ pc[t] \in {"wait", "lock", "gen", "target", "clear", "scan", "submit"}
      /\ v.id \in Nat /\ v.xn2 \in Nat
      /\ work[t].id \in Nat /\ work[t].xn2 \in Nat
      /\ work'[t].id \in Nat /\ work'[t].xn2 \in Nat
  BY NonceSpace DEF AInv, RInv, IInv, TypeOK, Works, SoundWorks
<1>1. CASE pc[t] # "clear" /\ pc'[t] = "clear"
  <2>1. IF TailOf(work'[t]) = TailOf(work[t])
        THEN work'[t].nonce > work[t].nonce
        ELSE Later(work'[t], work[t])
    BY <1>1, AdoptAdvances
  <2>2. pc[t] \in {"lock", "target"}
    <3>1. MinerTake(t) \/ MinerGenTarget(t)
      BY <1>1, Adoption DEF AInv, RInv
    <3>. QED  BY <3>1 DEF MinerTake, MinerGenTarget
  <2>3. CASE TailOf(work'[t]) = TailOf(work[t])
    <3>1. Later(work[t], v) => Later(work'[t], v)
      <4>1. work'[t].id = work[t].id /\ work'[t].xn2 = work[t].xn2
        <5>1. work'[t].id # 0 /\ (Blank(work'[t]) \/ Sound(work'[t]))
          BY <1>1 DEF AInv, RInv, IInv, SoundWorks
        <5>2. Sound(work'[t])
          BY <5>1 DEF Blank
        <5>. QED  BY <1>0, <2>3, <5>2, TailTellsWorks
      <4>. QED  BY <4>1 DEF Later
    <3>2. Through(t, n) => Through(t, n)'
      BY <1>0, <1>1, <2>1, <2>2, <2>3 DEF Through
    <3>. QED  BY <2>3, <3>1, <3>2 DEF Behind
  <2>4. CASE TailOf(work'[t]) # TailOf(work[t])
    <3>1. Later(work'[t], work[t])
      BY <2>1, <2>4
    <3>2. TailOf(work[t]) = TailOf(v) => work[t].id = v.id /\ work[t].xn2 = v.xn2
      BY <1>0, TailTellsWorks
    <3>3. Later(work'[t], v)
      BY <1>0, <3>1, <3>2 DEF Later, Behind
    <3>. QED  BY <3>3 DEF Behind
  <2>. QED  BY <2>3, <2>4
<1>2. CASE ~(pc[t] # "clear" /\ pc'[t] = "clear")
  <2>1. /\ work'[t].id = work[t].id /\ work'[t].xn2 = work[t].xn2
        /\ TailOf(work'[t]) = TailOf(work[t])
        /\ Through(t, n) => Through(t, n)'
    <3>1. CASE UNCHANGED <<pc[t], work[t], cursor[t]>>
      BY <3>1 DEF Through
    <3>2. ASSUME NEW u \in ThreadIds, u # t, Miner(u)
          PROVE  UNCHANGED <<pc[t], work[t], cursor[t]>>
      BY <3>2, OthersKeepWork DEF AInv, RInv
    <3>3. ASSUME Stratum \/ Age \/ UNCHANGED vars
          PROVE  UNCHANGED <<pc[t], work[t], cursor[t]>>
      BY <3>3 DEF Stratum, StratumZero, StratumKick, StratumSubscribe,
         StratumAuthorize, StratumDisconnect, StratumNotify, StratumSetDifficulty,
         StratumSetExtranonce, StratumResponse, StratumCheck, StratumGen, StratumRestart,
         RestartThreads, Age, vars, mvars
    <3>4. CASE MinerWait(t) \/ MinerTakeRegen(t) \/ MinerGenBody(t) \/ MinerSubmit(t)
      <4>1. /\ work' = work /\ pc[t] \notin {"scan", "clear"} /\ pc'[t] \notin {"scan", "clear"}
        BY <3>4 DEF MinerWait, MinerTakeRegen, MinerGenBody, MinerSubmit, AInv, RInv, IInv, TypeOK
      <4>. QED  BY <4>1 DEF Through
    <3>5. CASE MinerTake(t) \/ MinerGenTarget(t)
      <4>1. pc[t] # "clear" /\ pc'[t] = "clear"
        BY <3>5 DEF MinerTake, MinerGenTarget, Adopt, AInv, RInv, IInv, TypeOK
      <4>. QED  BY <1>2, <4>1
    <3>6. CASE MinerStart(t)
      <4>1. /\ work' = work /\ pc[t] = "clear" /\ pc'[t] = "scan" /\ cursor'[t] = work[t].nonce
        BY <3>6 DEF MinerStart, AInv, RInv, IInv, TypeOK
      <4>. QED  BY <4>1 DEF Through
    <3>7. CASE MinerSkip(t)
      <4>1. /\ work' = work /\ pc[t] = "clear" /\ pc'[t] = "wait"
        BY <3>7 DEF MinerSkip, AInv, RInv, IInv, TypeOK
      <4>. QED  BY <1>0, <4>1 DEF Through
    <3>8. CASE MinerFound(t) \/ MinerHash(t)
      <4>1. pc[t] = "scan" /\ pc'[t] \in {"scan", "wait", "submit"}
        BY <3>8 DEF MinerFound, MinerHash, AInv, RInv, IInv, TypeOK
      <4>2. /\ pc'[t] = "scan" => cursor'[t] >= cursor[t]
            /\ pc'[t] # "scan" => work'[t].nonce >= cursor[t]
        BY <4>1, ScanStep DEF AInv
      <4>3. work'[t] = work[t] \/ work'[t] = SetNonce(work[t], cursor[t])
        BY <3>8 DEF MinerFound, MinerHash, AInv, RInv, IInv, TypeOK
      <4>4. /\ work'[t].id = work[t].id /\ work'[t].xn2 = work[t].xn2
            /\ TailOf(work'[t]) = TailOf(work[t])
        <5>1. /\ SetNonce(work[t], cursor[t]).id = work[t].id
              /\ SetNonce(work[t], cursor[t]).xn2 = work[t].xn2
              /\ SetNonce(work[t], cursor[t]).root = work[t].root
              /\ SetNonce(work[t], cursor[t]).ntime = work[t].ntime
          BY <1>0, SetNonceType
        <5>. QED  BY <4>3, <5>1 DEF TailOf
      <4>5. Through(t, n) => Through(t, n)'
        BY <1>0, <4>1, <4>2 DEF Through
      <4>. QED  BY <4>4, <4>5
    <3>. QED  BY <3>1, <3>2, <3>3, <3>4, <3>5, <3>6, <3>7, <3>8 DEF Next, Miner
  <2>. QED  BY <2>1 DEF Behind, Later
<1>. QED  BY <1>1, <1>2

(* The hash that is noted is of the range of the thread that tried it, and *)
(* that thread is through with it.                                         *)
LEMMA NoteStep ==
  ASSUME AInv, AInv', NoteTry, Algo = "DEFAULT", DistinctNotes
  PROVE  NotedBehind'
<1>1. PICK t \in ThreadIds : /\ noted = Nothing
                             /\ MinerFound(t) \/ MinerHash(t)
                             /\ noted' = HashOf(t)
  BY Zenon DEF NoteTry
<1>2. pc[t] = "scan"
  BY <1>1 DEF MinerFound, MinerHash
<1>3. /\ work[t] \in Works /\ cursor[t] \in 0 .. NonceMod - 1 /\ Sound(work[t])
      /\ InRange(t, cursor[t]) /\ NonceMod \in Nat
  BY <1>2, NonceSpace DEF AInv, RInv, IInv, TypeOK, SoundWorks, Ranges, Blank
<1>4. \/ work'[t] = work[t] /\ pc'[t] = "scan" /\ cursor'[t] > cursor[t]
      \/ work'[t] = SetNonce(work[t], cursor[t]) /\ pc'[t] \in {"wait", "submit"}
  <2>1. CASE MinerFound(t)
    BY <2>1 DEF MinerFound, AInv, RInv, IInv, TypeOK
  <2>2. CASE MinerHash(t)
    <3>1. CASE UNCHANGED <<pc, work>> /\ cursor'[t] = cursor[t] + 1
      BY <1>2, <1>3, <3>1
    <3>2. CASE /\ work' = [work EXCEPT ![t] = SetNonce(work[t], cursor[t])]
               /\ pc' = [pc EXCEPT ![t] = "wait"]
      BY <3>2 DEF AInv, RInv, IInv, TypeOK
    <3>. QED  BY <2>2, <3>1, <3>2, HashStep, Zenon DEF AInv, RInv
  <2>. QED  BY <1>1, <2>1, <2>2
<1>5. PICK v \in Works, n \in 0 .. NonceMod - 1 : v = work[t] /\ n = cursor[t]
  BY <1>3
<1>6. Behind(t, v, n)'
  <2>1. CASE work'[t] = work[t] /\ pc'[t] = "scan" /\ cursor'[t] > cursor[t]
    BY <1>5, <2>1 DEF Behind, Through
  <2>2. CASE work'[t] = SetNonce(work[t], cursor[t]) /\ pc'[t] \in {"wait", "submit"}
    <3>1. /\ SetNonce(v, n).nonce = n /\ SetNonce(v, n).root = v.root
          /\ SetNonce(v, n).ntime = v.ntime
      BY SetNonceType
    <3>2. TailOf(work'[t]) = TailOf(v) /\ work'[t].nonce = n
      BY <1>5, <2>2, <3>1 DEF TailOf
    <3>. QED  BY <1>5, <2>2, <3>2 DEF Behind, Through
  <2>. QED  BY <1>4, <2>1, <2>2
<1>7. noted' = <<HeaderOf(v), n>> /\ Sound(v)
  BY <1>1, <1>3, <1>5 DEF HashOf
<1>8. ASSUME NEW u \in ThreadIds, InRange(u, n)  PROVE Behind(u, v, n)'
  BY <1>3, <1>5, <1>6, <1>8, RangesApart
<1>. QED  BY <1>7, <1>8 DEF NotedBehind

(* Any other step leaves what was noted behind every thread.               *)
LEMMA NotedStep ==
  ASSUME AInv, AInv', [Next]_vars, UNCHANGED noted, NotedBehind, Algo = "DEFAULT", DistinctNotes
  PROVE  NotedBehind'
<1>1. CASE noted = Nothing
  BY <1>1 DEF NotedBehind
<1>2. CASE noted # Nothing
  <2>1. PICK v \in Works, n \in 0 .. NonceMod - 1 :
          /\ Sound(v) /\ noted = <<HeaderOf(v), n>>
          /\ \A t \in ThreadIds : InRange(t, n) => Behind(t, v, n)
    BY <1>2 DEF NotedBehind
  <2>2. \A t \in ThreadIds : InRange(t, n) => Behind(t, v, n)'
    BY <2>1, BehindStep
  <2>. QED  BY <2>1, <2>2 DEF NotedBehind
<1>. QED  BY <1>1, <1>2

(* With 80-byte headers, jobs of distinct coinbases or times and an        *)
(* extranonce2 that does not come round, no hash is compared with the      *)
(* target twice, so that no share is found twice: not by one thread, which *)
(* goes on from where it was or to a later header, and not by two that     *)
(* scan the same header, each in its own range. This holds for batches of  *)
(* any size within Gap, the hashes of which behind a share are not         *)
(* compared, but taken anew. The hash noted is any that was compared.      *)
THEOREM NeverTriedTwice ==
  ASSUME Algo = "DEFAULT", NoWrap, DistinctNotes
  PROVE  HashSpec => []TriedOnce
<1>1. HashInit => HInv
  BY InitInv, InitRanges, InitAscending DEF HashInit, HInv, AInv, RInv, NotedBehind
<1>2. HInv /\ [HashNext]_hvars => HInv'
  <2>. SUFFICES ASSUME HInv, [HashNext]_hvars  PROVE HInv'
    OBVIOUS
  <2>1. [Next]_vars
    <3>1. CASE NoteTry
      <4>1. PICK t \in ThreadIds : MinerFound(t) \/ MinerHash(t)
        BY <3>1, Zenon DEF NoteTry
      <4>. QED  BY <4>1 DEF Next, Miner
    <3>2. CASE Next \/ UNCHANGED hvars
      BY <3>2 DEF hvars
    <3>. QED  BY <3>1, <3>2 DEF HashNext
  <2>2. AInv /\ AInv'
    BY <2>1, AInvStep DEF HInv
  <2>3. NoteTry \/ UNCHANGED noted
    BY Zenon DEF HashNext, hvars
  <2>. QED  BY <2>1, <2>2, <2>3, NoteStep, NotedStep DEF HInv
<1>3. HInv => TriedOnce
  <2>. SUFFICES ASSUME HInv, NEW t \in ThreadIds, pc[t] = "scan", HashOf(t) = noted
                PROVE  FALSE
    BY DEF TriedOnce
  <2>1. noted # Nothing
    BY DEF HashOf, Nothing
  <2>2. PICK v \in Works, n \in 0 .. NonceMod - 1 :
          /\ Sound(v) /\ noted = <<HeaderOf(v), n>>
          /\ \A u \in ThreadIds : InRange(u, n) => Behind(u, v, n)
    BY <2>1 DEF HInv, NotedBehind
  <2>3. TailOf(work[t]) = TailOf(v) /\ cursor[t] = n
    BY <2>2 DEF HashOf, HeaderOf, TailOf
  <2>4. /\ work[t] \in Works /\ (Sound(work[t]) \/ Blank(work[t])) /\ InRange(t, cursor[t])
    BY DEF HInv, AInv, RInv, IInv, TypeOK, SoundWorks, Ranges
  <2>5. Behind(t, v, n) /\ work[t].id = v.id /\ work[t].xn2 = v.xn2
        /\ work[t].id \in Nat /\ work[t].xn2 \in Nat
    BY <2>2, <2>3, <2>4, TailTellsWorks
  <2>. QED  BY <2>3, <2>5 DEF Behind, Through, Later
<1>. QED  BY <1>1, <1>2, <1>3, PTL DEF HashSpec

=============================================================================
