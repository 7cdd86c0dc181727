--------------------------- MODULE GetWork_proofs ---------------------------
(***************************************************************************)
(* What is proved about GetWork for every number of threads, every option  *)
(* and every bound.                                                        *)
(***************************************************************************)
EXTENDS GetWork, TLAPS

(* Commands come from threads, and one is at hand while a call is made.    *)
Queued ==
  /\ \A i \in DOMAIN wq : wq[i].thr \in ThreadIds
  /\ wpc \notin {"pop", "freeze", "end"} => cmd.thr \in ThreadIds

(* A job of the pool is nowhere before the switch.                         *)
NodeWorks ==
  /\ ret.tip \in Nat /\ lwork.tip \in Nat
  /\ \A t \in ThreadIds : \A i \in DOMAIN reply[t] : reply[t][i].tip \in Nat
  /\ ~have_stratum =>
       /\ g_work.tip \in Nat /\ cmd.work.tip \in Nat
       /\ \A t \in ThreadIds : work[t].tip \in Nat
       /\ \A i \in DOMAIN wq : wq[i].work.tip \in Nat

(* Before the switch, an answer is a work of the server, and so is g_work  *)
(* unless it is due, and when a thread has just taken it from its answer.  *)
NoEmpty ==
  /\ tip # 0
  /\ lpc = "answer" => lwork.tip # 0
  /\ ~have_stratum =>
       /\ wpc \in {"info", "answer"} => ret.tip # 0
       /\ \A t \in ThreadIds : \A i \in DOMAIN reply[t] : reply[t][i].tip # 0
       /\ ~due => g_work.tip # 0
       /\ \A t \in ThreadIds : pc[t] = "got" => g_work.tip # 0

IInv == TypeOK /\ Queued /\ NodeWorks /\ NoEmpty /\ EmptyNotScanned /\ PollsOnce

-----------------------------------------------------------------------------
(* The helpers                                                             *)

LEMMA Owner == NoOwner \notin ThreadIds /\ NoOwner \in Nat /\ ThreadIds \subseteq Nat
BY ThreadAssumption DEF NoOwner, ThreadIds

LEMMA NoWorkType == NoWork \in Works /\ NoWork.tip = 0
BY DEF NoWork, Works

LEMMA NoCmdType == NoCmd \in Cmds /\ NoCmd.work.tip = 0
BY NoWorkType DEF NoCmd, Cmds

(* An answer may turn on long polling, and then pushes a path.             *)
LEMMA OfferedOK ==
  ASSUME TypeOK, NEW template \in BOOLEAN, Offered(template)
  PROVE  /\ have_longpoll' \in BOOLEAN /\ have_stratum' \in BOOLEAN /\ paths' \in Nat
         /\ have_stratum => have_stratum'
         /\ \/ UNCHANGED <<have_longpoll, paths>>
            \/ /\ ~have_longpoll /\ have_longpoll'
               /\ paths' = IF lpc # "end" THEN paths + 1 ELSE paths
<1>1. have_stratum' \in BOOLEAN /\ (have_stratum => have_stratum')
  BY OptionAssumption, Zenon DEF Offered, TypeOK
<1>2. PICK new \in BOOLEAN :
        /\ new => ~have_longpoll
        /\ have_longpoll' = (have_longpoll \/ new)
        /\ paths' = IF new /\ lpc # "end" THEN paths + 1 ELSE paths
  BY DEF Offered
<1>3. have_longpoll \in BOOLEAN /\ paths \in Nat
  BY DEF TypeOK
<1>. QED
  <2>1. CASE new
    <3>1. have_longpoll' = TRUE /\ ~have_longpoll
      BY <1>2, <2>1, Zenon
    <3>2. paths' = IF lpc # "end" THEN paths + 1 ELSE paths
      BY <1>2, <2>1
    <3>3. paths' \in Nat
      BY <1>3, <3>2
    <3>. QED  BY <1>1, <3>1, <3>2, <3>3, Zenon
  <2>2. CASE ~new
    <3>1. have_longpoll' = have_longpoll
      BY <1>2, <1>3, <2>2, Zenon
    <3>2. paths' = paths
      BY <1>2, <2>2
    <3>. QED  BY <1>1, <1>3, <3>1, <3>2, Zenon
  <2>. QED  BY <2>1, <2>2

(* The work a thread goes on with is of the block of g.                    *)
LEMMA AdoptOK ==
  ASSUME TypeOK, NEW t \in ThreadIds, NEW g \in Works, Adopt(t, g)
  PROVE  /\ work' \in [ThreadIds -> Works] /\ work'[t].tip = g.tip
         /\ \A u \in ThreadIds : u # t => work'[u] = work[u]
BY DEF Adopt, TypeOK

LEMMA DecodedOK ==
  ASSUME NEW template \in BOOLEAN, NEW on \in Nat, NEW a \in Works
  PROVE  Decoded(template, on, a) \in Works /\ Decoded(template, on, a).tip = on
<1>1. on + 1 \in Nat /\ a.height \in Nat /\ a.gbt \in BOOLEAN
  BY DEF Works
<1>2. (template \/ a.gbt) \in BOOLEAN
  BY <1>1
<1>. QED  BY <1>1, <1>2 DEF Decoded, Works

LEMMA HalvesOK ==
  ASSUME NEW template \in BOOLEAN, NEW on \in Nat, NEW a \in Works,
         NEW b \in Halves(template, on, a)
  PROVE  b \in Works /\ b.tip = a.tip
<1>1. b = a \/ \E g \in BOOLEAN :
         b = [tip |-> a.tip, height |-> on + 1, gbt |-> g, swapped |-> a.swapped]
  BY DEF Halves, Works
<1>2. ASSUME NEW g \in BOOLEAN
      PROVE  [tip |-> a.tip, height |-> on + 1, gbt |-> g, swapped |-> a.swapped] \in Works
  BY DEF Works
<1>. QED  BY <1>1, <1>2

LEMMA RetryOK ==
  ASSUME TypeOK, NEW from, Retry(from)
  PROVE  wpc' \in {from, "freeze"} /\ failures' \in Nat
BY DEF Retry, TypeOK

(* Sequences that grow at the end and shrink at the head.                  *)
LEMMA Appended ==
  ASSUME NEW S, NEW s \in Seq(S), NEW e \in S
  PROVE  /\ Append(s, e) \in Seq(S)
         /\ \A i \in DOMAIN Append(s, e) :
              \/ Append(s, e)[i] = e
              \/ i \in DOMAIN s /\ Append(s, e)[i] = s[i]
OBVIOUS

LEMMA Behead ==
  ASSUME NEW S, NEW s \in Seq(S), s # << >>
  PROVE  /\ Head(s) \in S /\ Tail(s) \in Seq(S)
         /\ \E k \in DOMAIN s : Head(s) = s[k]
         /\ \A i \in DOMAIN Tail(s) : \E k \in DOMAIN s : Tail(s)[i] = s[k]
<1>1. Len(s) \in Nat /\ Len(s) > 0
  OBVIOUS
<1>2. 1 \in DOMAIN s /\ Head(s) = s[1]
  BY <1>1
<1>3. ASSUME NEW i \in DOMAIN Tail(s)
      PROVE  i + 1 \in DOMAIN s /\ Tail(s)[i] = s[i + 1]
  BY <1>1, <1>3
<1>4. Head(s) \in S /\ Tail(s) \in Seq(S)
  BY <1>1
<1>. QED  BY <1>2, <1>3, <1>4

(* A command put on the queue of the workio thread.                        *)
LEMMA Enqueued ==
  ASSUME TypeOK, NEW e \in Cmds, wq' = wq \/ wq' = Append(wq, e)
  PROVE  /\ wq' \in Seq(Cmds)
         /\ \A i \in DOMAIN wq' : wq'[i] = e \/ (i \in DOMAIN wq /\ wq'[i] = wq[i])
<1>1. wq \in Seq(Cmds)
  BY DEF TypeOK
<1>2. CASE wq' = wq
  BY <1>1, <1>2
<1>3. CASE wq' = Append(wq, e)
  BY <1>1, <1>3, Appended
<1>. QED  BY <1>2, <1>3

-----------------------------------------------------------------------------
(* The steps of a miner thread                                             *)

LEMMA MinerTakeKeeps ==
  ASSUME IInv, NEW t \in ThreadIds, MinerTake(t)
  PROVE  IInv'
<1>. USE DEF IInv
<1>1. UNCHANGED <<tip, delivered, accepted, g_work, due, g_work_lock,
                reply, wq, wpc, cmd, ret, failures, have_gbt,
                allow_mininginfo, net_blocks, have_longpoll, have_stratum,
                paths, lpc, lwork, submit_old>>
  BY DEF MinerTake, server, shared, mvars, offers, pvars, calls, wvars
<1>2. /\ work' \in [ThreadIds -> Works] /\ work'[t].tip = g_work.tip
      /\ \A u \in ThreadIds : u # t => work'[u] = work[u]
  BY AdoptOK DEF MinerTake, TypeOK
<1>3. /\ pc' \in [ThreadIds -> {"lock", "await", "got", "scan", "submit", "submitted",
          "zero", "left"}]
      /\ pc'[t] # "got" /\ \A u \in ThreadIds : u # t => pc'[u] = pc[u]
      /\ ~due /\ (pc'[t] = "scan" => ~have_stratum \/ work'[t].tip # 0)
  BY DEF MinerTake, TypeOK
<1>4. TypeOK'
  BY <1>1, <1>2, <1>3 DEF TypeOK
<1>5. Queued'
  BY <1>1, <1>2, <1>3 DEF Queued
<1>6. NodeWorks'
  <2>1. ret'.tip \in Nat /\ lwork'.tip \in Nat
    BY <1>1, <1>2, <1>3 DEF NodeWorks
  <2>2. \A u \in ThreadIds : \A i \in DOMAIN reply'[u] : reply'[u][i].tip \in Nat
    BY <1>1, <1>2, <1>3 DEF NodeWorks
  <2>3. ~have_stratum' => g_work'.tip \in Nat /\ cmd'.work.tip \in Nat
    BY <1>1, <1>2, <1>3 DEF NodeWorks
  <2>4. ~have_stratum' => \A u \in ThreadIds : work'[u].tip \in Nat
    BY <1>1, <1>2, <1>3 DEF NodeWorks
  <2>5. ~have_stratum' => \A i \in DOMAIN wq' : wq'[i].work.tip \in Nat
    BY <1>1, <1>2, <1>3 DEF NodeWorks
  <2>. QED  BY <2>1, <2>2, <2>3, <2>4, <2>5 DEF NodeWorks
<1>7. NoEmpty'
  BY <1>1, <1>2, <1>3 DEF NoEmpty
<1>8. EmptyNotScanned'
  <2>. SUFFICES ASSUME NEW u \in ThreadIds, pc'[u] = "scan"
                PROVE  work'[u].tip # 0
    BY DEF EmptyNotScanned
  <2>1. CASE u # t
    BY <2>1, <1>1, <1>2, <1>3 DEF EmptyNotScanned
  <2>2. work'[t].tip # 0 \/ pc'[t] # "scan"
    BY <1>1, <1>2, <1>3 DEF NoEmpty
  <2>3. CASE u = t
    BY <2>2, <2>3
  <2>. QED  BY <2>1, <2>3
<1>9. PollsOnce'
  BY <1>1, <1>2, <1>3 DEF PollsOnce
<1>. QED  BY <1>4, <1>5, <1>6, <1>7, <1>8, <1>9

LEMMA MinerRequestKeeps ==
  ASSUME IInv, NEW t \in ThreadIds, MinerRequest(t)
  PROVE  IInv'
<1>. USE DEF IInv
<1>1. UNCHANGED <<tip, delivered, accepted, g_work, due, work, reply, wpc,
                cmd, ret, failures, have_gbt, allow_mininginfo, net_blocks,
                have_longpoll, have_stratum, paths, lpc, lwork, submit_old>>
  BY DEF MinerRequest, server, shared, mvars, offers, pvars, calls, wvars
<1>2. Request(t) \in Cmds /\ Request(t).thr = t /\ Request(t).work.tip = 0
  BY NoWorkType DEF Request, Cmds
<1>3. wq' = wq \/ wq' = Append(wq, Request(t))
  BY DEF MinerRequest
<1>4. /\ wq' \in Seq(Cmds)
      /\ \A i \in DOMAIN wq' : wq'[i] = Request(t) \/ (i \in DOMAIN wq /\ wq'[i] = wq[i])
  BY <1>2, <1>3, Enqueued
<1>5. /\ pc' \in [ThreadIds -> {"lock", "await", "got", "scan", "submit", "submitted",
          "zero", "left"}]
      /\ pc'[t] # "got" /\ \A u \in ThreadIds : u # t => pc'[u] = pc[u]
      /\ pc'[t] # "scan"
  BY DEF MinerRequest, TypeOK
<1>6. g_work_lock' \in ThreadIds \cup {NoOwner}
  BY DEF MinerRequest, TypeOK
<1>7. TypeOK'
  BY <1>1, <1>2, <1>3, <1>4, <1>5, <1>6 DEF TypeOK
<1>8. Queued'
  BY <1>1, <1>2, <1>3, <1>4, <1>5, <1>6 DEF Queued
<1>9. NodeWorks'
  <2>1. ret'.tip \in Nat /\ lwork'.tip \in Nat
    BY <1>1, <1>2, <1>3, <1>4, <1>5, <1>6 DEF NodeWorks
  <2>2. \A u \in ThreadIds : \A i \in DOMAIN reply'[u] : reply'[u][i].tip \in Nat
    BY <1>1, <1>2, <1>3, <1>4, <1>5, <1>6 DEF NodeWorks
  <2>3. ~have_stratum' => g_work'.tip \in Nat /\ cmd'.work.tip \in Nat
    BY <1>1, <1>2, <1>3, <1>4, <1>5, <1>6 DEF NodeWorks
  <2>4. ~have_stratum' => \A u \in ThreadIds : work'[u].tip \in Nat
    BY <1>1, <1>2, <1>3, <1>4, <1>5, <1>6 DEF NodeWorks
  <2>5. ~have_stratum' => \A i \in DOMAIN wq' : wq'[i].work.tip \in Nat
    BY <1>1, <1>2, <1>3, <1>4, <1>5, <1>6 DEF NodeWorks
  <2>. QED  BY <2>1, <2>2, <2>3, <2>4, <2>5 DEF NodeWorks
<1>10. NoEmpty'
  BY <1>1, <1>2, <1>3, <1>4, <1>5, <1>6 DEF NoEmpty
<1>11. EmptyNotScanned'
  <2>. SUFFICES ASSUME NEW u \in ThreadIds, pc'[u] = "scan"
                PROVE  work'[u].tip # 0
    BY DEF EmptyNotScanned
  <2>1. CASE u # t
    BY <2>1, <1>1, <1>2, <1>3, <1>4, <1>5, <1>6 DEF EmptyNotScanned
  <2>2. u # t
    BY <1>1, <1>2, <1>3, <1>4, <1>5, <1>6
  <2>. QED  BY <2>1, <2>2
<1>12. PollsOnce'
  BY <1>1, <1>2, <1>3, <1>4, <1>5, <1>6 DEF PollsOnce
<1>. QED  BY <1>7, <1>8, <1>9, <1>10, <1>11, <1>12

LEMMA MinerGotKeeps ==
  ASSUME IInv, NEW t \in ThreadIds, MinerGot(t)
  PROVE  IInv'
<1>. USE DEF IInv
<1>1. UNCHANGED <<tip, delivered, accepted, g_work_lock, work, wq, wpc, cmd, ret, failures,
                have_gbt, allow_mininginfo, net_blocks, have_longpoll,
                have_stratum, paths, lpc, lwork, submit_old>>
  BY DEF MinerGot, server, shared, mvars, offers, pvars, calls, wvars
<1>2. /\ g_work' \in Works /\ Tail(reply[t]) \in Seq(Works)
      /\ \E k \in DOMAIN reply[t] : g_work' = reply[t][k]
      /\ \A i \in DOMAIN Tail(reply[t]) : \E k \in DOMAIN reply[t] : Tail(reply[t])[i] = reply[t][k]
  BY Behead DEF MinerGot, TypeOK
<1>3. reply' = [reply EXCEPT ![t] = Tail(reply[t])] /\ due' = have_stratum
  BY DEF MinerGot
<1>4. reply' \in [ThreadIds -> Seq(Works)]
  BY <1>2, <1>3 DEF TypeOK
<1>5. \A u \in ThreadIds : \A i \in DOMAIN reply'[u] : \E k \in DOMAIN reply[u] : reply'[u][i] = reply[u][k]
  BY <1>2, <1>3 DEF TypeOK
<1>6. /\ pc' \in [ThreadIds -> {"lock", "await", "got", "scan", "submit", "submitted",
          "zero", "left"}]
      /\ pc'[t] = "got" /\ \A u \in ThreadIds : u # t => pc'[u] = pc[u]
  BY DEF MinerGot, TypeOK
<1>7. work' \in [ThreadIds -> Works]
  BY <1>1 DEF TypeOK
<1>8. TypeOK'
  BY <1>1, <1>2, <1>3, <1>4, <1>5, <1>6, <1>7 DEF TypeOK
<1>9. Queued'
  BY <1>1, <1>2, <1>3, <1>4, <1>5, <1>6, <1>7 DEF Queued
<1>10. NodeWorks'
  <2>1. ret'.tip \in Nat /\ lwork'.tip \in Nat
    BY <1>1, <1>2, <1>3, <1>4, <1>5, <1>6, <1>7 DEF NodeWorks
  <2>2. \A u \in ThreadIds : \A i \in DOMAIN reply'[u] : reply'[u][i].tip \in Nat
    BY <1>1, <1>2, <1>3, <1>4, <1>5, <1>6, <1>7 DEF NodeWorks
  <2>3. ~have_stratum' => g_work'.tip \in Nat /\ cmd'.work.tip \in Nat
    BY <1>1, <1>2, <1>3, <1>4, <1>5, <1>6, <1>7 DEF NodeWorks
  <2>4. ~have_stratum' => \A u \in ThreadIds : work'[u].tip \in Nat
    BY <1>1, <1>2, <1>3, <1>4, <1>5, <1>6, <1>7 DEF NodeWorks
  <2>5. ~have_stratum' => \A i \in DOMAIN wq' : wq'[i].work.tip \in Nat
    BY <1>1, <1>2, <1>3, <1>4, <1>5, <1>6, <1>7 DEF NodeWorks
  <2>. QED  BY <2>1, <2>2, <2>3, <2>4, <2>5 DEF NodeWorks
<1>11. NoEmpty'
  BY <1>1, <1>2, <1>3, <1>4, <1>5, <1>6, <1>7 DEF NoEmpty
<1>12. EmptyNotScanned'
  <2>. SUFFICES ASSUME NEW u \in ThreadIds, pc'[u] = "scan"
                PROVE  work'[u].tip # 0
    BY DEF EmptyNotScanned
  <2>1. CASE u # t
    BY <2>1, <1>1, <1>2, <1>3, <1>4, <1>5, <1>6, <1>7 DEF EmptyNotScanned
  <2>2. u # t
    BY <1>6
  <2>. QED  BY <2>1, <2>2
<1>13. PollsOnce'
  BY <1>1, <1>2, <1>3, <1>4, <1>5, <1>6, <1>7 DEF PollsOnce
<1>. QED  BY <1>8, <1>9, <1>10, <1>11, <1>12, <1>13

LEMMA MinerGoesOnKeeps ==
  ASSUME IInv, NEW t \in ThreadIds, MinerGoesOn(t)
  PROVE  IInv'
<1>. USE DEF IInv
<1>1. UNCHANGED <<tip, delivered, accepted, g_work, due, reply, wq,
                wpc, cmd, ret, failures, have_gbt, allow_mininginfo, net_blocks,
                have_longpoll, have_stratum, paths, lpc, lwork, submit_old>>
  BY DEF MinerGoesOn, server, shared, mvars, offers, pvars, calls, wvars
<1>2. /\ work' \in [ThreadIds -> Works]
      /\ \A u \in ThreadIds : u # t => work'[u] = work[u]
      /\ pc'[t] = "scan" => ~have_stratum /\ work'[t].tip = g_work.tip
      /\ work'[t] = work[t] \/ work'[t].tip = g_work.tip
  BY AdoptOK DEF MinerGoesOn, TypeOK
<1>3. /\ pc' \in [ThreadIds -> {"lock", "await", "got", "scan", "submit", "submitted",
          "zero", "left"}]
      /\ pc'[t] # "got" /\ \A u \in ThreadIds : u # t => pc'[u] = pc[u]
      /\ pc[t] = "got" /\ g_work_lock' = NoOwner
  BY DEF MinerGoesOn, TypeOK
<1>4. TypeOK'
  BY <1>1, <1>2, <1>3 DEF TypeOK
<1>5. Queued'
  BY <1>1, <1>2, <1>3 DEF Queued
<1>6. NodeWorks'
  <2>1. ret'.tip \in Nat /\ lwork'.tip \in Nat
    BY <1>1, <1>2, <1>3 DEF NodeWorks
  <2>2. \A u \in ThreadIds : \A i \in DOMAIN reply'[u] : reply'[u][i].tip \in Nat
    BY <1>1, <1>2, <1>3 DEF NodeWorks
  <2>3. ~have_stratum' => g_work'.tip \in Nat /\ cmd'.work.tip \in Nat
    BY <1>1, <1>2, <1>3 DEF NodeWorks
  <2>4. ~have_stratum' => \A u \in ThreadIds : work'[u].tip \in Nat
    BY <1>1, <1>2, <1>3 DEF NodeWorks
  <2>5. ~have_stratum' => \A i \in DOMAIN wq' : wq'[i].work.tip \in Nat
    BY <1>1, <1>2, <1>3 DEF NodeWorks
  <2>. QED  BY <2>1, <2>2, <2>3, <2>4, <2>5 DEF NodeWorks
<1>7. NoEmpty'
  BY <1>1, <1>2, <1>3 DEF NoEmpty
<1>8. EmptyNotScanned'
  <2>. SUFFICES ASSUME NEW u \in ThreadIds, pc'[u] = "scan"
                PROVE  work'[u].tip # 0
    BY DEF EmptyNotScanned
  <2>1. CASE u # t
    BY <2>1, <1>1, <1>2, <1>3 DEF EmptyNotScanned
  <2>2. work'[t].tip # 0 \/ pc'[t] # "scan"
    BY <1>1, <1>2, <1>3 DEF NoEmpty
  <2>3. CASE u = t
    BY <2>2, <2>3
  <2>. QED  BY <2>1, <2>3
<1>9. PollsOnce'
  BY <1>1, <1>2, <1>3 DEF PollsOnce
<1>. QED  BY <1>4, <1>5, <1>6, <1>7, <1>8, <1>9

LEMMA MinerWokenKeeps ==
  ASSUME IInv, NEW t \in ThreadIds, MinerWoken(t)
  PROVE  IInv'
<1>. USE DEF IInv
<1>1. UNCHANGED <<tip, delivered, accepted, g_work, due, work, reply, wq,
                wpc, cmd, ret, failures, have_gbt, allow_mininginfo,
                net_blocks, have_longpoll, have_stratum, paths, lpc, lwork,
                submit_old>>
  BY DEF MinerWoken, server, shared, mvars, offers, pvars, calls, wvars
<1>2. /\ pc' \in [ThreadIds -> {"lock", "await", "got", "scan", "submit", "submitted",
          "zero", "left"}]
      /\ pc'[t] # "got" /\ \A u \in ThreadIds : u # t => pc'[u] = pc[u]
      /\ pc'[t] # "scan"
  BY DEF MinerWoken, TypeOK
<1>3. g_work_lock' = NoOwner
  BY DEF MinerWoken
<1>4. TypeOK'
  BY <1>1, <1>2, <1>3 DEF TypeOK
<1>5. Queued'
  BY <1>1, <1>2, <1>3 DEF Queued
<1>6. NodeWorks'
  <2>1. ret'.tip \in Nat /\ lwork'.tip \in Nat
    BY <1>1, <1>2, <1>3 DEF NodeWorks
  <2>2. \A u \in ThreadIds : \A i \in DOMAIN reply'[u] : reply'[u][i].tip \in Nat
    BY <1>1, <1>2, <1>3 DEF NodeWorks
  <2>3. ~have_stratum' => g_work'.tip \in Nat /\ cmd'.work.tip \in Nat
    BY <1>1, <1>2, <1>3 DEF NodeWorks
  <2>4. ~have_stratum' => \A u \in ThreadIds : work'[u].tip \in Nat
    BY <1>1, <1>2, <1>3 DEF NodeWorks
  <2>5. ~have_stratum' => \A i \in DOMAIN wq' : wq'[i].work.tip \in Nat
    BY <1>1, <1>2, <1>3 DEF NodeWorks
  <2>. QED  BY <2>1, <2>2, <2>3, <2>4, <2>5 DEF NodeWorks
<1>7. NoEmpty'
  BY <1>1, <1>2, <1>3 DEF NoEmpty
<1>8. EmptyNotScanned'
  <2>. SUFFICES ASSUME NEW u \in ThreadIds, pc'[u] = "scan"
                PROVE  work'[u].tip # 0
    BY DEF EmptyNotScanned
  <2>1. CASE u # t
    BY <2>1, <1>1, <1>2, <1>3 DEF EmptyNotScanned
  <2>2. u # t
    BY <1>1, <1>2, <1>3
  <2>. QED  BY <2>1, <2>2
<1>9. PollsOnce'
  BY <1>1, <1>2, <1>3 DEF PollsOnce
<1>. QED  BY <1>4, <1>5, <1>6, <1>7, <1>8, <1>9

LEMMA MinerScanEndKeeps ==
  ASSUME IInv, NEW t \in ThreadIds, MinerScanEnd(t)
  PROVE  IInv'
<1>. USE DEF IInv
<1>1. UNCHANGED <<tip, delivered, accepted, g_work, due, g_work_lock, work,
                reply, wq, wpc, cmd, ret, failures, have_gbt,
                allow_mininginfo, net_blocks, have_longpoll, have_stratum,
                paths, lpc, lwork, submit_old>>
  BY DEF MinerScanEnd, server, shared, mvars, offers, pvars, calls, wvars
<1>2. /\ pc' \in [ThreadIds -> {"lock", "await", "got", "scan", "submit", "submitted",
          "zero", "left"}]
      /\ pc'[t] # "got" /\ \A u \in ThreadIds : u # t => pc'[u] = pc[u]
      /\ pc'[t] # "scan"
  BY DEF MinerScanEnd, TypeOK
<1>3. TypeOK'
  BY <1>1, <1>2 DEF TypeOK
<1>4. Queued'
  BY <1>1, <1>2 DEF Queued
<1>5. NodeWorks'
  <2>1. ret'.tip \in Nat /\ lwork'.tip \in Nat
    BY <1>1, <1>2 DEF NodeWorks
  <2>2. \A u \in ThreadIds : \A i \in DOMAIN reply'[u] : reply'[u][i].tip \in Nat
    BY <1>1, <1>2 DEF NodeWorks
  <2>3. ~have_stratum' => g_work'.tip \in Nat /\ cmd'.work.tip \in Nat
    BY <1>1, <1>2 DEF NodeWorks
  <2>4. ~have_stratum' => \A u \in ThreadIds : work'[u].tip \in Nat
    BY <1>1, <1>2 DEF NodeWorks
  <2>5. ~have_stratum' => \A i \in DOMAIN wq' : wq'[i].work.tip \in Nat
    BY <1>1, <1>2 DEF NodeWorks
  <2>. QED  BY <2>1, <2>2, <2>3, <2>4, <2>5 DEF NodeWorks
<1>6. NoEmpty'
  BY <1>1, <1>2 DEF NoEmpty
<1>7. EmptyNotScanned'
  <2>. SUFFICES ASSUME NEW u \in ThreadIds, pc'[u] = "scan"
                PROVE  work'[u].tip # 0
    BY DEF EmptyNotScanned
  <2>1. CASE u # t
    BY <2>1, <1>1, <1>2 DEF EmptyNotScanned
  <2>2. u # t
    BY <1>1, <1>2
  <2>. QED  BY <2>1, <2>2
<1>8. PollsOnce'
  BY <1>1, <1>2 DEF PollsOnce
<1>. QED  BY <1>3, <1>4, <1>5, <1>6, <1>7, <1>8

LEMMA MinerFoundKeeps ==
  ASSUME IInv, NEW t \in ThreadIds, MinerFound(t)
  PROVE  IInv'
<1>. USE DEF IInv
<1>1. UNCHANGED <<tip, delivered, accepted, g_work, due, g_work_lock, work,
                reply, wq, wpc, cmd, ret, failures, have_gbt,
                allow_mininginfo, net_blocks, have_longpoll, have_stratum,
                paths, lpc, lwork, submit_old>>
  BY DEF MinerFound, server, shared, mvars, offers, pvars, calls, wvars
<1>2. /\ pc' \in [ThreadIds -> {"lock", "await", "got", "scan", "submit", "submitted",
          "zero", "left"}]
      /\ pc'[t] # "got" /\ \A u \in ThreadIds : u # t => pc'[u] = pc[u]
      /\ pc'[t] # "scan"
  BY DEF MinerFound, TypeOK
<1>3. TypeOK'
  BY <1>1, <1>2 DEF TypeOK
<1>4. Queued'
  BY <1>1, <1>2 DEF Queued
<1>5. NodeWorks'
  <2>1. ret'.tip \in Nat /\ lwork'.tip \in Nat
    BY <1>1, <1>2 DEF NodeWorks
  <2>2. \A u \in ThreadIds : \A i \in DOMAIN reply'[u] : reply'[u][i].tip \in Nat
    BY <1>1, <1>2 DEF NodeWorks
  <2>3. ~have_stratum' => g_work'.tip \in Nat /\ cmd'.work.tip \in Nat
    BY <1>1, <1>2 DEF NodeWorks
  <2>4. ~have_stratum' => \A u \in ThreadIds : work'[u].tip \in Nat
    BY <1>1, <1>2 DEF NodeWorks
  <2>5. ~have_stratum' => \A i \in DOMAIN wq' : wq'[i].work.tip \in Nat
    BY <1>1, <1>2 DEF NodeWorks
  <2>. QED  BY <2>1, <2>2, <2>3, <2>4, <2>5 DEF NodeWorks
<1>6. NoEmpty'
  BY <1>1, <1>2 DEF NoEmpty
<1>7. EmptyNotScanned'
  <2>. SUFFICES ASSUME NEW u \in ThreadIds, pc'[u] = "scan"
                PROVE  work'[u].tip # 0
    BY DEF EmptyNotScanned
  <2>1. CASE u # t
    BY <2>1, <1>1, <1>2 DEF EmptyNotScanned
  <2>2. u # t
    BY <1>1, <1>2
  <2>. QED  BY <2>1, <2>2
<1>8. PollsOnce'
  BY <1>1, <1>2 DEF PollsOnce
<1>. QED  BY <1>3, <1>4, <1>5, <1>6, <1>7, <1>8

LEMMA MinerSubmittedKeeps ==
  ASSUME IInv, NEW t \in ThreadIds, MinerSubmitted(t)
  PROVE  IInv'
<1>. USE DEF IInv
<1>1. UNCHANGED <<tip, delivered, accepted, g_work, due, g_work_lock, work,
                reply, wq, wpc, cmd, ret, failures, have_gbt,
                allow_mininginfo, net_blocks, have_longpoll, have_stratum,
                paths, lpc, lwork, submit_old>>
  BY DEF MinerSubmitted, server, shared, mvars, offers, pvars, calls, wvars
<1>2. /\ pc' \in [ThreadIds -> {"lock", "await", "got", "scan", "submit", "submitted",
          "zero", "left"}]
      /\ pc'[t] # "got" /\ \A u \in ThreadIds : u # t => pc'[u] = pc[u]
      /\ pc'[t] # "scan"
  BY DEF MinerSubmitted, TypeOK
<1>3. TypeOK'
  BY <1>1, <1>2 DEF TypeOK
<1>4. Queued'
  BY <1>1, <1>2 DEF Queued
<1>5. NodeWorks'
  <2>1. ret'.tip \in Nat /\ lwork'.tip \in Nat
    BY <1>1, <1>2 DEF NodeWorks
  <2>2. \A u \in ThreadIds : \A i \in DOMAIN reply'[u] : reply'[u][i].tip \in Nat
    BY <1>1, <1>2 DEF NodeWorks
  <2>3. ~have_stratum' => g_work'.tip \in Nat /\ cmd'.work.tip \in Nat
    BY <1>1, <1>2 DEF NodeWorks
  <2>4. ~have_stratum' => \A u \in ThreadIds : work'[u].tip \in Nat
    BY <1>1, <1>2 DEF NodeWorks
  <2>5. ~have_stratum' => \A i \in DOMAIN wq' : wq'[i].work.tip \in Nat
    BY <1>1, <1>2 DEF NodeWorks
  <2>. QED  BY <2>1, <2>2, <2>3, <2>4, <2>5 DEF NodeWorks
<1>6. NoEmpty'
  BY <1>1, <1>2 DEF NoEmpty
<1>7. EmptyNotScanned'
  <2>. SUFFICES ASSUME NEW u \in ThreadIds, pc'[u] = "scan"
                PROVE  work'[u].tip # 0
    BY DEF EmptyNotScanned
  <2>1. CASE u # t
    BY <2>1, <1>1, <1>2 DEF EmptyNotScanned
  <2>2. u # t
    BY <1>1, <1>2
  <2>. QED  BY <2>1, <2>2
<1>8. PollsOnce'
  BY <1>1, <1>2 DEF PollsOnce
<1>. QED  BY <1>3, <1>4, <1>5, <1>6, <1>7, <1>8

LEMMA MinerZeroKeeps ==
  ASSUME IInv, NEW t \in ThreadIds, MinerZero(t)
  PROVE  IInv'
<1>. USE DEF IInv
<1>1. UNCHANGED <<tip, delivered, accepted, g_work, g_work_lock, work,
                reply, wq, wpc, cmd, ret, failures, have_gbt,
                allow_mininginfo, net_blocks, have_longpoll, have_stratum,
                paths, lpc, lwork, submit_old>>
  BY DEF MinerZero, server, shared, mvars, offers, pvars, calls, wvars
<1>2. /\ pc' \in [ThreadIds -> {"lock", "await", "got", "scan", "submit", "submitted",
          "zero", "left"}]
      /\ pc'[t] # "got" /\ \A u \in ThreadIds : u # t => pc'[u] = pc[u]
      /\ pc'[t] # "scan"
  BY DEF MinerZero, TypeOK
<1>3. due' = TRUE
  BY DEF MinerZero
<1>4. TypeOK'
  BY <1>1, <1>2, <1>3 DEF TypeOK
<1>5. Queued'
  BY <1>1, <1>2, <1>3 DEF Queued
<1>6. NodeWorks'
  <2>1. ret'.tip \in Nat /\ lwork'.tip \in Nat
    BY <1>1, <1>2, <1>3 DEF NodeWorks
  <2>2. \A u \in ThreadIds : \A i \in DOMAIN reply'[u] : reply'[u][i].tip \in Nat
    BY <1>1, <1>2, <1>3 DEF NodeWorks
  <2>3. ~have_stratum' => g_work'.tip \in Nat /\ cmd'.work.tip \in Nat
    BY <1>1, <1>2, <1>3 DEF NodeWorks
  <2>4. ~have_stratum' => \A u \in ThreadIds : work'[u].tip \in Nat
    BY <1>1, <1>2, <1>3 DEF NodeWorks
  <2>5. ~have_stratum' => \A i \in DOMAIN wq' : wq'[i].work.tip \in Nat
    BY <1>1, <1>2, <1>3 DEF NodeWorks
  <2>. QED  BY <2>1, <2>2, <2>3, <2>4, <2>5 DEF NodeWorks
<1>7. NoEmpty'
  BY <1>1, <1>2, <1>3 DEF NoEmpty
<1>8. EmptyNotScanned'
  <2>. SUFFICES ASSUME NEW u \in ThreadIds, pc'[u] = "scan"
                PROVE  work'[u].tip # 0
    BY DEF EmptyNotScanned
  <2>1. CASE u # t
    BY <2>1, <1>1, <1>2, <1>3 DEF EmptyNotScanned
  <2>2. u # t
    BY <1>1, <1>2, <1>3
  <2>. QED  BY <2>1, <2>2
<1>9. PollsOnce'
  BY <1>1, <1>2, <1>3 DEF PollsOnce
<1>. QED  BY <1>4, <1>5, <1>6, <1>7, <1>8, <1>9

LEMMA MinerSubmitKeeps ==
  ASSUME IInv, NEW t \in ThreadIds, MinerSubmit(t)
  PROVE  IInv'
<1>. USE DEF IInv
<1>1. UNCHANGED <<tip, delivered, accepted, g_work, due, g_work_lock, work,
                reply, wpc, cmd, ret, failures, have_gbt, allow_mininginfo,
                net_blocks, have_longpoll, have_stratum, paths, lpc, lwork,
                submit_old>>
  BY DEF MinerSubmit, server, shared, mvars, offers, pvars, calls, wvars
<1>2. Submission(t) \in Cmds /\ Submission(t).thr = t /\ Submission(t).work = work[t]
  BY DEF Submission, Cmds, TypeOK
<1>3. wq' = wq \/ wq' = Append(wq, Submission(t))
  BY DEF MinerSubmit
<1>4. /\ wq' \in Seq(Cmds)
      /\ \A i \in DOMAIN wq' : wq'[i] = Submission(t) \/ (i \in DOMAIN wq /\ wq'[i] = wq[i])
  BY <1>2, <1>3, Enqueued
<1>5. /\ pc' \in [ThreadIds -> {"lock", "await", "got", "scan", "submit", "submitted",
          "zero", "left"}]
      /\ pc'[t] # "got" /\ \A u \in ThreadIds : u # t => pc'[u] = pc[u]
      /\ pc'[t] # "scan"
  BY DEF MinerSubmit, TypeOK
<1>6. TypeOK'
  BY <1>1, <1>2, <1>3, <1>4, <1>5 DEF TypeOK
<1>7. Queued'
  BY <1>1, <1>2, <1>3, <1>4, <1>5 DEF Queued
<1>8. NodeWorks'
  <2>1. ret'.tip \in Nat /\ lwork'.tip \in Nat
    BY <1>1, <1>2, <1>3, <1>4, <1>5 DEF NodeWorks
  <2>2. \A u \in ThreadIds : \A i \in DOMAIN reply'[u] : reply'[u][i].tip \in Nat
    BY <1>1, <1>2, <1>3, <1>4, <1>5 DEF NodeWorks
  <2>3. ~have_stratum' => g_work'.tip \in Nat /\ cmd'.work.tip \in Nat
    BY <1>1, <1>2, <1>3, <1>4, <1>5 DEF NodeWorks
  <2>4. ~have_stratum' => \A u \in ThreadIds : work'[u].tip \in Nat
    BY <1>1, <1>2, <1>3, <1>4, <1>5 DEF NodeWorks
  <2>5. ~have_stratum' => \A i \in DOMAIN wq' : wq'[i].work.tip \in Nat
    BY <1>1, <1>2, <1>3, <1>4, <1>5 DEF NodeWorks
  <2>. QED  BY <2>1, <2>2, <2>3, <2>4, <2>5 DEF NodeWorks
<1>9. NoEmpty'
  BY <1>1, <1>2, <1>3, <1>4, <1>5 DEF NoEmpty
<1>10. EmptyNotScanned'
  <2>. SUFFICES ASSUME NEW u \in ThreadIds, pc'[u] = "scan"
                PROVE  work'[u].tip # 0
    BY DEF EmptyNotScanned
  <2>1. CASE u # t
    BY <2>1, <1>1, <1>2, <1>3, <1>4, <1>5 DEF EmptyNotScanned
  <2>2. u # t
    BY <1>1, <1>2, <1>3, <1>4, <1>5
  <2>. QED  BY <2>1, <2>2
<1>11. PollsOnce'
  BY <1>1, <1>2, <1>3, <1>4, <1>5 DEF PollsOnce
<1>. QED  BY <1>6, <1>7, <1>8, <1>9, <1>10, <1>11

-----------------------------------------------------------------------------
(* The steps of the workio thread                                          *)

(* The command at hand, and what is fetched for it.                        *)
AtHand ==
  /\ cmd \in Cmds /\ ret \in Works /\ failures \in Nat
  /\ wpc \in {"pop", "fetch", "info", "badinfo", "bad", "answer", "check",
              "submitinfo", "solved", "send", "freeze", "end"}
  /\ wpc \notin {"pop", "freeze", "end"} => cmd.thr \in ThreadIds
  /\ ret.tip \in Nat
  /\ ~have_stratum =>
       cmd.work.tip \in Nat /\ (wpc \in {"info", "answer"} => ret.tip # 0)

(* What any call may do to long polling and the switch.                    *)
OffersStep ==
  /\ have_longpoll' \in BOOLEAN /\ have_stratum' \in BOOLEAN /\ paths' \in Nat
  /\ have_stratum => have_stratum'
  /\ \/ UNCHANGED <<have_longpoll, paths>>
     \/ /\ ~have_longpoll /\ have_longpoll'
        /\ paths' = IF lpc # "end" THEN paths + 1 ELSE paths

(* An answer is what was fetched, a command was taken from the head.       *)
RepliesStep ==
  /\ reply' \in [ThreadIds -> Seq(Works)]
  /\ \A t \in ThreadIds : \A i \in DOMAIN reply'[t] :
       \/ i \in DOMAIN reply[t] /\ reply'[t][i] = reply[t][i]
       \/ reply'[t][i] = ret /\ wpc = "answer"
QueueStep ==
  /\ wq' \in Seq(Cmds)
  /\ \A i \in DOMAIN wq' : \E k \in DOMAIN wq : wq'[i] = wq[k]

ChainStep ==
  /\ tip' \in Nat /\ tip' # 0
  /\ accepted' \subseteq Nat /\ delivered' \subseteq ThreadIds \X Nat

(* The flags that say what is called, and the last chain length known.     *)
Methods == have_gbt \in BOOLEAN /\ allow_mininginfo \in BOOLEAN /\ net_blocks \in Nat

LEMMA StartsAtHand == IInv => AtHand /\ Methods
<1>. SUFFICES ASSUME IInv PROVE AtHand /\ Methods
  OBVIOUS
<1>1. TypeOK /\ Queued /\ NodeWorks /\ NoEmpty
  BY DEF IInv
<1>2. cmd \in Cmds /\ ret \in Works /\ failures \in Nat /\ Methods
  BY <1>1 DEF TypeOK, Methods
<1>3. wpc \in {"pop", "fetch", "info", "badinfo", "bad", "answer", "check",
              "submitinfo", "solved", "send", "freeze", "end"}
  BY <1>1 DEF TypeOK
<1>4. wpc \notin {"pop", "freeze", "end"} => cmd.thr \in ThreadIds
  BY <1>1 DEF Queued
<1>5. ret.tip \in Nat /\ (~have_stratum => cmd.work.tip \in Nat)
  BY <1>1 DEF NodeWorks
<1>6. ~have_stratum => (wpc \in {"info", "answer"} => ret.tip # 0)
  BY <1>1 DEF NoEmpty
<1>. QED  BY <1>2, <1>3, <1>4, <1>5, <1>6 DEF AtHand

(* A step that keeps all of that keeps the invariant.                      *)
LEMMA CallStep ==
  ASSUME IInv, UNCHANGED <<shared, mvars, pvars>>,
         AtHand', Methods', OffersStep, RepliesStep, QueueStep, ChainStep
  PROVE  IInv'
<1>1. TypeOK /\ Queued /\ NodeWorks /\ NoEmpty /\ EmptyNotScanned /\ PollsOnce
  BY DEF IInv
<1>2. UNCHANGED <<g_work, due, g_work_lock, pc, work, lpc, lwork, submit_old>>
  BY DEF shared, mvars, pvars
<1>3. ~have_stratum' => ~have_stratum
  BY DEF OffersStep
<1>4. TypeOK'
  BY <1>1, <1>2 DEF TypeOK, AtHand, Methods, OffersStep, RepliesStep, QueueStep, ChainStep
<1>5. Queued'
  BY <1>1 DEF Queued, QueueStep, AtHand
<1>6. \A t \in ThreadIds : \A i \in DOMAIN reply'[t] : reply'[t][i].tip \in Nat
  BY <1>1 DEF NodeWorks, RepliesStep
<1>7. ~have_stratum' => \A i \in DOMAIN wq' : wq'[i].work.tip \in Nat
  BY <1>1, <1>3 DEF NodeWorks, QueueStep
<1>8. ~have_stratum' => g_work'.tip \in Nat /\ \A t \in ThreadIds : work'[t].tip \in Nat
  BY <1>1, <1>2, <1>3 DEF NodeWorks
<1>9. ret'.tip \in Nat /\ lwork'.tip \in Nat /\ (~have_stratum' => cmd'.work.tip \in Nat)
  BY <1>1, <1>2 DEF NodeWorks, AtHand
<1>10. NodeWorks'
  BY <1>6, <1>7, <1>8, <1>9 DEF NodeWorks
<1>11. ~have_stratum' =>
         \A t \in ThreadIds : \A i \in DOMAIN reply'[t] : reply'[t][i].tip # 0
  BY <1>1, <1>3 DEF NoEmpty, RepliesStep
<1>12. ~have_stratum' => (wpc' \in {"info", "answer"} => ret'.tip # 0)
  BY DEF AtHand
<1>13. NoEmpty'
  BY <1>1, <1>2, <1>3, <1>11, <1>12 DEF NoEmpty, ChainStep
<1>14. EmptyNotScanned'
  BY <1>1, <1>2 DEF EmptyNotScanned
<1>15. PollsOnce'
  <2>1. paths \in Nat
    BY <1>1 DEF TypeOK
  <2>2. SUFFICES ASSUME lpc # "end"
                 PROVE  paths' + (IF lpc = "pop" THEN 0 ELSE 1) = IF have_longpoll' THEN 1 ELSE 0
    BY <1>2 DEF PollsOnce
  <2>3. paths + (IF lpc = "pop" THEN 0 ELSE 1) = IF have_longpoll THEN 1 ELSE 0
    BY <1>1, <2>2 DEF PollsOnce
  <2>4. CASE UNCHANGED <<have_longpoll, paths>>
    BY <2>3, <2>4
  <2>5. CASE ~have_longpoll /\ have_longpoll' /\ paths' = paths + 1
    BY <2>1, <2>3, <2>5
  <2>. QED  BY <2>2, <2>4, <2>5 DEF OffersStep
<1>. QED  BY <1>4, <1>5, <1>10, <1>13, <1>14, <1>15 DEF IInv

LEMMA HeightSet ==
  ASSUME NEW w \in Works, NEW h \in Nat
  PROVE  [w EXCEPT !.height = h + 1] \in Works /\ [w EXCEPT !.height = h + 1].tip = w.tip
BY DEF Works

LEMMA EncodedOK ==
  ASSUME NEW w \in Works
  PROVE  Encoded(w) \in Works /\ Encoded(w).tip = w.tip
<1>1. (IF w.gbt THEN ~w.swapped ELSE w.swapped) \in BOOLEAN
  BY Zenon DEF Works
<1>. QED  BY <1>1 DEF Encoded, Works

LEMMA AfterInfoOK ==
  ASSUME wpc \in DOMAIN AfterInfo
  PROVE  /\ wpc \in {"info", "badinfo", "submitinfo"}
         /\ AfterInfo[wpc] \in {"answer", "bad", "solved"}
         /\ AfterInfo[wpc] = "answer" => wpc = "info"
BY DEF AfterInfo

LEMMA DoneAtHand == CmdDone => AtHand'
BY NoWorkType, NoCmdType DEF CmdDone, AtHand

LEMMA DeliverOK ==
  ASSUME IInv, wpc = "send", ~have_stratum, Deliver
  PROVE  ChainStep
<1>1. cmd.thr \in ThreadIds /\ cmd.work.tip \in Nat
  BY DEF IInv, Queued, NodeWorks
<1>2. tip \in Nat /\ tip # 0 /\ accepted \subseteq Nat /\ delivered \subseteq ThreadIds \X Nat
  BY DEF IInv, TypeOK, NoEmpty
<1>3. delivered' = delivered \cup {<<cmd.thr, cmd.work.tip>>}
  BY DEF Deliver
<1>4. delivered' \subseteq ThreadIds \X Nat
  BY <1>1, <1>2, <1>3
<1>5. accepted' \subseteq Nat
  BY <1>1, <1>2 DEF Deliver
<1>6. tip' \in Nat /\ tip' # 0
  BY <1>2 DEF Deliver
<1>. QED  BY <1>4, <1>5, <1>6 DEF ChainStep

(* What a step leaves alone.                                               *)
LEMMA KeptOffers == ASSUME TypeOK, UNCHANGED offers PROVE OffersStep
BY DEF TypeOK, offers, OffersStep

LEMMA KeptReplies == ASSUME TypeOK, UNCHANGED reply PROVE RepliesStep
BY DEF TypeOK, RepliesStep

LEMMA KeptQueue == ASSUME TypeOK, UNCHANGED wq PROVE QueueStep
BY DEF TypeOK, QueueStep

LEMMA KeptChain == ASSUME IInv, UNCHANGED server PROVE ChainStep
BY DEF IInv, TypeOK, NoEmpty, server, ChainStep

LEMMA AnyOffers == ASSUME TypeOK, NEW template \in BOOLEAN, Offered(template) PROVE OffersStep
BY OfferedOK DEF OffersStep

LEMMA WioPopKeeps ==
  ASSUME IInv, WioPop
  PROVE  IInv'
<1>1. TypeOK /\ AtHand /\ Methods
  BY StartsAtHand DEF IInv
<1>2. UNCHANGED <<shared, mvars, pvars>>
  BY DEF WioPop
<1>3. OffersStep
  BY <1>1, KeptOffers DEF WioPop
<1>4. RepliesStep
  BY <1>1, KeptReplies DEF WioPop
<1>5. ChainStep
  BY KeptChain DEF WioPop
<1>6. Methods'
  BY <1>1 DEF WioPop, Methods
<1>7. /\ Head(wq) \in Cmds /\ Tail(wq) \in Seq(Cmds)
      /\ \E k \in DOMAIN wq : Head(wq) = wq[k]
      /\ \A i \in DOMAIN Tail(wq) : \E k \in DOMAIN wq : Tail(wq)[i] = wq[k]
  BY <1>1, Behead DEF TypeOK, WioPop
<1>8. QueueStep
  BY <1>7 DEF QueueStep, WioPop
<1>9. Head(wq).thr \in ThreadIds /\ (~have_stratum => Head(wq).work.tip \in Nat)
  BY <1>7 DEF IInv, Queued, NodeWorks
<1>10. AtHand'
  BY <1>1, <1>7, <1>9 DEF AtHand, WioPop, offers
<1>. QED  BY CallStep, <1>2, <1>3, <1>4, <1>5, <1>6, <1>8, <1>10

LEMMA WioWokenKeeps ==
  ASSUME IInv, WioWoken
  PROVE  IInv'
<1>1. TypeOK /\ AtHand /\ Methods
  BY StartsAtHand DEF IInv
<1>2. UNCHANGED <<shared, mvars, pvars>>
  BY DEF WioWoken
<1>3. OffersStep
  BY <1>1, KeptOffers DEF WioWoken
<1>4. RepliesStep
  BY <1>1, KeptReplies DEF WioWoken
<1>5. QueueStep
  BY <1>1, KeptQueue DEF WioWoken
<1>6. ChainStep
  BY KeptChain DEF WioWoken
<1>7. Methods'
  BY <1>1 DEF WioWoken, Methods
<1>8. AtHand'
  BY <1>1 DEF AtHand, WioWoken, offers
<1>. QED  BY CallStep, <1>2, <1>3, <1>4, <1>5, <1>6, <1>7, <1>8

LEMMA WioFreezeKeeps ==
  ASSUME IInv, WioFreeze
  PROVE  IInv'
<1>1. TypeOK /\ AtHand /\ Methods
  BY StartsAtHand DEF IInv
<1>2. UNCHANGED <<shared, mvars, pvars>>
  BY DEF WioFreeze
<1>3. OffersStep
  BY <1>1, KeptOffers DEF WioFreeze
<1>4. RepliesStep
  BY <1>1, KeptReplies DEF WioFreeze
<1>5. QueueStep
  BY <1>1, KeptQueue DEF WioFreeze
<1>6. ChainStep
  BY KeptChain DEF WioFreeze
<1>7. Methods'
  BY <1>1 DEF WioFreeze, Methods
<1>8. AtHand'
  BY <1>1, NoWorkType, NoCmdType DEF AtHand, WioFreeze, offers
<1>. QED  BY CallStep, <1>2, <1>3, <1>4, <1>5, <1>6, <1>7, <1>8

LEMMA WioFetchKeeps ==
  ASSUME IInv, WioFetch
  PROVE  IInv'
<1>1. TypeOK /\ AtHand /\ Methods
  BY StartsAtHand DEF IInv
<1>2. UNCHANGED <<shared, mvars, pvars>>
  BY DEF WioFetch
<1>3. OffersStep
  BY <1>1, AnyOffers DEF WioFetch, Methods
<1>4. RepliesStep
  BY <1>1, KeptReplies DEF WioFetch
<1>5. QueueStep
  BY <1>1, KeptQueue DEF WioFetch
<1>6. ChainStep
  BY KeptChain DEF WioFetch
<1>7. Methods'
  BY <1>1 DEF WioFetch, Methods
<1>8. ret' \in Works /\ ret'.tip = tip /\ tip \in Nat /\ tip # 0
  BY <1>1, DecodedOK DEF AtHand, Methods, WioFetch, IInv, TypeOK, NoEmpty
<1>9. AtHand'
  BY <1>1, <1>3, <1>8 DEF AtHand, OffersStep, WioFetch
<1>. QED  BY CallStep, <1>2, <1>3, <1>4, <1>5, <1>6, <1>7, <1>9

LEMMA WioFetchSwitchedKeeps ==
  ASSUME IInv, WioFetchSwitched
  PROVE  IInv'
<1>1. TypeOK /\ AtHand /\ Methods
  BY StartsAtHand DEF IInv
<1>2. UNCHANGED <<shared, mvars, pvars>>
  BY DEF WioFetchSwitched
<1>3. OffersStep
  BY <1>1, AnyOffers DEF WioFetchSwitched, Methods
<1>4. RepliesStep
  BY <1>1, KeptReplies DEF WioFetchSwitched
<1>5. QueueStep
  BY <1>1, KeptQueue DEF WioFetchSwitched
<1>6. ChainStep
  BY KeptChain DEF WioFetchSwitched
<1>7. Methods'
  BY <1>1 DEF WioFetchSwitched, Methods
<1>8. AtHand'
  BY <1>1, <1>3 DEF AtHand, OffersStep, WioFetchSwitched
<1>. QED  BY CallStep, <1>2, <1>3, <1>4, <1>5, <1>6, <1>7, <1>8

LEMMA WioFetchFailedKeeps ==
  ASSUME IInv, WioFetchFailed
  PROVE  IInv'
<1>1. TypeOK /\ AtHand /\ Methods
  BY StartsAtHand DEF IInv
<1>2. UNCHANGED <<shared, mvars, pvars>>
  BY DEF WioFetchFailed
<1>3. OffersStep
  BY <1>1, AnyOffers DEF WioFetchFailed, Methods
<1>4. RepliesStep
  BY <1>1, KeptReplies DEF WioFetchFailed
<1>5. QueueStep
  BY <1>1, KeptQueue DEF WioFetchFailed
<1>6. ChainStep
  BY KeptChain DEF WioFetchFailed
<1>7. Methods'
  BY <1>1 DEF WioFetchFailed, Methods
<1>8. wpc' \in {"fetch", "freeze"} /\ failures' \in Nat
  BY <1>1, RetryOK DEF WioFetchFailed
<1>9. AtHand'
  BY <1>1, <1>3, <1>8 DEF AtHand, OffersStep, WioFetchFailed
<1>. QED  BY CallStep, <1>2, <1>3, <1>4, <1>5, <1>6, <1>7, <1>9

LEMMA WioFallBackKeeps ==
  ASSUME IInv, WioFallBack
  PROVE  IInv'
<1>1. TypeOK /\ AtHand /\ Methods
  BY StartsAtHand DEF IInv
<1>2. UNCHANGED <<shared, mvars, pvars>>
  BY DEF WioFallBack
<1>3. OffersStep
  BY <1>1, AnyOffers DEF WioFallBack, Methods
<1>4. RepliesStep
  BY <1>1, KeptReplies DEF WioFallBack
<1>5. QueueStep
  BY <1>1, KeptQueue DEF WioFallBack
<1>6. ChainStep
  BY KeptChain DEF WioFallBack
<1>7. Methods'
  BY <1>1 DEF WioFallBack, Methods
<1>8. AtHand'
  BY <1>1, <1>3 DEF AtHand, OffersStep, WioFallBack
<1>. QED  BY CallStep, <1>2, <1>3, <1>4, <1>5, <1>6, <1>7, <1>8

LEMMA WioRefuseKeeps ==
  ASSUME IInv, WioRefuse
  PROVE  IInv'
<1>1. TypeOK /\ AtHand /\ Methods
  BY StartsAtHand DEF IInv
<1>2. UNCHANGED <<shared, mvars, pvars>>
  BY DEF WioRefuse
<1>3. OffersStep
  BY <1>1, AnyOffers DEF WioRefuse, Methods
<1>4. RepliesStep
  BY <1>1, KeptReplies DEF WioRefuse
<1>5. QueueStep
  BY <1>1, KeptQueue DEF WioRefuse
<1>6. ChainStep
  BY KeptChain DEF WioRefuse
<1>7. Methods'
  BY <1>1 DEF WioRefuse, Methods
<1>8. ret' \in Works /\ ret'.tip = ret.tip
  BY <1>1, HeightSet DEF AtHand, WioRefuse, IInv, TypeOK
<1>9. AtHand'
  BY <1>1, <1>3, <1>8 DEF AtHand, OffersStep, WioRefuse
<1>. QED  BY CallStep, <1>2, <1>3, <1>4, <1>5, <1>6, <1>7, <1>9

LEMMA WioUndecodableKeeps ==
  ASSUME IInv, WioUndecodable
  PROVE  IInv'
<1>1. TypeOK /\ AtHand /\ Methods
  BY StartsAtHand DEF IInv
<1>2. UNCHANGED <<shared, mvars, pvars>>
  BY DEF WioUndecodable
<1>3. OffersStep
  BY <1>1, AnyOffers DEF WioUndecodable, Methods
<1>4. RepliesStep
  BY <1>1, KeptReplies DEF WioUndecodable
<1>5. QueueStep
  BY <1>1, KeptQueue DEF WioUndecodable
<1>6. ChainStep
  BY KeptChain DEF WioUndecodable
<1>7. Methods'
  BY <1>1 DEF WioUndecodable, Methods
<1>8. ret' \in Works /\ ret'.tip = ret.tip
  BY <1>1, HalvesOK DEF AtHand, Methods, WioUndecodable, IInv, TypeOK
<1>9. AtHand'
  BY <1>1, <1>3, <1>8 DEF AtHand, OffersStep, WioUndecodable
<1>. QED  BY CallStep, <1>2, <1>3, <1>4, <1>5, <1>6, <1>7, <1>9

LEMMA WioUndecodedKeeps ==
  ASSUME IInv, WioUndecoded
  PROVE  IInv'
<1>1. TypeOK /\ AtHand /\ Methods
  BY StartsAtHand DEF IInv
<1>2. UNCHANGED <<shared, mvars, pvars>>
  BY DEF WioUndecoded
<1>3. OffersStep
  BY <1>1, KeptOffers DEF WioUndecoded
<1>4. RepliesStep
  BY <1>1, KeptReplies DEF WioUndecoded
<1>5. QueueStep
  BY <1>1, KeptQueue DEF WioUndecoded
<1>6. ChainStep
  BY KeptChain DEF WioUndecoded
<1>7. Methods'
  BY <1>1 DEF WioUndecoded, Methods
<1>8. wpc' \in {"fetch", "freeze"} /\ failures' \in Nat
  BY <1>1, RetryOK DEF WioUndecoded
<1>9. AtHand'
  BY <1>1, <1>3, <1>8 DEF AtHand, OffersStep, WioUndecoded, offers
<1>. QED  BY CallStep, <1>2, <1>3, <1>4, <1>5, <1>6, <1>7, <1>9

(* The work fetched is put on the queue of the thread that asked. *)
LEMMA AnswerOK ==
  ASSUME IInv, WioAnswer
  PROVE  RepliesStep
<1>1. cmd.thr \in ThreadIds /\ ret \in Works /\ reply \in [ThreadIds -> Seq(Works)]
  BY DEF IInv, Queued, TypeOK, WioAnswer
<1>2. CASE reply' = reply
  BY <1>1, <1>2 DEF RepliesStep
<1>3. CASE reply' = [reply EXCEPT ![cmd.thr] = Append(@, ret)]
  <2>1. reply[cmd.thr] \in Seq(Works)
    BY <1>1
  <2>2. /\ Append(reply[cmd.thr], ret) \in Seq(Works)
        /\ \A i \in DOMAIN Append(reply[cmd.thr], ret) :
             \/ Append(reply[cmd.thr], ret)[i] = ret
             \/ i \in DOMAIN reply[cmd.thr]
                  /\ Append(reply[cmd.thr], ret)[i] = reply[cmd.thr][i]
    BY <1>1, <2>1, Appended
  <2>3. reply' \in [ThreadIds -> Seq(Works)]
    BY <1>1, <1>3, <2>2
  <2>4. ASSUME NEW t \in ThreadIds, NEW i \in DOMAIN reply'[t]
        PROVE  \/ i \in DOMAIN reply[t] /\ reply'[t][i] = reply[t][i]
               \/ reply'[t][i] = ret
    <3>1. CASE t = cmd.thr
      BY <1>1, <1>3, <2>2, <2>4, <3>1
    <3>2. CASE t # cmd.thr
      BY <1>1, <1>3, <2>4, <3>2
    <3>. QED  BY <3>1, <3>2
  <2>. QED  BY <2>3, <2>4 DEF RepliesStep, WioAnswer
<1>. QED  BY <1>2, <1>3 DEF WioAnswer

LEMMA WioInfoKeeps ==
  ASSUME IInv, WioInfo
  PROVE  IInv'
<1>1. TypeOK /\ AtHand /\ Methods
  BY StartsAtHand DEF IInv
<1>2. UNCHANGED <<shared, mvars, pvars>>
  BY DEF WioInfo
<1>3. OffersStep
  BY <1>1, AnyOffers DEF WioInfo, Methods
<1>4. RepliesStep
  BY <1>1, KeptReplies DEF WioInfo
<1>5. QueueStep
  BY <1>1, KeptQueue DEF WioInfo
<1>6. ChainStep
  BY KeptChain DEF WioInfo
<1>7. Methods'
  BY <1>1 DEF WioInfo, Methods, TypeOK
<1>8. wpc' \in {"answer", "bad", "solved"} /\ wpc \in {"info", "badinfo", "submitinfo"}
      /\ (wpc' = "answer" => wpc = "info")
  BY AfterInfoOK DEF WioInfo
<1>9. ret' \in Works /\ ret'.tip = ret.tip
  BY <1>1, HeightSet DEF AtHand, TypeOK, WioInfo
<1>10. AtHand'
  BY <1>1, <1>3, <1>8, <1>9 DEF AtHand, OffersStep, WioInfo
<1>. QED  BY CallStep, <1>2, <1>3, <1>4, <1>5, <1>6, <1>7, <1>10

LEMMA WioInfoFailedKeeps ==
  ASSUME IInv, WioInfoFailed
  PROVE  IInv'
<1>1. TypeOK /\ AtHand /\ Methods
  BY StartsAtHand DEF IInv
<1>2. UNCHANGED <<shared, mvars, pvars>>
  BY DEF WioInfoFailed
<1>3. OffersStep
  BY <1>1, AnyOffers DEF WioInfoFailed, Methods
<1>4. RepliesStep
  BY <1>1, KeptReplies DEF WioInfoFailed
<1>5. QueueStep
  BY <1>1, KeptQueue DEF WioInfoFailed
<1>6. ChainStep
  BY KeptChain DEF WioInfoFailed
<1>7. Methods'
  BY <1>1 DEF WioInfoFailed, Methods
<1>8. wpc' \in {"answer", "bad", "solved"} /\ wpc \in {"info", "badinfo", "submitinfo"}
      /\ (wpc' = "answer" => wpc = "info")
  BY AfterInfoOK DEF WioInfoFailed
<1>9. AtHand'
  BY <1>1, <1>3, <1>8 DEF AtHand, OffersStep, WioInfoFailed
<1>. QED  BY CallStep, <1>2, <1>3, <1>4, <1>5, <1>6, <1>7, <1>9

LEMMA WioNoInfoKeeps ==
  ASSUME IInv, WioNoInfo
  PROVE  IInv'
<1>1. TypeOK /\ AtHand /\ Methods
  BY StartsAtHand DEF IInv
<1>2. UNCHANGED <<shared, mvars, pvars>>
  BY DEF WioNoInfo
<1>3. OffersStep
  BY <1>1, KeptOffers DEF WioNoInfo
<1>4. RepliesStep
  BY <1>1, KeptReplies DEF WioNoInfo
<1>5. QueueStep
  BY <1>1, KeptQueue DEF WioNoInfo
<1>6. ChainStep
  BY KeptChain DEF WioNoInfo
<1>7. Methods'
  BY <1>1 DEF WioNoInfo, Methods
<1>8. wpc' \in {"answer", "bad", "solved"} /\ wpc \in {"info", "badinfo", "submitinfo"}
      /\ (wpc' = "answer" => wpc = "info")
  BY AfterInfoOK DEF WioNoInfo
<1>9. AtHand'
  BY <1>1, <1>8 DEF AtHand, offers, WioNoInfo
<1>. QED  BY CallStep, <1>2, <1>3, <1>4, <1>5, <1>6, <1>7, <1>9

LEMMA WioAnswerKeeps ==
  ASSUME IInv, WioAnswer
  PROVE  IInv'
<1>1. TypeOK /\ AtHand /\ Methods
  BY StartsAtHand DEF IInv
<1>2. UNCHANGED <<shared, mvars, pvars>>
  BY DEF WioAnswer
<1>3. OffersStep
  BY <1>1, KeptOffers DEF WioAnswer
<1>4. QueueStep
  BY <1>1, KeptQueue DEF WioAnswer
<1>5. ChainStep
  BY KeptChain DEF WioAnswer
<1>6. Methods'
  BY <1>1 DEF WioAnswer, Methods
<1>7. RepliesStep
  BY AnswerOK
<1>8. AtHand'
  BY DoneAtHand DEF WioAnswer
<1>. QED  BY CallStep, <1>2, <1>3, <1>4, <1>5, <1>6, <1>7, <1>8

LEMMA WioCheckKeeps ==
  ASSUME IInv, WioCheck
  PROVE  IInv'
<1>1. TypeOK /\ AtHand /\ Methods
  BY StartsAtHand DEF IInv
<1>2. UNCHANGED <<shared, mvars, pvars>>
  BY DEF WioCheck
<1>3. OffersStep
  BY <1>1, KeptOffers DEF WioCheck
<1>4. RepliesStep
  BY <1>1, KeptReplies DEF WioCheck
<1>5. QueueStep
  BY <1>1, KeptQueue DEF WioCheck
<1>6. ChainStep
  BY KeptChain DEF WioCheck
<1>7. Methods'
  BY <1>1 DEF WioCheck, Methods
<1>8. AtHand'
  BY <1>1, DoneAtHand DEF AtHand, CmdGoesOn, offers, WioCheck
<1>. QED  BY CallStep, <1>2, <1>3, <1>4, <1>5, <1>6, <1>7, <1>8

LEMMA WioSolvedKeeps ==
  ASSUME IInv, WioSolved
  PROVE  IInv'
<1>1. TypeOK /\ AtHand /\ Methods
  BY StartsAtHand DEF IInv
<1>2. UNCHANGED <<shared, mvars, pvars>>
  BY DEF WioSolved
<1>3. OffersStep
  BY <1>1, KeptOffers DEF WioSolved
<1>4. RepliesStep
  BY <1>1, KeptReplies DEF WioSolved
<1>5. QueueStep
  BY <1>1, KeptQueue DEF WioSolved
<1>6. ChainStep
  BY KeptChain DEF WioSolved
<1>7. Methods'
  BY <1>1 DEF WioSolved, Methods
<1>8. AtHand'
  BY <1>1, DoneAtHand DEF AtHand, CmdGoesOn, offers, WioSolved
<1>. QED  BY CallStep, <1>2, <1>3, <1>4, <1>5, <1>6, <1>7, <1>8

LEMMA WioSendKeeps ==
  ASSUME IInv, WioSend
  PROVE  IInv'
<1>1. TypeOK /\ AtHand /\ Methods
  BY StartsAtHand DEF IInv
<1>2. UNCHANGED <<shared, mvars, pvars>>
  BY DEF WioSend
<1>3. OffersStep
  BY <1>1, AnyOffers DEF WioSend, Methods
<1>4. RepliesStep
  BY <1>1, KeptReplies DEF WioSend
<1>5. QueueStep
  BY <1>1, KeptQueue DEF WioSend
<1>6. ChainStep
  BY DeliverOK DEF WioSend
<1>7. Methods'
  BY <1>1 DEF WioSend, Methods
<1>8. AtHand'
  BY DoneAtHand DEF WioSend
<1>. QED  BY CallStep, <1>2, <1>3, <1>4, <1>5, <1>6, <1>7, <1>8

LEMMA WioSendFailedKeeps ==
  ASSUME IInv, WioSendFailed
  PROVE  IInv'
<1>1. TypeOK /\ AtHand /\ Methods
  BY StartsAtHand DEF IInv
<1>2. UNCHANGED <<shared, mvars, pvars>>
  BY DEF WioSendFailed
<1>3. OffersStep
  BY <1>1, AnyOffers, KeptOffers DEF WioSendFailed
<1>4. RepliesStep
  BY <1>1, KeptReplies DEF WioSendFailed
<1>5. QueueStep
  BY <1>1, KeptQueue DEF WioSendFailed
<1>6. ChainStep
  BY DeliverOK, KeptChain DEF WioSendFailed
<1>7. Methods'
  BY <1>1 DEF WioSendFailed, Methods
<1>8. cmd' \in Cmds /\ cmd'.thr = cmd.thr /\ cmd'.work.tip = cmd.work.tip
  BY <1>1, EncodedOK DEF AtHand, Cmds, WioSendFailed
<1>9. wpc' \in {"check", "freeze"} /\ failures' \in Nat /\ wpc = "send"
  BY <1>1, RetryOK DEF WioSendFailed
<1>10. AtHand'
  BY <1>1, <1>3, <1>8, <1>9 DEF AtHand, OffersStep, WioSendFailed
<1>. QED  BY CallStep, <1>2, <1>3, <1>4, <1>5, <1>6, <1>7, <1>10

LEMMA WioShareKeeps ==
  ASSUME IInv, WioShare
  PROVE  IInv'
<1>1. TypeOK /\ AtHand /\ Methods
  BY StartsAtHand DEF IInv
<1>2. UNCHANGED <<shared, mvars, pvars>>
  BY DEF WioShare
<1>3. OffersStep
  BY <1>1, KeptOffers DEF WioShare
<1>4. RepliesStep
  BY <1>1, KeptReplies DEF WioShare
<1>5. QueueStep
  BY <1>1, KeptQueue DEF WioShare
<1>6. ChainStep
  BY KeptChain DEF WioShare
<1>7. Methods'
  BY <1>1 DEF WioShare, Methods
<1>8. CmdDone \/ (wpc' \in {"check",
          "freeze"} /\ failures' \in Nat /\ wpc = "send" /\ UNCHANGED <<cmd, ret>>)
  BY <1>1, RetryOK DEF WioShare
<1>9. AtHand'
  BY <1>1, <1>8, DoneAtHand DEF AtHand, offers, WioShare
<1>. QED  BY CallStep, <1>2, <1>3, <1>4, <1>5, <1>6, <1>7, <1>9

LEMMA WorkioKeeps == IInv /\ Workio => IInv'
BY WioPopKeeps, WioWokenKeeps, WioFreezeKeeps, WioFetchKeeps, WioFetchFailedKeeps,
   WioFallBackKeeps, WioRefuseKeeps, WioUndecodableKeeps, WioUndecodedKeeps, WioInfoKeeps,
   WioInfoFailedKeeps, WioFetchSwitchedKeeps, WioNoInfoKeeps, WioAnswerKeeps, WioCheckKeeps,
   WioSolvedKeeps, WioSendKeeps, WioSendFailedKeeps, WioShareKeeps
   DEF Workio

-----------------------------------------------------------------------------
(* The steps of the long-polling thread, and of others                     *)

(* What the long-polling thread may change, and how.                       *)
PollerStep ==
  /\ lwork' \in Works /\ lwork'.tip \in Nat /\ submit_old' \in BOOLEAN
  /\ lpc' \in {"pop", "ask", "call", "answer", "late", "failed", "stop", "end"}
  /\ lpc' = "answer" => lwork'.tip # 0
  /\ have_gbt' \in BOOLEAN

SharedStep ==
  /\ g_work' \in Works /\ due' \in BOOLEAN
  /\ ~have_stratum' => g_work'.tip \in Nat /\ (~due' \/ g_work.tip # 0 => g_work'.tip # 0)

SwitchStep ==
  /\ have_longpoll' \in BOOLEAN /\ have_stratum' \in BOOLEAN /\ paths' \in Nat
  /\ have_stratum => have_stratum'

Elsewhere == <<server, g_work_lock, mvars, reply, wq, wpc, cmd, ret, failures,
               allow_mininginfo, net_blocks>>

LEMMA PollStep ==
  ASSUME IInv, UNCHANGED Elsewhere, PollerStep, SharedStep, SwitchStep, PollsOnce'
  PROVE  IInv'
<1>1. TypeOK /\ Queued /\ NodeWorks /\ NoEmpty /\ EmptyNotScanned
  BY DEF IInv
<1>2. UNCHANGED <<tip, delivered, accepted, g_work_lock, pc, work, reply, wq, wpc, cmd,
                  ret, failures, allow_mininginfo, net_blocks>>
  BY DEF Elsewhere, server, mvars
<1>3. ~have_stratum' => ~have_stratum
  BY DEF SwitchStep
<1>4. TypeOK'
  BY <1>1, <1>2 DEF TypeOK, PollerStep, SharedStep, SwitchStep
<1>5. Queued'
  BY <1>1, <1>2 DEF Queued
<1>6. NodeWorks'
  BY <1>1, <1>2, <1>3 DEF NodeWorks, PollerStep, SharedStep
<1>7. NoEmpty'
  BY <1>1, <1>2, <1>3 DEF NoEmpty, PollerStep, SharedStep
<1>8. EmptyNotScanned'
  BY <1>1, <1>2 DEF EmptyNotScanned
<1>. QED  BY <1>4, <1>5, <1>6, <1>7, <1>8 DEF IInv

LEMMA KeptShared ==
  ASSUME IInv, UNCHANGED <<g_work, due>>, have_stratum => have_stratum'
  PROVE  SharedStep
BY DEF IInv, TypeOK, NodeWorks, NoEmpty, SharedStep

LEMMA DueShared ==
  ASSUME IInv, UNCHANGED g_work, due' = TRUE, have_stratum => have_stratum'
  PROVE  SharedStep
BY DEF IInv, TypeOK, NodeWorks, SharedStep

LEMMA KeptSwitch == ASSUME TypeOK, UNCHANGED offers PROVE SwitchStep
BY DEF TypeOK, offers, SwitchStep

LEMMA AnySwitch == OffersStep => SwitchStep
BY DEF OffersStep, SwitchStep

(* While the thread polls long polling is on, and no path is pushed.       *)
LEMMA Polling ==
  ASSUME IInv, lpc \notin {"pop", "end"}, OffersStep, lpc' # "pop"
  PROVE  PollsOnce'
<1>1. paths \in Nat /\ paths + 1 = IF have_longpoll THEN 1 ELSE 0
  BY DEF IInv, TypeOK, PollsOnce
<1>2. have_longpoll /\ paths = 0
  BY <1>1
<1>3. have_longpoll' = have_longpoll /\ paths' = paths
  BY <1>2 DEF OffersStep
<1>. QED  BY <1>2, <1>3 DEF PollsOnce

LEMMA KeptPoller ==
  /\ IInv /\ UNCHANGED <<lwork, submit_old, have_gbt>>
       /\ lpc' \in {"pop", "ask", "late", "failed", "stop", "end"} => PollerStep
  /\ IInv /\ lwork' = NoWork /\ submit_old' \in BOOLEAN /\ have_gbt' \in BOOLEAN
       /\ lpc' \in {"pop", "ask", "late", "failed", "stop", "end"} => PollerStep
BY NoWorkType DEF IInv, TypeOK, NodeWorks, PollerStep

LEMMA Answering ==
  ASSUME NEW w \in Works, NEW k \in Nat
  PROVE  [w EXCEPT !.tip = k] \in Works /\ [w EXCEPT !.tip = k].tip = k
BY DEF Works

(* A work the server gave is of one of its blocks.                         *)
LEMMA DecodeShared ==
  ASSUME IInv, PollDecode
  PROVE  SharedStep
<1>1. lwork.gbt \in BOOLEAN /\ lwork.tip \in Nat /\ lwork.tip # 0 /\ g_work \in Works
  BY DEF IInv, TypeOK, NodeWorks, NoEmpty, PollDecode, Works
<1>2. g_work' \in Works /\ g_work'.tip = lwork.tip
  BY <1>1, DecodedOK DEF PollDecode
<1>3. due' \in BOOLEAN
  BY DEF PollDecode
<1>. QED  BY <1>1, <1>2, <1>3 DEF SharedStep

LEMMA UndecodedShared ==
  ASSUME IInv, PollUndecoded
  PROVE  SharedStep
<1>1. have_gbt \in BOOLEAN /\ lwork.tip \in Nat /\ g_work \in Works /\ due \in BOOLEAN
  BY DEF IInv, TypeOK, NodeWorks
<1>2. g_work' \in Works /\ g_work'.tip = g_work.tip
  BY <1>1, HalvesOK DEF PollUndecoded
<1>3. due' = due /\ have_stratum' = have_stratum
  BY DEF PollUndecoded, offers
<1>. QED  BY <1>1, <1>2, <1>3 DEF SharedStep, IInv, NodeWorks, NoEmpty

LEMMA PollPopKeeps ==
  ASSUME IInv, PollPop
  PROVE  IInv'
<1>1. TypeOK /\ Methods
  BY StartsAtHand DEF IInv
<1>2. UNCHANGED Elsewhere
  BY DEF PollPop, Elsewhere, calls, shared
<1>3. SwitchStep
  BY <1>1 DEF PollPop, TypeOK, SwitchStep
<1>4. PollerStep
  BY KeptPoller DEF PollPop, calls
<1>5. SharedStep
  BY KeptShared, <1>3 DEF SwitchStep, PollPop, shared
<1>6. PollsOnce'
  BY <1>1 DEF IInv, PollsOnce, PollPop, TypeOK
<1>. QED  BY PollStep, <1>2, <1>3, <1>4, <1>5, <1>6

LEMMA PollWokenKeeps ==
  ASSUME IInv, PollWoken
  PROVE  IInv'
<1>1. TypeOK /\ Methods
  BY StartsAtHand DEF IInv
<1>2. UNCHANGED Elsewhere
  BY DEF PollWoken, Elsewhere, calls, shared
<1>3. OffersStep
  BY <1>1, KeptOffers DEF PollWoken, offers
<1>4. SwitchStep
  BY <1>3, AnySwitch
<1>5. PollerStep
  BY KeptPoller DEF PollWoken, calls
<1>6. SharedStep
  BY KeptShared, <1>4 DEF SwitchStep, PollWoken, shared
<1>7. PollsOnce'
  BY DEF PollsOnce, PollWoken
<1>. QED  BY PollStep, <1>2, <1>4, <1>5, <1>6, <1>7

LEMMA PollAskKeeps ==
  ASSUME IInv, PollAsk
  PROVE  IInv'
<1>1. TypeOK /\ Methods
  BY StartsAtHand DEF IInv
<1>2. UNCHANGED Elsewhere
  BY DEF PollAsk, Elsewhere, calls, shared
<1>3. OffersStep
  BY <1>1, AnyOffers DEF PollAsk
<1>4. SwitchStep
  BY <1>3, AnySwitch
<1>5. PollerStep
  BY <1>1 DEF PollAsk, PollerStep, NoWork, Works, Methods, TypeOK, calls
<1>6. SharedStep
  BY KeptShared, <1>4 DEF SwitchStep, PollAsk, shared
<1>7. PollsOnce'
  BY Polling, <1>3 DEF PollAsk
<1>. QED  BY PollStep, <1>2, <1>4, <1>5, <1>6, <1>7

LEMMA PollEndKeeps ==
  ASSUME IInv, PollEnd
  PROVE  IInv'
<1>1. TypeOK /\ Methods
  BY StartsAtHand DEF IInv
<1>2. UNCHANGED Elsewhere
  BY DEF PollEnd, Elsewhere, calls, shared
<1>3. OffersStep
  BY <1>1, AnyOffers DEF PollEnd
<1>4. SwitchStep
  BY <1>3, AnySwitch
<1>5. PollerStep
  BY <1>1, KeptPoller DEF PollEnd, calls, TypeOK, Methods
<1>6. SharedStep
  BY KeptShared, <1>4 DEF SwitchStep, PollEnd, shared
<1>7. PollsOnce'
  BY Polling, <1>3 DEF PollEnd
<1>. QED  BY PollStep, <1>2, <1>4, <1>5, <1>6, <1>7

LEMMA PollAnsweredKeeps ==
  ASSUME IInv, PollAnswered
  PROVE  IInv'
<1>1. TypeOK /\ Methods
  BY StartsAtHand DEF IInv
<1>2. UNCHANGED Elsewhere
  BY DEF PollAnswered, Elsewhere, calls, shared
<1>3. OffersStep
  BY <1>1, AnyOffers DEF PollAnswered
<1>4. SwitchStep
  BY <1>3, AnySwitch
<1>5. PollerStep
  BY <1>1, Answering DEF PollAnswered, PollerStep, calls, Methods, IInv, TypeOK, NoEmpty
<1>6. SharedStep
  BY KeptShared, <1>4 DEF SwitchStep, PollAnswered, shared
<1>7. PollsOnce'
  BY Polling, <1>3 DEF PollAnswered
<1>. QED  BY PollStep, <1>2, <1>4, <1>5, <1>6, <1>7

LEMMA PollDecodeKeeps ==
  ASSUME IInv, PollDecode
  PROVE  IInv'
<1>1. TypeOK /\ Methods
  BY StartsAtHand DEF IInv
<1>2. UNCHANGED Elsewhere
  BY DEF PollDecode, Elsewhere, calls, shared
<1>3. OffersStep
  BY <1>1, KeptOffers DEF PollDecode, offers
<1>4. SwitchStep
  BY <1>3, AnySwitch
<1>5. PollerStep
  BY <1>1, KeptPoller DEF PollDecode, calls, TypeOK, Methods
<1>6. SharedStep
  BY DecodeShared DEF PollDecode, offers
<1>7. PollsOnce'
  BY Polling, <1>3 DEF PollDecode
<1>. QED  BY PollStep, <1>2, <1>4, <1>5, <1>6, <1>7

LEMMA PollUndecodedKeeps ==
  ASSUME IInv, PollUndecoded
  PROVE  IInv'
<1>1. TypeOK /\ Methods
  BY StartsAtHand DEF IInv
<1>2. UNCHANGED Elsewhere
  BY DEF PollUndecoded, Elsewhere, calls, shared
<1>3. OffersStep
  BY <1>1, KeptOffers DEF PollUndecoded, offers
<1>4. SwitchStep
  BY <1>3, AnySwitch
<1>5. PollerStep
  BY <1>1, KeptPoller DEF PollUndecoded, TypeOK, Methods
<1>6. SharedStep
  BY UndecodedShared DEF PollUndecoded, offers
<1>7. PollsOnce'
  BY Polling, <1>3 DEF PollUndecoded
<1>. QED  BY PollStep, <1>2, <1>4, <1>5, <1>6, <1>7

LEMMA PollFailedKeeps ==
  ASSUME IInv, PollFailed
  PROVE  IInv'
<1>1. TypeOK /\ Methods
  BY StartsAtHand DEF IInv
<1>2. UNCHANGED Elsewhere
  BY DEF PollFailed, Elsewhere, calls, shared
<1>3. OffersStep
  BY <1>1, AnyOffers DEF PollFailed
<1>4. SwitchStep
  BY <1>3, AnySwitch
<1>5. PollerStep
  BY <1>1, KeptPoller DEF PollFailed, calls, TypeOK, Methods
<1>6. SharedStep
  BY KeptShared, <1>4 DEF SwitchStep, PollFailed, shared
<1>7. PollsOnce'
  BY Polling, <1>3 DEF PollFailed
<1>. QED  BY PollStep, <1>2, <1>4, <1>5, <1>6, <1>7

LEMMA PollLateKeeps ==
  ASSUME IInv, PollLate
  PROVE  IInv'
<1>1. TypeOK /\ Methods
  BY StartsAtHand DEF IInv
<1>2. UNCHANGED Elsewhere
  BY DEF PollLate, Elsewhere, calls, shared
<1>3. OffersStep
  BY <1>1, KeptOffers DEF PollLate, offers
<1>4. SwitchStep
  BY <1>3, AnySwitch
<1>5. PollerStep
  BY KeptPoller DEF PollLate, calls
<1>6. SharedStep
  BY DueShared DEF PollLate, offers
<1>7. PollsOnce'
  BY Polling, <1>3 DEF PollLate
<1>. QED  BY PollStep, <1>2, <1>4, <1>5, <1>6, <1>7

LEMMA PollStopKeeps ==
  ASSUME IInv, PollStop
  PROVE  IInv'
<1>1. TypeOK /\ Methods
  BY StartsAtHand DEF IInv
<1>2. UNCHANGED Elsewhere
  BY DEF PollStop, Elsewhere, calls, shared
<1>3. SwitchStep
  BY <1>1 DEF PollStop, TypeOK, SwitchStep
<1>4. PollerStep
  BY KeptPoller DEF PollStop, calls
<1>5. SharedStep
  BY KeptShared DEF PollStop, shared
<1>6. PollsOnce'
  BY <1>1 DEF IInv, PollsOnce, PollStop, TypeOK
<1>. QED  BY PollStep, <1>2, <1>3, <1>4, <1>5, <1>6

LEMMA LongpollKeeps == IInv /\ Longpoll => IInv'
BY PollPopKeeps, PollWokenKeeps, PollAskKeeps, PollEndKeeps, PollAnsweredKeeps,
   PollDecodeKeeps, PollUndecodedKeeps, PollFailedKeeps, PollLateKeeps, PollStopKeeps
   DEF Longpoll

(* The stratum thread, other miners and time.                              *)
LEMMA OthersKeep == IInv /\ (StratumJob \/ NewBlock \/ Age) => IInv'
<1>1. ASSUME IInv, StratumJob PROVE IInv'
  <2>1. UNCHANGED Elsewhere /\ UNCHANGED offers /\ UNCHANGED pvars /\ have_gbt' = have_gbt
    BY <1>1 DEF StratumJob, Elsewhere, wvars, calls
  <2>2. TypeOK /\ PollsOnce
    BY <1>1 DEF IInv
  <2>3. SwitchStep
    BY <2>1, <2>2, KeptSwitch
  <2>4. PollerStep
    BY <1>1, <2>1 DEF IInv, TypeOK, NodeWorks, NoEmpty, PollerStep, pvars
  <2>5. PollsOnce'
    BY <2>1, <2>2 DEF PollsOnce, offers, pvars
  <2>6. PoolWork \in Works
    BY DEF PoolWork, NoWork, Works
  <2>7. SharedStep
    BY <1>1, <2>1, <2>6 DEF StratumJob, SharedStep, offers
  <2>. QED  BY <1>1, <2>1, <2>3, <2>4, <2>5, <2>7, PollStep
<1>2. ASSUME IInv, NewBlock PROVE IInv'
  <2>1. UNCHANGED <<shared, mvars, pvars>> /\ UNCHANGED <<reply, wq, offers, calls>>
    BY <1>2 DEF NewBlock, wvars
  <2>2. TypeOK /\ AtHand /\ Methods
    BY <1>2, StartsAtHand DEF IInv
  <2>3. ChainStep
    BY <1>2 DEF IInv, TypeOK, NewBlock, ChainStep
  <2>4. OffersStep /\ RepliesStep /\ QueueStep
    BY <2>1, <2>2, KeptOffers, KeptReplies, KeptQueue
  <2>5. AtHand' /\ Methods'
    BY <2>1, <2>2 DEF AtHand, Methods, calls, offers
  <2>. QED  BY <1>2, <2>1, <2>3, <2>4, <2>5, CallStep
<1>3. ASSUME IInv, Age PROVE IInv'
  <2>1. UNCHANGED Elsewhere /\ UNCHANGED offers /\ UNCHANGED pvars /\ have_gbt' = have_gbt
    BY <1>3 DEF Age, Elsewhere, wvars, calls
  <2>2. TypeOK /\ PollsOnce
    BY <1>3 DEF IInv
  <2>3. SwitchStep
    BY <2>1, <2>2, KeptSwitch
  <2>4. PollerStep
    BY <1>3, <2>1 DEF IInv, TypeOK, NodeWorks, NoEmpty, PollerStep, pvars
  <2>5. PollsOnce'
    BY <2>1, <2>2 DEF PollsOnce, offers, pvars
  <2>6. SharedStep
    BY <1>3, <2>1, DueShared DEF Age, offers
  <2>. QED  BY <1>3, <2>1, <2>3, <2>4, <2>5, <2>6, PollStep
<1>. QED  BY <1>1, <1>2, <1>3

-----------------------------------------------------------------------------
(* The theorems                                                            *)

LEMMA Starts == Init => IInv
<1>. SUFFICES ASSUME Init PROVE IInv
  OBVIOUS
<1>1. tip = 1 /\ delivered = {} /\ accepted = {} /\ net_blocks = 0 /\ failures = 0 /\ paths = 0
  BY DEF Init
<1>2. TypeOK
  <2>1. g_work \in Works /\ cmd \in Cmds /\ ret \in Works /\ lwork \in Works
    BY NoWorkType, NoCmdType DEF Init
  <2>2. work \in [ThreadIds -> Works]
    BY NoWorkType DEF Init
  <2>3. reply \in [ThreadIds -> Seq(Works)] /\ wq \in Seq(Cmds)
    BY DEF Init
  <2>4. g_work_lock \in ThreadIds \cup {NoOwner}
    BY DEF Init
  <2>5. pc \in [ThreadIds -> {"lock", "await", "got", "scan", "submit", "submitted",
            "zero", "left"}]
    BY DEF Init
  <2>6. have_gbt \in BOOLEAN
    BY OptionAssumption DEF Init
  <2>7. /\ allow_mininginfo \in BOOLEAN /\ due \in BOOLEAN /\ submit_old \in BOOLEAN
        /\ have_longpoll \in BOOLEAN /\ have_stratum \in BOOLEAN
    BY DEF Init
  <2>8. wpc = "pop" /\ lpc = "pop"
    BY DEF Init
  <2>. QED  BY <1>1, <2>1, <2>2, <2>3, <2>4, <2>5, <2>6, <2>7, <2>8 DEF TypeOK
<1>3. Queued
  BY DEF Init, Queued
<1>4. NodeWorks
  BY NoWorkType, NoCmdType DEF Init, NodeWorks
<1>5. NoEmpty
  BY DEF Init, NoEmpty
<1>6. EmptyNotScanned /\ PollsOnce
  BY DEF Init, EmptyNotScanned, PollsOnce
<1>. QED  BY <1>2, <1>3, <1>4, <1>5, <1>6 DEF IInv

LEMMA MinerKeeps ==
  ASSUME IInv, NEW t \in ThreadIds, Miner(t)
  PROVE  IInv'
BY MinerTakeKeeps, MinerRequestKeeps, MinerGotKeeps, MinerGoesOnKeeps, MinerWokenKeeps,
   MinerScanEndKeeps, MinerFoundKeeps, MinerSubmitKeeps, MinerSubmittedKeeps, MinerZeroKeeps DEF Miner

LEMMA StutterKeeps == IInv /\ UNCHANGED vars => IInv'
BY DEF vars, server, shared, mvars, wvars, calls, offers, pvars, IInv, TypeOK, Queued,
       NodeWorks, NoEmpty, EmptyNotScanned, PollsOnce

(* The invariant holds of every state the program reaches.                 *)
THEOREM Inductive == Spec => []IInv
<1>1. IInv /\ [Next]_vars => IInv'
  BY MinerKeeps, WorkioKeeps, LongpollKeeps, OthersKeep, StutterKeeps DEF Next
<1>. QED  BY Starts, <1>1, PTL DEF Spec

(* Every variable has its type, with any number of threads, blocks and     *)
(* retries.                                                                *)
THEOREM Typing == Spec => []TypeOK
<1>1. IInv => TypeOK
  BY DEF IInv
<1>. QED  BY Inductive, <1>1, PTL

(* Long polling is on exactly while somebody polls or is told to.          *)
THEOREM PollsOnceAlways == Spec => []PollsOnce
<1>1. IInv => PollsOnce
  BY DEF IInv
<1>. QED  BY Inductive, <1>1, PTL

(* A work without a block is not scanned, at whatever moment the program   *)
(* switches to stratum.                                                    *)
THEOREM EmptyNeverScanned == Spec => []EmptyNotScanned
<1>1. IInv => EmptyNotScanned
  BY DEF IInv
<1>. QED  BY Inductive, <1>1, PTL

=============================================================================
