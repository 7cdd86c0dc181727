------------------------- MODULE GetWorkOrder_proofs -------------------------
(***************************************************************************)
(* The order of works, requests and solutions in GetWork without long      *)
(* polling and without a switch to stratum: FreshAfterBlock, OncePerBlock, *)
(* StaleIsOld, SolvedIsSolved.                                             *)
(***************************************************************************)
EXTENDS GetWorkAnswers_proofs

(* Neither long polling (--no-longpoll, or a server without) nor X-Stratum. *)
NodeOnly == Poll = FALSE /\ Switch = FALSE

Handing == {"check", "submitinfo", "solved", "send"}
Resting == {"lock", "await"}
Scanning == {"scan", "submit"}
Mining == {"got"} \cup Scanning

(* The long-polling thread has nothing to do.                              *)
Quiet ==
  /\ have_longpoll = FALSE /\ have_stratum = FALSE /\ submit_old = FALSE
  /\ paths = 0 /\ lpc \in {"pop", "end"}

(* Only what a failed call has encoded is in the other byte order, and it  *)
(* does not get past WioCheck.                                             *)
Straight ==
  /\ g_work.swapped = FALSE /\ ret.swapped = FALSE
  /\ \A t \in ThreadIds : work[t].swapped = FALSE
  /\ \A t \in ThreadIds : \A i \in DOMAIN reply[t] : reply[t][i].swapped = FALSE
  /\ \A i \in DOMAIN wq : wq[i].work.swapped = FALSE
  /\ wpc \in {"submitinfo", "solved", "send"} => cmd.work.swapped = FALSE

(* No work is newer than g_work but what is on its way to become g_work.   *)
Tips ==
  /\ g_work.tip <= tip /\ ret.tip <= tip /\ cmd.work.tip <= g_work.tip
  /\ \A t \in ThreadIds : work[t].tip <= g_work.tip
  /\ \A i \in DOMAIN wq : wq[i].work.tip <= g_work.tip
  /\ \A t \in ThreadIds : \A i \in DOMAIN reply[t] : reply[t][i].tip <= tip
  /\ \A d \in delivered : d[2] < tip /\ d[2] <= g_work.tip
  /\ \A t \in ThreadIds : pc[t] = "await" /\ reply[t] # << >> => g_work.tip <= reply[t][1].tip
  /\ wpc \in {"info", "answer"} /\ pc[cmd.thr] # "left" => g_work.tip <= ret.tip

(* The request of the owner of g_work_lock is behind place i of the queue. *)
Free == g_work_lock = NoOwner
Ahead(i) == \E j \in DOMAIN wq : i < j /\ wq[j] = Request(g_work_lock)

(* What comes of it is newer than block k.                                 *)
Coming(k) ==
  \/ Free \/ Ahead(0)
  \/ wpc \in Fetching /\ cmd.thr = g_work_lock /\ (wpc \in {"info", "answer"} => k < ret.tip)
  \/ wpc \in Frozen /\ reply[g_work_lock] = << >>
  \/ reply[g_work_lock] # << >> /\ k < reply[g_work_lock][1].tip

(* The solutions of thread t in the queue, at hand and delivered are all   *)
(* of blocks below b.                                                      *)
Below(t, b) ==
  /\ \A i \in DOMAIN wq : wq[i].cmd # "get" /\ wq[i].thr = t => wq[i].work.tip < b
  /\ wpc \in Handing /\ cmd.thr = t => cmd.work.tip < b
  /\ \A d \in delivered : d[1] = t => d[2] < b

(* They are below g_work, or g_work is due and so will be its successor.   *)
Followed(t) ==
  /\ \A i \in DOMAIN wq : wq[i].cmd # "get" /\ wq[i].thr = t =>
       wq[i].work.tip < g_work.tip \/ (due = TRUE /\ (Free \/ Ahead(i)))
  /\ wpc \in Handing /\ cmd.thr = t =>
       cmd.work.tip < g_work.tip \/ (due = TRUE /\ (Free \/ Ahead(0)))
  /\ \A d \in delivered : d[1] = t => d[2] < g_work.tip \/ (due = TRUE /\ Coming(d[2]))

(* The block thread t mines on; with an answer in hand, will mine on.      *)
Base(t) == IF pc[t] = "got" THEN g_work.tip ELSE work[t].tip

Behind ==
  \A t \in ThreadIds : /\ pc[t] \in Resting => Followed(t)
                       /\ pc[t] \in Mining => Below(t, Base(t))

OInv == Quiet /\ Straight /\ Tips /\ Behind

-----------------------------------------------------------------------------
(* No long polling and no switch                                           *)

LEMMA NothingOffered ==
  ASSUME NodeOnly, IInv, Quiet, NEW template, Offered(template)
  PROVE  UNCHANGED offers /\ have_stratum' = FALSE
<1>1. have_stratum' = FALSE
  BY Zenon DEF NodeOnly, Quiet, Offered
<1>2. PICK offered \in {FALSE, Poll} :
       LET new == /\ offered /\ ~have_longpoll /\ ~have_stratum'
                  /\ template \/ (~have_gbt /\ AllowGetwork)
       IN /\ have_longpoll' = (have_longpoll \/ new)
          /\ paths' = IF new /\ lpc # "end" THEN paths + 1 ELSE paths
  BY DEF Offered
<1>3. offered = FALSE
  BY <1>2 DEF NodeOnly
<1>4. have_longpoll' = FALSE /\ paths' = paths
  BY <1>2, <1>3 DEF Quiet
<1>. QED  BY <1>1, <1>4 DEF Quiet, offers

LEMMA PollIdle ==
  ASSUME Quiet, Longpoll
  PROVE  PollWoken
<1>1. ~PollPop
  BY DEF PollPop, Quiet
<1>2. /\ ~PollAsk /\ ~PollEnd /\ ~PollAnswered /\ ~PollDecode /\ ~PollUndecoded /\ ~PollFailed
      /\ ~PollLate /\ ~PollStop
  BY DEF PollAsk, PollEnd, PollAnswered, PollDecode, PollUndecoded, PollFailed, PollLate, PollStop, Quiet
<1>. QED  BY <1>1, <1>2 DEF Longpoll

LEMMA QuietKept ==
  ASSUME NodeOnly, IInv, Quiet, [Next]_vars
  PROVE  Quiet'
<1>1. CASE Workio
  <2>1. CASE \E template : Offered(template)
    BY <1>1, <2>1, NothingOffered
       DEF Quiet, offers, Workio, WioPop, WioWoken, WioFreeze, WioFetch, WioFetchFailed, WioFallBack, WioRefuse,
           WioUndecodable, WioUndecoded, WioInfo, WioInfoFailed, WioFetchSwitched, WioNoInfo, WioAnswer, WioCheck,
           WioSolved, WioSend, WioSendFailed, WioShare, pvars
  <2>2. CASE UNCHANGED offers
    BY <1>1, <2>2
       DEF Quiet, offers, Workio, WioPop, WioWoken, WioFreeze, WioFetch, WioFetchFailed, WioFallBack, WioRefuse,
           WioUndecodable, WioUndecoded, WioInfo, WioInfoFailed, WioFetchSwitched, WioNoInfo, WioAnswer, WioCheck,
           WioSolved, WioSend, WioSendFailed, WioShare, pvars
  <2>. QED
    BY <1>1, <2>1, <2>2
       DEF Workio, WioPop, WioWoken, WioFreeze, WioFetch, WioFetchFailed, WioFallBack, WioRefuse,
           WioUndecodable, WioUndecoded, WioInfo, WioInfoFailed, WioFetchSwitched, WioNoInfo, WioAnswer, WioCheck,
           WioSolved, WioSend, WioSendFailed, WioShare
<1>2. CASE Longpoll
  <2>. QED  BY <1>2, PollIdle DEF PollWoken, Quiet, offers
<1>3. CASE \/ StratumJob \/ NewBlock \/ Age \/ UNCHANGED vars \/ \E t \in ThreadIds : Miner(t)
  <2>1. UNCHANGED wvars
    BY <1>3 DEF StratumJob, NewBlock, Age, vars, Miner, MinerTake, MinerRequest, MinerGot, MinerGoesOn, MinerWoken,
                MinerScanEnd, MinerFound, MinerSubmit, MinerSubmitted, MinerZero
  <2>. QED  BY <2>1 DEF wvars, offers, pvars, Quiet
<1>. QED  BY <1>1, <1>2, <1>3 DEF Next

(* The steps of the workio thread by what they do to its queue, the replies *)
(* and the server: it ends, calls, or turns to another command.            *)
Stops ==
  /\ wpc \in {"pop", "freeze"} /\ wpc' \in Frozen
  /\ UNCHANGED <<server, reply, wq>>
  /\ cmd' = cmd \/ cmd' = NoCmd
  /\ ret' = ret \/ ret' = NoWork
Fetches ==
  /\ wpc = "fetch" /\ wpc' = "info"
  /\ UNCHANGED <<server, reply, wq, cmd>>
  /\ ret'.tip = tip /\ ret'.swapped = FALSE
Calls ==
  /\ wpc \in Fetching /\ wpc' \in {"fetch", "badinfo", "bad", "answer", "freeze"}
  /\ wpc' = "answer" => wpc = "info"
  /\ UNCHANGED <<server, reply, wq, cmd>>
  /\ ret'.tip = ret.tip /\ ret'.swapped = ret.swapped
Passes ==
  /\ wpc \in {"check", "submitinfo", "solved"} /\ wpc' \in {"submitinfo", "solved", "send"}
  /\ wpc = "check" => SamePrevhash(cmd.work, g_work)
  /\ UNCHANGED <<server, reply, wq, cmd, ret>>
Drops == wpc \in {"check", "solved"} /\ UNCHANGED <<server, reply, wq>> /\ CmdDone
Again ==
  /\ wpc' \in {"check", "freeze"} /\ ret' = ret
  /\ cmd' = [cmd EXCEPT !.work = Encoded(@)]
HandsIn ==
  /\ wpc = "send" /\ (Deliver \/ UNCHANGED server)
  /\ UNCHANGED <<reply, wq>> /\ (CmdDone \/ Again)

LEMMA WorkioMoves ==
  ASSUME NodeOnly, IInv, Quiet, Workio
  PROVE  /\ UNCHANGED <<shared, mvars>>
         /\ WioPop \/ WioAnswer \/ Stops \/ Fetches \/ Calls \/ Passes \/ Drops \/ HandsIn
<1>1. UNCHANGED <<shared, mvars>>
  BY DEF Workio, WioPop, WioWoken, WioFreeze, WioFetch, WioFetchFailed, WioFallBack, WioRefuse,
         WioUndecodable, WioUndecoded, WioInfo, WioInfoFailed, WioFetchSwitched, WioNoInfo, WioAnswer, WioCheck,
         WioSolved, WioSend, WioSendFailed, WioShare
<1>2. CASE WioPop \/ WioAnswer
  BY <1>1, <1>2
<1>3. CASE WioWoken \/ WioFreeze
  BY <1>1, <1>3 DEF WioWoken, WioFreeze, Frozen, Stops
<1>4. CASE WioFetch
  <2>1. have_gbt \in BOOLEAN /\ tip \in Nat /\ ret \in Works
    BY DEF IInv, TypeOK
  <2>2. ret'.tip = tip /\ ret'.swapped = FALSE
    BY <1>4, <2>1 DEF WioFetch, Decoded
  <2>. QED  BY <1>1, <1>4, <2>2 DEF WioFetch, Fetches
<1>5. CASE WioFetchFailed \/ WioFallBack \/ WioUndecoded
  BY <1>1, <1>5 DEF WioFetchFailed, WioFallBack, WioUndecoded, Retry, Fetching, Calls
<1>6. CASE WioRefuse \/ WioUndecodable
  <2>1. ret \in Works /\ have_gbt \in BOOLEAN /\ tip \in Nat
    BY DEF IInv, TypeOK
  <2>2. ret'.tip = ret.tip /\ ret'.swapped = ret.swapped
    <3>1. CASE WioRefuse
      BY <2>1, <3>1 DEF WioRefuse, Works
    <3>2. CASE WioUndecodable
      BY <2>1, <3>2 DEF WioUndecodable, Halves, Works
    <3>. QED  BY <1>6, <3>1, <3>2
  <2>. QED  BY <1>1, <1>6, <2>2 DEF WioRefuse, WioUndecodable, Fetching, Calls
<1>7. CASE WioInfo \/ WioInfoFailed \/ WioNoInfo
  <2>1. UNCHANGED <<server, reply, wq, cmd>> /\ wpc' = AfterInfo[wpc] /\ wpc \in {"info", "badinfo", "submitinfo"}
    BY <1>7, AfterInfoOK DEF WioInfo, WioInfoFailed, WioNoInfo
  <2>2. ret'.tip = ret.tip /\ ret'.swapped = ret.swapped /\ (wpc = "submitinfo" => ret' = ret)
    <3>1. ret \in Works
      BY DEF IInv, TypeOK
    <3>. QED  BY <1>7, <3>1 DEF WioInfo, WioInfoFailed, WioNoInfo, Works
  <2>3. /\ wpc = "submitinfo" => wpc' = "solved"
        /\ wpc = "info" => wpc' = "answer"
        /\ wpc = "badinfo" => wpc' = "bad"
    BY <2>1 DEF AfterInfo
  <2>. QED  BY <1>1, <2>1, <2>2, <2>3 DEF Fetching, Calls, Passes
<1>8. CASE WioCheck
  BY <1>1, <1>8 DEF WioCheck, CmdGoesOn, Quiet, Drops, Passes
<1>9. CASE WioSolved
  BY <1>1, <1>9 DEF WioSolved, CmdGoesOn, Drops, Passes
<1>10. CASE WioSend
  BY <1>1, <1>10 DEF WioSend, HandsIn
<1>11. CASE WioSendFailed
  BY <1>1, <1>11 DEF WioSendFailed, Retry, HandsIn, Again
<1>12. ~WioFetchSwitched /\ ~WioShare
  BY NothingOffered DEF WioFetchSwitched, WioShare, Quiet
<1>. QED  BY <1>2, <1>3, <1>4, <1>5, <1>6, <1>7, <1>8, <1>9, <1>10, <1>11, <1>12 DEF Workio

-----------------------------------------------------------------------------
(* What the invariants say together                                        *)

LEMMA Numbers ==
  ASSUME IInv, Quiet
  PROVE  /\ tip \in Nat /\ g_work.tip \in Nat /\ ret.tip \in Nat /\ cmd.work.tip \in Nat
         /\ \A t \in ThreadIds : work[t].tip \in Nat
         /\ \A t \in ThreadIds : reply[t] \in Seq(Works)
         /\ \A t \in ThreadIds : \A i \in DOMAIN reply[t] : reply[t][i].tip \in Nat
         /\ wq \in Seq(Cmds) /\ \A i \in DOMAIN wq : wq[i].work.tip \in Nat
         /\ \A d \in delivered : d[2] \in Nat
         /\ due \in BOOLEAN
<1>1. tip \in Nat /\ wq \in Seq(Cmds) /\ due \in BOOLEAN /\ reply \in [ThreadIds -> Seq(Works)]
  BY DEF IInv, TypeOK
<1>2. /\ g_work.tip \in Nat /\ ret.tip \in Nat /\ cmd.work.tip \in Nat
      /\ \A t \in ThreadIds : work[t].tip \in Nat
  BY DEF IInv, NodeWorks, Quiet
<1>3. /\ \A t \in ThreadIds : \A i \in DOMAIN reply[t] : reply[t][i].tip \in Nat
      /\ \A i \in DOMAIN wq : wq[i].work.tip \in Nat
  BY DEF IInv, NodeWorks, Quiet
<1>4. \A d \in delivered : d[2] \in Nat
  BY DEF IInv, TypeOK
<1>. QED  BY <1>1, <1>2, <1>3, <1>4

LEMMA BelowFollowed ==
  ASSUME IInv, Quiet, NEW t \in ThreadIds, NEW b \in Nat, Below(t, b), b <= g_work.tip
  PROVE  Followed(t)
<1>1. \A i \in DOMAIN wq : wq[i].cmd # "get" /\ wq[i].thr = t => wq[i].work.tip < g_work.tip
  BY Numbers DEF Below
<1>2. wpc \in Handing /\ cmd.thr = t => cmd.work.tip < g_work.tip
  BY Numbers DEF Below
<1>3. \A d \in delivered : d[1] = t => d[2] < g_work.tip
  BY Numbers DEF Below
<1>. QED  BY <1>1, <1>2, <1>3 DEF Followed

LEMMA FreshBelow ==
  ASSUME NEW t \in ThreadIds, due = FALSE, Followed(t)
  PROVE  Below(t, g_work.tip)
BY DEF Followed, Below

LEMMA DueFollowed ==
  ASSUME NEW t \in ThreadIds, due = TRUE, Free
  PROVE  Followed(t)
BY DEF Followed, Coming

(* A thread with an answer has no other, and nobody else waits.            *)
LEMMA GotAlone ==
  ASSUME IInv, AInv, NEW t \in ThreadIds, pc[t] = "await", reply[t] # << >>
  PROVE  /\ g_work_lock = t /\ ~Free
         /\ \A j \in DOMAIN wq : wq[j] # Request(t)
         /\ DOMAIN reply[t] = {1}
         /\ wpc \in Fetching => pc[cmd.thr] = "left"
         /\ \A u \in ThreadIds : pc[u] \in Owning => u = t
<1>1. wq \in Seq(Cmds) /\ reply[t] \in Seq(Works)
  BY DEF IInv, TypeOK
<1>2. Asked(t) + Len(reply[t]) + Served(t) <= 1
  BY DEF AInv, HeldOnce, Held, Wanted
<1>3. Len(reply[t]) = 1 /\ Asked(t) = 0 /\ Served(t) = 0
  <2>1. Asked(t) \in Nat /\ Len(reply[t]) \in Nat /\ Served(t) \in {0, 1} /\ Len(reply[t]) # 0
    BY HeldTypes
  <2>2. ASSUME NEW a \in Nat, NEW l \in Nat, NEW s \in {0, 1}, a + l + s <= 1, l # 0
        PROVE  l = 1 /\ a = 0 /\ s = 0
    BY <2>2
  <2>. QED  BY <1>2, <2>1, <2>2
<1>4. \A j \in DOMAIN wq : wq[j] # Request(t)
  BY <1>1, <1>3, CountIsNat DEF Asked
<1>5. DOMAIN reply[t] = {1}
  BY <1>1, <1>3
<1>6. g_work_lock = t /\ \A u \in ThreadIds : pc[u] \in Owning => u = t
  BY DEF AInv, Owns, Owning
<1>7. ASSUME wpc \in Fetching, pc[cmd.thr] # "left"  PROVE FALSE
  <2>1. cmd.thr \in ThreadIds /\ cmd.cmd = "get"
    BY <1>7 DEF IInv, Queued, AInv, Gets, Fetching
  <2>2. Served(cmd.thr) = 1
    BY <1>7, <2>1 DEF Served
  <2>3. Held(cmd.thr) <= Wanted(cmd.thr)
    BY <1>7, <2>1 DEF AInv, HeldOnce
  <2>4. Wanted(cmd.thr) = 1
    BY <2>1, <2>2, <2>3, HeldTypes DEF Held
  <2>5. cmd.thr = t
    BY <1>6, <2>1, <2>4, HeldTypes DEF Owning
  <2>. QED  BY <1>3, <2>2, <2>5
<1>8. ~Free
  BY <1>6, Owner DEF Free
<1>. QED  BY <1>4, <1>5, <1>6, <1>7, <1>8

(* The thread a call is made for waits, without an answer, or has left.    *)
LEMMA ServedAlone ==
  ASSUME IInv, AInv, wpc \in Fetching, pc[cmd.thr] # "left"
  PROVE  /\ cmd.thr \in ThreadIds /\ pc[cmd.thr] = "await" /\ g_work_lock = cmd.thr
         /\ reply[cmd.thr] = << >>
<1>1. cmd.thr \in ThreadIds /\ cmd.cmd = "get"
  BY DEF IInv, Queued, AInv, Gets, Fetching
<1>2. Served(cmd.thr) = 1
  BY <1>1 DEF Served
<1>3. Asked(cmd.thr) + Len(reply[cmd.thr]) + 1 <= Wanted(cmd.thr)
  BY <1>1, <1>2 DEF AInv, HeldOnce, Held
<1>4. Wanted(cmd.thr) = 1 /\ Len(reply[cmd.thr]) = 0
  BY <1>1, <1>3, HeldTypes
<1>. QED  BY <1>1, <1>4, HeldTypes DEF AInv, Owns, Owning

(* A thread that does not wait has no answer.                              *)
LEMMA NoneHeld ==
  ASSUME IInv, AInv, NEW t \in ThreadIds, pc[t] \notin {"await", "left"}
  PROVE  reply[t] = << >>
<1>1. Asked(t) + Len(reply[t]) + Served(t) <= 0
  BY DEF AInv, HeldOnce, Held, Wanted
<1>. QED  BY <1>1, HeldTypes

-----------------------------------------------------------------------------
(* The miner threads                                                       *)

(* What thread u has to be behind, after a step.                           *)
LEMMA BehindStep ==
  ASSUME \A u \in ThreadIds : /\ (pc[u] \in Resting)' => Followed(u)'
                              /\ (pc[u] \in Mining)' => Below(u, Base(u))'
  PROVE  Behind'
BY DEF Behind

(* A step of thread t that only moves it.                                  *)
LEMMA MoveKeeps ==
  ASSUME IInv, OInv, NEW t \in ThreadIds,
         UNCHANGED <<server, shared, work, reply, wq, wpc, cmd, ret>>,
         NEW s \in {"lock", "submit", "submitted", "zero", "left"},
         pc' = [pc EXCEPT ![t] = s],
         pc[t] \notin {"await", "got", "left"},
         s \in {"submit", "lock"} => pc[t] = "scan"
  PROVE  Straight' /\ Tips' /\ Behind'
<1>1. Straight /\ Tips /\ Behind /\ Quiet
  BY DEF OInv
<1>2. UNCHANGED <<tip, delivered, accepted, g_work, due, g_work_lock>>
  BY DEF server, shared
<1>3. pc'[t] = s /\ \A u \in ThreadIds : u # t => pc'[u] = pc[u]
  BY DEF IInv, TypeOK
<1>4. Straight'
  BY <1>1, <1>2 DEF Straight
<1>5. Tips'
  <2>1. \A u \in ThreadIds : pc'[u] = "await" /\ reply[u] # << >> => g_work.tip <= reply[u][1].tip
    BY <1>1, <1>3 DEF Tips
  <2>2. wpc \in {"info", "answer"} /\ pc'[cmd.thr] # "left" => g_work.tip <= ret.tip
    <3>1. cmd.thr \in ThreadIds \/ wpc \notin {"info", "answer"}
      BY DEF IInv, Queued
    <3>. QED  BY <1>1, <1>3, <3>1 DEF Tips
  <2>. QED  BY <1>1, <1>2, <2>1, <2>2 DEF Tips
<1>6. Behind'
  <2>. SUFFICES ASSUME NEW u \in ThreadIds
                PROVE  /\ (pc[u] \in Resting)' => Followed(u)'
                       /\ (pc[u] \in Mining)' => Below(u, Base(u))'
    BY BehindStep
  <2>1. Followed(u)' <=> Followed(u)
    BY <1>2 DEF Followed, Free, Ahead, Coming
  <2>2. Below(u, Base(u))' <=> Below(u, Base(u))
    BY <1>2, <1>3 DEF Below, Base
  <2>3. CASE u # t
    BY <1>1, <1>3, <2>1, <2>2, <2>3 DEF Behind
  <2>4. CASE u = t /\ s = "submit"
    BY <1>1, <1>3, <2>2, <2>4 DEF Behind, Resting, Mining, Scanning
  <2>5. CASE u = t /\ s = "lock"
    <3>1. Below(t, work[t].tip)
      BY <1>1, <2>5 DEF Behind, Base, Mining, Scanning
    <3>2. work[t].tip \in Nat /\ work[t].tip <= g_work.tip
      BY <1>1, Numbers DEF Tips
    <3>3. Followed(t)
      BY <1>1, <3>1, <3>2, BelowFollowed
    <3>. QED  BY <1>3, <2>1, <2>5, <3>3 DEF Mining, Scanning
  <2>6. CASE u = t /\ s \in {"submitted", "zero", "left"}
    BY <1>3, <2>6 DEF Resting, Mining, Scanning
  <2>. QED  BY <2>3, <2>4, <2>5, <2>6
<1>. QED  BY <1>4, <1>5, <1>6

LEMMA TakeKeeps ==
  ASSUME IInv, OInv, NEW t \in ThreadIds, MinerTake(t)
  PROVE  Straight' /\ Tips' /\ Behind'
<1>1. Straight /\ Tips /\ Behind /\ Quiet
  BY DEF OInv
<1>2. /\ UNCHANGED <<tip, delivered, accepted, g_work, due, g_work_lock, reply, wq, wpc, cmd, ret>>
      /\ due = FALSE /\ pc[t] = "lock"
  <2>1. UNCHANGED <<server, shared, reply, wq, wvars>> /\ pc[t] = "lock" /\ ~due
    BY DEF MinerTake
  <2>2. due \in BOOLEAN
    BY DEF IInv, TypeOK
  <2>. QED  BY <2>1, <2>2 DEF server, shared, wvars, calls
<1>3. pc'[t] = "scan" /\ \A u \in ThreadIds : u # t => pc'[u] = pc[u]
  <2>1. have_stratum = FALSE /\ pc \in [ThreadIds -> {"lock", "await", "got", "scan", "submit", "submitted", "zero", "left"}]
    BY <1>1 DEF Quiet, IInv, TypeOK
  <2>. QED  BY <2>1 DEF MinerTake
<1>4. PICK w \in {g_work} \cup (IF g_work.tip = work[t].tip THEN {work[t]} ELSE {}) :
        work' = [work EXCEPT ![t] = w]
  BY DEF MinerTake, Adopt
<1>5. w.tip = g_work.tip /\ w.swapped = FALSE
  BY <1>1, <1>4 DEF Straight
<1>6. work'[t] = w /\ \A u \in ThreadIds : u # t => work'[u] = work[u]
  BY <1>4 DEF IInv, TypeOK
<1>7. Straight'
  <2>1. \A u \in ThreadIds : work'[u].swapped = FALSE
    BY <1>1, <1>5, <1>6 DEF Straight
  <2>. QED  BY <1>1, <1>2, <2>1 DEF Straight
<1>8. Tips'
  <2>1. \A u \in ThreadIds : work'[u].tip <= g_work.tip
    BY <1>1, <1>5, <1>6, Numbers DEF Tips
  <2>2. \A u \in ThreadIds : pc'[u] = "await" /\ reply[u] # << >> => g_work.tip <= reply[u][1].tip
    BY <1>1, <1>3 DEF Tips
  <2>3. wpc \in {"info", "answer"} /\ pc'[cmd.thr] # "left" => g_work.tip <= ret.tip
    <3>1. cmd.thr \in ThreadIds \/ wpc \notin {"info", "answer"}
      BY DEF IInv, Queued
    <3>. QED  BY <1>1, <1>2, <1>3, <3>1 DEF Tips
  <2>. QED  BY <1>1, <1>2, <2>1, <2>2, <2>3 DEF Tips
<1>9. Behind'
  <2>. SUFFICES ASSUME NEW u \in ThreadIds
                PROVE  /\ (pc[u] \in Resting)' => Followed(u)'
                       /\ (pc[u] \in Mining)' => Below(u, Base(u))'
    BY BehindStep
  <2>1. CASE u = t
    <3>1. Below(t, g_work.tip)
      BY <1>1, <1>2, FreshBelow DEF Behind, Resting
    <3>2. Below(t, Base(t))'
      BY <1>2, <1>3, <1>5, <1>6, <3>1 DEF Below, Base
    <3>. QED  BY <1>3, <2>1, <3>2 DEF Resting
  <2>2. CASE u # t
    <3>1. Followed(u)' <=> Followed(u)
      BY <1>2 DEF Followed, Free, Ahead, Coming
    <3>2. Below(u, Base(u))' <=> Below(u, Base(u))
      BY <1>2, <1>3, <1>6, <2>2 DEF Below, Base
    <3>. QED  BY <1>1, <1>3, <2>2, <3>1, <3>2 DEF Behind
  <2>. QED  BY <2>1, <2>2
<1>. QED  BY <1>7, <1>8, <1>9

(* A command of thread t goes on the queue: the request, behind all that   *)
(* is there, or the solution, of a thread that has to be behind nothing.   *)
LEMMA PushKeeps ==
  ASSUME IInv, OInv, NEW t \in ThreadIds, NEW c \in Cmds,
         UNCHANGED <<server, g_work, due, work, reply, wpc, cmd, ret>>,
         wq' = Append(wq, c), c.thr = t, c.work.tip <= g_work.tip, c.work.swapped = FALSE,
         NEW s \in {"await", "submitted"},
         pc' = [pc EXCEPT ![t] = s], pc[t] # "left",
         s = "await" => reply[t] = << >>,
         s = "await" => g_work_lock' = t /\ Free /\ pc[t] = "lock" /\ c = Request(t),
         s = "submitted" => g_work_lock' = g_work_lock
  PROVE  Straight' /\ Tips' /\ Behind'
<1>1. Straight /\ Tips /\ Behind /\ Quiet
  BY DEF OInv
<1>2. UNCHANGED <<tip, delivered, accepted>>
  BY DEF server
<1>3. pc'[t] = s /\ \A u \in ThreadIds : u # t => pc'[u] = pc[u]
  BY DEF IInv, TypeOK
<1>4. /\ Len(wq) \in Nat /\ DOMAIN wq = 1 .. Len(wq) /\ DOMAIN wq' = 1 .. Len(wq) + 1
      /\ wq'[Len(wq) + 1] = c /\ \A i \in 1 .. Len(wq) : wq'[i] = wq[i]
  BY Numbers, <1>1, Grown
<1>5. Straight'
  <2>1. \A i \in DOMAIN wq' : wq'[i].work.swapped = FALSE
    BY <1>1, <1>4 DEF Straight
  <2>. QED  BY <1>1, <1>2, <2>1 DEF Straight
<1>6. Tips'
  <2>1. \A u \in ThreadIds : pc'[u] = "await" /\ reply[u] # << >> => g_work.tip <= reply[u][1].tip
    BY <1>1, <1>3 DEF Tips
  <2>2. wpc \in {"info", "answer"} /\ pc'[cmd.thr] # "left" => g_work.tip <= ret.tip
    <3>1. cmd.thr \in ThreadIds \/ wpc \notin {"info", "answer"}
      BY DEF IInv, Queued
    <3>. QED  BY <1>1, <1>3, <3>1 DEF Tips
  <2>3. \A i \in DOMAIN wq' : wq'[i].work.tip <= g_work.tip
    BY <1>1, <1>4 DEF Tips
  <2>. QED  BY <1>1, <1>2, <2>1, <2>2, <2>3 DEF Tips
<1>7. Behind'
  <2>. SUFFICES ASSUME NEW u \in ThreadIds
                PROVE  /\ (pc[u] \in Resting)' => Followed(u)'
                       /\ (pc[u] \in Mining)' => Below(u, Base(u))'
    BY BehindStep
  <2>1. \A i \in DOMAIN wq : (Free => Free') \/ Ahead(i)'
    <3>. SUFFICES ASSUME NEW i \in DOMAIN wq, s = "await"  PROVE Ahead(i)'
      BY DEF Free
    <3>. QED  BY <1>4 DEF Ahead
  <2>2. (Free => Free') \/ Ahead(0)'
    <3>1. CASE s = "await"
      <4>1. Len(wq) + 1 \in DOMAIN wq' /\ 0 < Len(wq) + 1 /\ wq'[Len(wq) + 1] = Request(g_work_lock')
        BY <1>4, <3>1
      <4>. QED  BY <4>1 DEF Ahead
    <3>. QED  BY <3>1 DEF Free
  <2>3. Free \/ g_work_lock' = g_work_lock
    OBVIOUS
  <2>4. \A i : g_work_lock' = g_work_lock /\ Ahead(i) => Ahead(i)'
    BY <1>4 DEF Ahead
  <2>5. \A k : due = TRUE /\ Coming(k) => Coming(k)'
    <3>. TAKE k
    <3>1. CASE Free
      BY <2>2, <3>1 DEF Coming
    <3>2. CASE ~Free
      BY <2>3, <2>4, <3>2 DEF Coming
    <3>. QED  BY <3>1, <3>2
  <2>6. \A i \in DOMAIN wq : Free \/ Ahead(i) => (Free \/ Ahead(i))'
    BY <2>1, <2>3, <2>4
  <2>7. Free \/ Ahead(0) => (Free \/ Ahead(0))'
    BY <2>2, <2>3, <2>4
  <2>8. ASSUME Followed(u), u # t \/ s = "await"  PROVE Followed(u)'
    <3>1. \A i \in DOMAIN wq' : wq'[i].cmd # "get" /\ wq'[i].thr = u =>
            wq'[i].work.tip < g_work.tip \/ (due = TRUE /\ (Free \/ Ahead(i))')
      BY <1>4, <2>6, <2>8 DEF Followed, Request
    <3>2. wpc \in Handing /\ cmd.thr = u =>
            cmd.work.tip < g_work.tip \/ (due = TRUE /\ (Free \/ Ahead(0))')
      BY <2>7, <2>8 DEF Followed
    <3>3. \A d \in delivered : d[1] = u => d[2] < g_work.tip \/ (due = TRUE /\ Coming(d[2])')
      BY <2>5, <2>8 DEF Followed
    <3>. QED  BY <1>2, <3>1, <3>2, <3>3 DEF Followed
  <2>9. ASSUME Below(u, Base(u)), u # t  PROVE Below(u, Base(u))'
    BY <1>2, <1>3, <1>4, <2>9 DEF Below, Base
  <2>10. CASE u = t
    BY <1>1, <1>3, <2>8, <2>10 DEF Behind, Resting, Mining, Scanning
  <2>11. CASE u # t
    BY <1>1, <1>3, <2>8, <2>9, <2>11 DEF Behind
  <2>. QED  BY <2>10, <2>11
<1>. QED  BY <1>5, <1>6, <1>7

(* The thread gets its answer, newer than all it has to be behind.         *)
LEMMA GotKeeps ==
  ASSUME IInv, AInv, OInv, NEW t \in ThreadIds, MinerGot(t)
  PROVE  Straight' /\ Tips' /\ Behind'
<1>1. Straight /\ Tips /\ Behind /\ Quiet
  BY DEF OInv
<1>2. UNCHANGED <<tip, delivered, accepted, g_work_lock, work, wq, wpc, cmd, ret>> /\ pc[t] = "await" /\ reply[t] # << >>
  BY DEF MinerGot, server, wvars, calls
<1>3. /\ g_work_lock = t /\ ~Free
      /\ \A j \in DOMAIN wq : wq[j] # Request(t)
      /\ DOMAIN reply[t] = {1}
      /\ wpc \in Fetching => pc[cmd.thr] = "left"
      /\ \A u \in ThreadIds : pc[u] \in Owning => u = t
  BY <1>2, GotAlone
<1>4. reply[t] \in Seq(Works) /\ reply \in [ThreadIds -> Seq(Works)]
  BY DEF IInv, TypeOK
<1>5. DOMAIN reply'[t] = {} /\ \A u \in ThreadIds : u # t => reply'[u] = reply[u]
  <2>1. reply' = [reply EXCEPT ![t] = Tail(reply[t])]
    BY DEF MinerGot
  <2>2. Len(reply[t]) \in Nat \ {0} /\ 1 .. Len(reply[t]) = {1} /\ DOMAIN Tail(reply[t]) = 1 .. Len(reply[t]) - 1
    BY <1>2, <1>3, <1>4, Shrunk
  <2>3. Len(reply[t]) = 1
    <3>1. Len(reply[t]) \in 1 .. Len(reply[t])
      BY <2>2
    <3>. QED  BY <2>2, <3>1
  <2>4. DOMAIN Tail(reply[t]) = {}
    BY <2>2, <2>3
  <2>. QED  BY <1>4, <2>1, <2>4
<1>6. g_work' = reply[t][1] /\ g_work' \in Works
  BY <1>2, <1>4, Shrunk DEF MinerGot
<1>7. g_work'.tip \in Nat /\ g_work.tip <= g_work'.tip /\ g_work'.tip <= tip /\ g_work'.swapped = FALSE
  BY <1>1, <1>2, <1>3, <1>6, Numbers DEF Tips, Straight
<1>8. due' = FALSE
  BY <1>1 DEF MinerGot, Quiet
<1>9. pc'[t] = "got" /\ \A u \in ThreadIds : u # t => pc'[u] = pc[u]
  BY DEF MinerGot, IInv, TypeOK
<1>10. Straight'
  <2>1. \A u \in ThreadIds : \A i \in DOMAIN reply'[u] : reply'[u][i].swapped = FALSE
    BY <1>1, <1>5 DEF Straight
  <2>. QED  BY <1>1, <1>2, <1>7, <2>1 DEF Straight
<1>11. Tips'
  <2>1. \A u \in ThreadIds : work[u].tip <= g_work'.tip
    BY <1>1, <1>7, Numbers DEF Tips
  <2>2. \A u \in ThreadIds : pc'[u] # "await"
    BY <1>3, <1>9 DEF Owning
  <2>3. ~(wpc \in {"info", "answer"} /\ pc'[cmd.thr] # "left")
    <3>1. cmd.thr \in ThreadIds \/ wpc \notin {"info", "answer"}
      BY DEF IInv, Queued
    <3>. QED  BY <1>2, <1>3, <1>9, <3>1 DEF Fetching
  <2>4. \A i \in DOMAIN wq : wq[i].work.tip <= g_work'.tip
    BY <1>1, <1>7, Numbers DEF Tips
  <2>5. cmd.work.tip <= g_work'.tip /\ \A d \in delivered : d[2] < tip /\ d[2] <= g_work'.tip
    BY <1>1, <1>7, Numbers DEF Tips
  <2>6. \A u \in ThreadIds : \A i \in DOMAIN reply'[u] : reply'[u][i].tip <= tip
    BY <1>1, <1>5 DEF Tips
  <2>7. ret.tip <= tip
    BY <1>1 DEF Tips
  <2>. QED  BY <1>2, <1>7, <2>1, <2>2, <2>3, <2>4, <2>5, <2>6, <2>7 DEF Tips
<1>12. Behind'
  <2>. SUFFICES ASSUME NEW u \in ThreadIds
                PROVE  /\ (pc[u] \in Resting)' => Followed(u)'
                       /\ (pc[u] \in Mining)' => Below(u, Base(u))'
    BY BehindStep
  <2>1. \A i : ~Ahead(i)
    BY <1>3 DEF Ahead
  <2>2. \A k : Coming(k) => k < g_work'.tip
    <3>. TAKE k
    <3>1. ~(wpc \in Fetching /\ cmd.thr = t)
      BY <1>2, <1>3
    <3>. QED  BY <1>2, <1>3, <1>6, <2>1, <3>1 DEF Coming
  <2>3. ASSUME Followed(u)  PROVE Below(u, g_work'.tip)
    <3>1. \A i \in DOMAIN wq : wq[i].cmd # "get" /\ wq[i].thr = u => wq[i].work.tip < g_work'.tip
      BY <1>1, <1>3, <1>7, <2>1, <2>3, Numbers DEF Followed
    <3>2. wpc \in Handing /\ cmd.thr = u => cmd.work.tip < g_work'.tip
      BY <1>1, <1>3, <1>7, <2>1, <2>3, Numbers DEF Followed
    <3>3. \A d \in delivered : d[1] = u => d[2] < g_work'.tip
      BY <1>1, <1>7, <2>2, <2>3, Numbers DEF Followed
    <3>. QED  BY <3>1, <3>2, <3>3 DEF Below
  <2>4. CASE u = t
    <3>1. Below(t, g_work'.tip)
      BY <1>1, <1>2, <2>3, <2>4 DEF Behind, Resting
    <3>2. Below(t, Base(t))'
      BY <1>2, <1>9, <3>1 DEF Below, Base
    <3>. QED  BY <1>9, <2>4, <3>2 DEF Resting
  <2>5. CASE u # t
    <3>1. pc[u] \in Resting => Followed(u)'
      <4>. SUFFICES ASSUME Below(u, g_work'.tip)  PROVE Followed(u)'
        BY <1>1, <2>3 DEF Behind
      <4>. QED  BY <1>2 DEF Below, Followed
    <3>2. pc[u] \in Mining => Below(u, Base(u))'
      <4>1. pc[u] # "got"
        BY <1>3, <2>5 DEF Owning
      <4>2. Below(u, Base(u))' <=> Below(u, Base(u))
        BY <1>2, <1>9, <2>5, <4>1 DEF Below, Base
      <4>. QED  BY <1>1, <4>2 DEF Behind
    <3>. QED  BY <1>9, <2>5, <3>1, <3>2
  <2>. QED  BY <2>4, <2>5
<1>. QED  BY <1>10, <1>11, <1>12

(* The thread goes on with its answer, and frees g_work_lock.              *)
LEMMA GoesOnKeeps ==
  ASSUME IInv, OInv, NEW t \in ThreadIds, MinerGoesOn(t)
  PROVE  Straight' /\ Tips' /\ Behind'
<1>1. Straight /\ Tips /\ Behind /\ Quiet
  BY DEF OInv
<1>2. /\ UNCHANGED <<tip, delivered, accepted, g_work, due, reply, wq, wpc, cmd, ret>>
      /\ pc[t] = "got" /\ g_work_lock' = NoOwner /\ have_stratum = FALSE
  BY <1>1 DEF MinerGoesOn, server, wvars, calls, Quiet
<1>3. pc'[t] = "scan" /\ \A u \in ThreadIds : u # t => pc'[u] = pc[u]
  BY <1>2 DEF MinerGoesOn, IInv, TypeOK
<1>4. PICK w \in {g_work} \cup (IF g_work.tip = work[t].tip THEN {work[t]} ELSE {}) :
        work' = [work EXCEPT ![t] = w]
  BY <1>2 DEF MinerGoesOn, Adopt
<1>5. w.tip = g_work.tip /\ w.swapped = FALSE
  BY <1>1, <1>4 DEF Straight
<1>6. work'[t] = w /\ \A u \in ThreadIds : u # t => work'[u] = work[u]
  BY <1>4 DEF IInv, TypeOK
<1>7. Straight'
  <2>1. \A u \in ThreadIds : work'[u].swapped = FALSE
    BY <1>1, <1>5, <1>6 DEF Straight
  <2>. QED  BY <1>1, <1>2, <2>1 DEF Straight
<1>8. Tips'
  <2>1. \A u \in ThreadIds : work'[u].tip <= g_work.tip
    BY <1>1, <1>5, <1>6, Numbers DEF Tips
  <2>2. \A u \in ThreadIds : pc'[u] = "await" /\ reply[u] # << >> => g_work.tip <= reply[u][1].tip
    BY <1>1, <1>3 DEF Tips
  <2>3. wpc \in {"info", "answer"} /\ pc'[cmd.thr] # "left" => g_work.tip <= ret.tip
    <3>1. cmd.thr \in ThreadIds \/ wpc \notin {"info", "answer"}
      BY DEF IInv, Queued
    <3>. QED  BY <1>1, <1>2, <1>3, <3>1 DEF Tips
  <2>. QED  BY <1>1, <1>2, <2>1, <2>2, <2>3 DEF Tips
<1>9. Behind'
  <2>. SUFFICES ASSUME NEW u \in ThreadIds
                PROVE  /\ (pc[u] \in Resting)' => Followed(u)'
                       /\ (pc[u] \in Mining)' => Below(u, Base(u))'
    BY BehindStep
  <2>1. CASE u = t
    <3>1. Below(t, g_work.tip)
      BY <1>1, <1>2 DEF Behind, Mining, Base
    <3>2. Below(t, Base(t))'
      BY <1>2, <1>3, <1>5, <1>6, <3>1 DEF Below, Base
    <3>. QED  BY <1>3, <2>1, <3>2 DEF Resting
  <2>2. CASE u # t
    <3>1. Followed(u) => Followed(u)'
      BY <1>2 DEF Followed, Free, Ahead, Coming
    <3>2. Below(u, Base(u))' <=> Below(u, Base(u))
      BY <1>2, <1>3, <1>6, <2>2 DEF Below, Base
    <3>. QED  BY <1>1, <1>3, <2>2, <3>1, <3>2 DEF Behind
  <2>. QED  BY <2>1, <2>2
<1>. QED  BY <1>7, <1>8, <1>9

(* What only makes g_work due, or frees its lock.                          *)
LEMMA DueKeeps ==
  ASSUME IInv, OInv,
         UNCHANGED <<delivered, g_work, work, reply, wq, wpc, cmd, ret>>,
         tip' \in Nat, tip <= tip',
         due = TRUE => due' = TRUE, g_work_lock' \in {g_work_lock, NoOwner},
         \A t \in ThreadIds : \/ pc'[t] = pc[t]
                              \/ pc'[t] = "left"
                              \/ pc[t] # "left" /\ pc'[t] = "lock" /\ due' = TRUE /\ g_work_lock' = NoOwner
  PROVE  Straight' /\ Tips' /\ Behind'
<1>1. Straight /\ Tips /\ Behind /\ Quiet
  BY DEF OInv
<1>2. Straight'
  BY <1>1 DEF Straight
<1>3. Tips'
  <2>1. \A u \in ThreadIds : pc'[u] = "await" /\ reply[u] # << >> => g_work.tip <= reply[u][1].tip
    BY <1>1 DEF Tips
  <2>2. wpc \in {"info", "answer"} /\ pc'[cmd.thr] # "left" => g_work.tip <= ret.tip
    <3>1. cmd.thr \in ThreadIds \/ wpc \notin {"info", "answer"}
      BY DEF IInv, Queued
    <3>. QED  BY <1>1, <3>1 DEF Tips
  <2>3. \A u \in ThreadIds : \A i \in DOMAIN reply[u] : reply[u][i].tip <= tip'
    BY <1>1, Numbers DEF Tips
  <2>4. g_work.tip <= tip' /\ ret.tip <= tip' /\ \A d \in delivered : d[2] < tip'
    BY <1>1, Numbers DEF Tips
  <2>. QED  BY <1>1, <2>1, <2>2, <2>3, <2>4 DEF Tips
<1>4. Behind'
  <2>. SUFFICES ASSUME NEW u \in ThreadIds
                PROVE  /\ (pc[u] \in Resting)' => Followed(u)'
                       /\ (pc[u] \in Mining)' => Below(u, Base(u))'
    BY BehindStep
  <2>1. \A i : Free \/ Ahead(i) => Free' \/ Ahead(i)'
    BY DEF Free, Ahead
  <2>2. \A k : Coming(k) => Coming(k)'
    BY DEF Free, Ahead, Coming
  <2>3. Followed(u) => Followed(u)'
    BY <2>1, <2>2 DEF Followed
  <2>4. pc'[u] = pc[u] => (Below(u, Base(u))' <=> Below(u, Base(u)))
    BY DEF Below, Base
  <2>5. CASE pc'[u] = pc[u]
    BY <1>1, <2>3, <2>4, <2>5 DEF Behind
  <2>6. CASE pc'[u] = "left"
    BY <2>6 DEF Resting, Mining, Scanning
  <2>7. CASE pc'[u] = "lock" /\ due' = TRUE /\ g_work_lock' = NoOwner
    <3>1. Followed(u)'
      BY <2>7 DEF Followed, Coming, Free
    <3>. QED  BY <2>7, <3>1 DEF Mining, Scanning
  <2>. QED  BY <2>5, <2>6, <2>7
<1>. QED  BY <1>2, <1>3, <1>4

LEMMA MinerOrder ==
  ASSUME IInv, AInv, OInv, NEW t \in ThreadIds, Miner(t)
  PROVE  Straight' /\ Tips' /\ Behind'
<1>1. Straight /\ Tips /\ Quiet /\ have_stratum = FALSE /\ have_longpoll = FALSE
  BY DEF OInv, Quiet
<1>2. pc \in [ThreadIds -> {"lock", "await", "got", "scan", "submit", "submitted", "zero", "left"}]
  BY DEF IInv, TypeOK
<1>3. tip \in Nat /\ work[t] \in Works
  BY DEF IInv, TypeOK
<1>4. CASE MinerTake(t)
  BY <1>4, TakeKeeps
<1>5. CASE MinerGot(t)
  BY <1>5, GotKeeps
<1>6. CASE MinerRequest(t)
  <2>1. /\ UNCHANGED <<server, g_work, due, work, reply, wpc, cmd, ret>>
        /\ pc[t] = "lock" /\ Free
    BY <1>6 DEF MinerRequest, wvars, calls, Free
  <2>2. CASE WorkioDead
    <3>1. pc' = [pc EXCEPT ![t] = "left"] /\ UNCHANGED <<wq, shared>>
      BY <1>6, <2>2 DEF MinerRequest, shared
    <3>. QED  BY <2>1, <3>1, MoveKeeps
  <2>3. CASE ~WorkioDead
    <3>1. wq' = Append(wq, Request(t)) /\ g_work_lock' = t /\ pc' = [pc EXCEPT ![t] = "await"]
      BY <1>6, <2>3 DEF MinerRequest
    <3>2. reply[t] = << >>
      BY <2>1, NoneHeld
    <3>3. /\ Request(t) \in Cmds /\ Request(t).thr = t
          /\ Request(t).work.tip <= g_work.tip /\ Request(t).work.swapped = FALSE
      <4>1. Request(t).work = NoWork /\ Request(t).thr = t /\ NoWork.tip = 0 /\ NoWork.swapped = FALSE
        BY DEF Request, NoWork
      <4>2. g_work.tip \in Nat
        BY <1>1, Numbers
      <4>. QED  BY <4>1, <4>2, Asking
    <3>. QED  BY <2>1, <3>1, <3>2, <3>3, PushKeeps
  <2>. QED  BY <2>2, <2>3
<1>7. CASE MinerSubmit(t)
  <2>1. UNCHANGED <<server, shared, work, reply, wpc, cmd, ret>> /\ pc[t] = "submit"
    BY <1>7 DEF MinerSubmit, wvars, calls
  <2>2. CASE WorkioDead
    <3>1. pc' = [pc EXCEPT ![t] = "left"] /\ UNCHANGED wq
      BY <1>7, <2>2 DEF MinerSubmit
    <3>. QED  BY <2>1, <3>1, MoveKeeps
  <2>3. CASE ~WorkioDead
    <3>1. wq' = Append(wq, Submission(t)) /\ pc' = [pc EXCEPT ![t] = "submitted"]
      BY <1>7, <2>3 DEF MinerSubmit
    <3>2. /\ Submission(t) \in Cmds /\ Submission(t).thr = t
          /\ Submission(t).work.tip <= g_work.tip /\ Submission(t).work.swapped = FALSE
      BY <1>1, <1>3 DEF Submission, Cmds, Tips, Straight
    <3>3. UNCHANGED <<g_work, due, g_work_lock>>
      BY <2>1 DEF shared
    <3>. QED  BY <2>1, <3>1, <3>2, <3>3, PushKeeps
  <2>. QED  BY <2>2, <2>3
<1>8. CASE MinerScanEnd(t) \/ MinerFound(t) \/ MinerSubmitted(t)
  <2>1. UNCHANGED <<server, shared, work, reply, wq, wpc, cmd, ret>> /\ pc[t] \in {"scan", "submitted"}
    BY <1>8 DEF MinerScanEnd, MinerFound, MinerSubmitted, wvars, calls
  <2>2. \/ pc[t] = "scan" /\ pc' = [pc EXCEPT ![t] = "lock"]
        \/ pc[t] = "scan" /\ pc' = [pc EXCEPT ![t] = "submit"]
        \/ pc' = [pc EXCEPT ![t] = "zero"]
    BY <1>1, <1>8 DEF MinerScanEnd, MinerFound, MinerSubmitted
  <2>. QED  BY <2>1, <2>2, MoveKeeps
<1>9. CASE MinerZero(t) \/ MinerWoken(t)
  <2>1. UNCHANGED <<tip, delivered, g_work, work, reply, wq, wpc, cmd, ret>>
    BY <1>9 DEF MinerZero, MinerWoken, wvars, calls, server
  <2>2. /\ due = TRUE => due' = TRUE
        /\ g_work_lock' \in {g_work_lock, NoOwner}
        /\ \/ pc' = [pc EXCEPT ![t] = "left"]
           \/ pc[t] = "zero" /\ pc' = [pc EXCEPT ![t] = "lock"] /\ due' = TRUE /\ g_work_lock' = NoOwner
    BY <1>9 DEF MinerZero, MinerWoken
  <2>3. \A u \in ThreadIds : \/ pc'[u] = pc[u]
                             \/ pc'[u] = "left"
                             \/ pc[u] # "left" /\ pc'[u] = "lock" /\ due' = TRUE /\ g_work_lock' = NoOwner
    BY <1>2, <2>2
  <2>4. tip' \in Nat /\ tip <= tip'
    BY <1>3, <2>1
  <2>. QED  BY <2>1, <2>2, <2>3, <2>4, DueKeeps
<1>10. CASE MinerGoesOn(t)
  BY <1>10, GoesOnKeeps
<1>. QED  BY <1>4, <1>5, <1>6, <1>7, <1>8, <1>9, <1>10 DEF Miner

-----------------------------------------------------------------------------
(* The workio thread                                                       *)

(* Its queue loses its head: what was behind place i + 1 is behind i.      *)
LEMMA PopKeeps ==
  ASSUME IInv, OInv, WioPop, UNCHANGED <<shared, mvars>>
  PROVE  Straight' /\ Tips' /\ Behind'
<1>1. Straight /\ Tips /\ Behind /\ Quiet
  BY DEF OInv
<1>2. UNCHANGED <<tip, delivered, accepted, g_work, due, g_work_lock, pc, work, reply, ret>>
  BY DEF WioPop, server, shared, mvars
<1>3. /\ wpc = "pop" /\ cmd' = Head(wq) /\ wq' = Tail(wq) /\ wq # << >>
      /\ wpc' = IF Head(wq).cmd = "get" THEN "fetch" ELSE "check"
  BY DEF WioPop
<1>4. /\ Len(wq) \in Nat \ {0} /\ DOMAIN wq = 1 .. Len(wq) /\ DOMAIN wq' = 1 .. Len(wq) - 1
      /\ cmd' = wq[1] /\ \A i \in 1 .. Len(wq) - 1 : wq'[i] = wq[i + 1]
  BY <1>1, <1>3, Numbers, Shrunk
<1>5. 1 \in DOMAIN wq /\ \A i \in DOMAIN wq' : i + 1 \in DOMAIN wq /\ wq'[i] = wq[i + 1]
  BY <1>4
<1>6. Straight'
  <2>1. \A i \in DOMAIN wq' : wq'[i].work.swapped = FALSE
    BY <1>1, <1>5 DEF Straight
  <2>2. wpc' \notin {"submitinfo", "solved", "send"}
    BY <1>3
  <2>. QED  BY <1>1, <1>2, <2>1, <2>2 DEF Straight
<1>7. Tips'
  <2>1. \A i \in DOMAIN wq' : wq'[i].work.tip <= g_work.tip
    BY <1>1, <1>5 DEF Tips
  <2>2. wpc' \notin {"info", "answer"}
    BY <1>3
  <2>3. cmd'.work.tip <= g_work.tip
    BY <1>1, <1>4, <1>5 DEF Tips
  <2>. QED  BY <1>1, <1>2, <2>1, <2>2, <2>3 DEF Tips
<1>8. Behind'
  <2>. SUFFICES ASSUME NEW u \in ThreadIds
                PROVE  /\ (pc[u] \in Resting)' => Followed(u)'
                       /\ (pc[u] \in Mining)' => Below(u, Base(u))'
    BY BehindStep
  <2>1. \A i \in Nat : Ahead(i + 1) => Ahead(i)'
    <3>. SUFFICES ASSUME NEW i \in Nat, NEW j \in DOMAIN wq, i + 1 < j, wq[j] = Request(g_work_lock)
                  PROVE  Ahead(i)'
      BY DEF Ahead
    <3>1. j - 1 \in DOMAIN wq' /\ i < j - 1 /\ wq'[j - 1] = wq[j]
      BY <1>4
    <3>. QED  BY <1>2, <3>1 DEF Ahead
  <2>2. Ahead(0) => Ahead(0)' \/ (wpc' = "fetch" /\ cmd'.thr = g_work_lock)
    <3>. SUFFICES ASSUME NEW j \in DOMAIN wq, wq[j] = Request(g_work_lock)
                  PROVE  Ahead(0)' \/ (wpc' = "fetch" /\ cmd'.thr = g_work_lock)
      BY DEF Ahead
    <3>1. CASE j = 1
      <4>1. Head(wq).cmd = "get" /\ cmd'.thr = g_work_lock
        BY <1>3, <1>4, <3>1 DEF Request
      <4>. QED  BY <1>3, <4>1
    <3>2. CASE j # 1
      <4>1. j - 1 \in DOMAIN wq' /\ 0 < j - 1 /\ wq'[j - 1] = wq[j]
        BY <1>4, <3>2
      <4>. QED  BY <1>2, <4>1 DEF Ahead
    <3>. QED  BY <3>1, <3>2
  <2>3. \A k : Coming(k) => Coming(k)'
    <3>. TAKE k
    <3>1. wpc \notin Fetching /\ wpc \notin Frozen
      BY <1>3 DEF Fetching, Frozen
    <3>2. CASE Free \/ (reply[g_work_lock] # << >> /\ k < reply[g_work_lock][1].tip)
      BY <1>2, <3>2 DEF Coming, Free
    <3>3. CASE Ahead(0)
      BY <1>2, <2>2, <3>3 DEF Coming, Fetching
    <3>. QED  BY <3>1, <3>2, <3>3 DEF Coming
  <2>4. ASSUME Followed(u)  PROVE Followed(u)'
    <3>1. \A i \in DOMAIN wq' : wq'[i].cmd # "get" /\ wq'[i].thr = u =>
            wq'[i].work.tip < g_work.tip \/ (due = TRUE /\ (Free \/ Ahead(i)'))
      <4>1. DOMAIN wq' \subseteq Nat
        BY <1>4
      <4>. QED  BY <1>5, <2>1, <2>4, <4>1 DEF Followed
    <3>2. wpc' \in Handing /\ cmd'.thr = u =>
            cmd'.work.tip < g_work.tip \/ (due = TRUE /\ (Free \/ Ahead(0)'))
      <4>. SUFFICES ASSUME wpc' \in Handing, cmd'.thr = u
                    PROVE  cmd'.work.tip < g_work.tip \/ (due = TRUE /\ (Free \/ Ahead(0)'))
        OBVIOUS
      <4>1. wq[1].cmd # "get" /\ wq[1].thr = u
        BY <1>3, <1>4 DEF Handing
      <4>2. wq[1].work.tip < g_work.tip \/ (due = TRUE /\ (Free \/ Ahead(1)))
        BY <1>5, <2>4, <4>1 DEF Followed
      <4>3. Ahead(1) => Ahead(0)'
        BY <2>1
      <4>. QED  BY <1>4, <4>2, <4>3
    <3>3. \A d \in delivered : d[1] = u => d[2] < g_work.tip \/ (due = TRUE /\ Coming(d[2])')
      BY <2>3, <2>4 DEF Followed
    <3>. QED  BY <1>2, <3>1, <3>2, <3>3 DEF Followed, Free
  <2>5. ASSUME Below(u, Base(u))  PROVE Below(u, Base(u))'
    <3>1. \A i \in DOMAIN wq' : wq'[i].cmd # "get" /\ wq'[i].thr = u => wq'[i].work.tip < Base(u)
      BY <1>5, <2>5 DEF Below
    <3>2. wpc' \in Handing /\ cmd'.thr = u => cmd'.work.tip < Base(u)
      BY <1>3, <1>4, <1>5, <2>5 DEF Below, Handing
    <3>. QED  BY <1>2, <2>5, <3>1, <3>2 DEF Below, Base
  <2>. QED  BY <1>1, <1>2, <2>4, <2>5 DEF Behind
<1>. QED  BY <1>6, <1>7, <1>8

(* A call, an answer to the server's getmininginfo or its failure, or a    *)
(* command given up.                                                       *)
LEMMA CallKeeps ==
  ASSUME IInv, AInv, OInv, UNCHANGED <<shared, mvars>>,
         Stops \/ Fetches \/ Calls \/ Passes \/ Drops
  PROVE  Straight' /\ Tips' /\ Behind'
<1>1. Straight /\ Tips /\ Behind /\ Quiet
  BY DEF OInv
<1>2. UNCHANGED <<tip, delivered, accepted, g_work, due, g_work_lock, pc, work, reply, wq>>
  BY DEF Stops, Fetches, Calls, Passes, Drops, server, shared, mvars
<1>3. /\ cmd' = cmd \/ cmd' = NoCmd
      /\ wpc' \in Handing => wpc \in Handing /\ cmd' = cmd
      /\ wpc' \in {"info", "answer"} => cmd' = cmd
  BY DEF Stops, Fetches, Calls, Passes, Drops, CmdDone, Handing, Frozen
<1>4. NoCmd.work.tip = 0 /\ g_work.tip \in Nat /\ tip \in Nat /\ NoWork.tip = 0 /\ NoWork.swapped = FALSE
  BY <1>1, Numbers, NoCmdType DEF NoWork
<1>5. Straight'
  <2>1. ret'.swapped = FALSE
    BY <1>1, <1>4 DEF Straight, Stops, Fetches, Calls, Passes, Drops, CmdDone
  <2>2. wpc' \in {"submitinfo", "solved", "send"} => cmd'.work.swapped = FALSE
    <3>. SUFFICES ASSUME wpc' \in {"submitinfo", "solved", "send"}  PROVE cmd.work.swapped = FALSE
      BY <1>3 DEF Handing
    <3>1. Passes
      BY DEF Stops, Fetches, Calls, Drops, CmdDone, Frozen
    <3>. QED  BY <1>1, <3>1 DEF Passes, SamePrevhash, Straight
  <2>. QED  BY <1>1, <1>2, <2>1, <2>2 DEF Straight
<1>6. Tips'
  <2>1. cmd'.work.tip <= g_work.tip
    BY <1>1, <1>3, <1>4 DEF Tips
  <2>2. ret'.tip <= tip
    <3>1. ret'.tip \in {0, tip, ret.tip}
      BY <1>4 DEF Stops, Fetches, Calls, Passes, Drops, CmdDone
    <3>. QED  BY <1>1, <1>4, <3>1 DEF Tips
  <2>3. wpc' \in {"info", "answer"} /\ pc[cmd'.thr] # "left" => g_work.tip <= ret'.tip
    <3>. SUFFICES ASSUME wpc' \in {"info", "answer"}, pc[cmd.thr] # "left"  PROVE g_work.tip <= ret'.tip
      BY <1>3
    <3>1. Fetches \/ (Calls /\ wpc = "info")
      BY DEF Stops, Calls, Passes, Drops, CmdDone, Frozen
    <3>2. CASE Fetches
      BY <1>1, <3>2 DEF Fetches, Tips
    <3>3. CASE Calls /\ wpc = "info"
      BY <1>1, <3>3 DEF Calls, Tips
    <3>. QED  BY <3>1, <3>2, <3>3
  <2>. QED  BY <1>1, <1>2, <2>1, <2>2, <2>3 DEF Tips
<1>7. Behind'
  <2>. SUFFICES ASSUME NEW u \in ThreadIds
                PROVE  /\ (pc[u] \in Resting)' => Followed(u)'
                       /\ (pc[u] \in Mining)' => Below(u, Base(u))'
    BY BehindStep
  <2>1. \A i : Ahead(i)' <=> Ahead(i)
    BY <1>2 DEF Ahead
  <2>2. \A d \in delivered : Coming(d[2]) => Coming(d[2])'
    <3>. TAKE d \in delivered
    <3>1. CASE Free \/ Ahead(0) \/ (reply[g_work_lock] # << >> /\ d[2] < reply[g_work_lock][1].tip)
      BY <1>2, <2>1, <3>1 DEF Coming, Free
    <3>2. CASE wpc \in Fetching /\ cmd.thr = g_work_lock /\ (wpc \in {"info", "answer"} => d[2] < ret.tip)
      <4>1. CASE Free
        BY <1>2, <4>1 DEF Coming, Free
      <4>2. CASE ~Free
        <5>1. g_work_lock \in ThreadIds /\ pc[g_work_lock] # "left"
          BY <4>2 DEF IInv, TypeOK, Free, AInv, Owns, Owning
        <5>2. reply[g_work_lock] = << >>
          BY <3>2, <5>1, ServedAlone
        <5>3. CASE Fetches
          <6>1. d[2] < tip
            BY <1>1 DEF Tips
          <6>. QED  BY <1>2, <3>2, <5>3, <6>1 DEF Fetches, Coming, Fetching
        <5>4. CASE Calls
          <6>1. CASE wpc' = "freeze"
            BY <1>2, <5>2, <6>1 DEF Coming, Frozen
          <6>2. CASE wpc' # "freeze"
            BY <1>2, <3>2, <5>4, <6>2 DEF Calls, Coming, Fetching
          <6>. QED  BY <6>1, <6>2
        <5>. QED  BY <3>2, <5>3, <5>4 DEF Stops, Passes, Drops, Fetching
      <4>. QED  BY <4>1, <4>2
    <3>3. CASE wpc \in Frozen /\ reply[g_work_lock] = << >>
      <4>1. Stops
        BY <3>3 DEF Frozen, Fetches, Calls, Passes, Drops, Fetching
      <4>. QED  BY <1>2, <3>3, <4>1 DEF Stops, Coming
    <3>. QED  BY <3>1, <3>2, <3>3 DEF Coming
  <2>3. ASSUME Followed(u)  PROVE Followed(u)'
    <3>1. \A i \in DOMAIN wq : wq[i].cmd # "get" /\ wq[i].thr = u =>
            wq[i].work.tip < g_work.tip \/ (due = TRUE /\ (Free \/ Ahead(i)'))
      BY <2>1, <2>3 DEF Followed
    <3>2. wpc' \in Handing /\ cmd'.thr = u =>
            cmd'.work.tip < g_work.tip \/ (due = TRUE /\ (Free \/ Ahead(0)'))
      BY <1>3, <2>1, <2>3 DEF Followed
    <3>3. \A d \in delivered : d[1] = u => d[2] < g_work.tip \/ (due = TRUE /\ Coming(d[2])')
      BY <2>2, <2>3 DEF Followed
    <3>. QED  BY <1>2, <3>1, <3>2, <3>3 DEF Followed, Free
  <2>4. ASSUME Below(u, Base(u))  PROVE Below(u, Base(u))'
    BY <1>2, <1>3, <2>4 DEF Below, Base
  <2>. QED  BY <1>1, <1>2, <2>3, <2>4 DEF Behind
<1>. QED  BY <1>5, <1>6, <1>7

(* The answer goes to the thread that waits for it.                        *)
LEMMA AnswerKeeps ==
  ASSUME IInv, AInv, OInv, WioAnswer, UNCHANGED <<shared, mvars>>
  PROVE  Straight' /\ Tips' /\ Behind'
<1>1. Straight /\ Tips /\ Behind /\ Quiet
  BY DEF OInv
<1>2. /\ UNCHANGED <<tip, delivered, accepted, g_work, due, g_work_lock, pc, work, wq>>
      /\ wpc = "answer" /\ wpc' = "pop" /\ cmd' = NoCmd /\ ret' = NoWork
  BY DEF WioAnswer, CmdDone, server, shared, mvars
<1>3. NoCmd.work.tip = 0 /\ g_work.tip \in Nat /\ tip \in Nat /\ NoWork.tip = 0 /\ NoWork.swapped = FALSE
  BY <1>1, Numbers, NoCmdType DEF NoWork
<1>4. cmd.thr \in ThreadIds /\ reply \in [ThreadIds -> Seq(Works)] /\ ret \in Works
  BY <1>2 DEF IInv, Queued, TypeOK
<1>5. CASE pc[cmd.thr] = "left"
  <2>1. reply' = reply
    BY <1>5 DEF WioAnswer
  <2>2. Straight'
    BY <1>1, <1>2, <1>3, <2>1 DEF Straight
  <2>3. Tips'
    BY <1>1, <1>2, <1>3, <2>1 DEF Tips
  <2>4. ASSUME NEW u \in ThreadIds
        PROVE  /\ Followed(u) => Followed(u)'
               /\ Below(u, Base(u)) => Below(u, Base(u))'
    <3>1. \A i : Ahead(i)' <=> Ahead(i)
      BY <1>2 DEF Ahead
    <3>2. \A k : Coming(k) => Coming(k)'
      <4>. SUFFICES ASSUME NEW k, wpc \in Fetching, cmd.thr = g_work_lock  PROVE Coming(k)'
        BY <1>2, <2>1, <3>1 DEF Coming, Free, Frozen
      <4>1. pc[g_work_lock] # "left"
        BY <1>4 DEF AInv, Owns, Owning
      <4>. QED  BY <1>5, <4>1
    <3>. QED  BY <1>2, <3>1, <3>2 DEF Followed, Below, Base, Free, Handing
  <2>5. Behind'
    BY <1>1, <1>2, <2>4, BehindStep DEF Behind
  <2>. QED  BY <2>2, <2>3, <2>5
<1>6. CASE pc[cmd.thr] # "left"
  <2>1. pc[cmd.thr] = "await" /\ g_work_lock = cmd.thr /\ reply[cmd.thr] = << >>
    BY <1>2, <1>6, ServedAlone DEF Fetching
  <2>2. reply'[cmd.thr] = <<ret>> /\ \A u \in ThreadIds : u # cmd.thr => reply'[u] = reply[u]
    BY <1>4, <1>6, <2>1 DEF WioAnswer
  <2>3. reply'[cmd.thr] # << >> /\ reply'[cmd.thr][1] = ret /\ DOMAIN reply'[cmd.thr] = {1}
    BY <2>2
  <2>4. Straight'
    BY <1>1, <1>2, <1>3, <2>2, <2>3 DEF Straight
  <2>5. Tips'
    <3>1. \A u \in ThreadIds : \A i \in DOMAIN reply'[u] : reply'[u][i].tip <= tip
      BY <1>1, <2>2, <2>3 DEF Tips
    <3>2. \A u \in ThreadIds : pc[u] = "await" /\ reply'[u] # << >> => g_work.tip <= reply'[u][1].tip
      BY <1>1, <1>2, <1>6, <2>2, <2>3 DEF Tips
    <3>. QED  BY <1>1, <1>2, <1>3, <3>1, <3>2 DEF Tips
  <2>6. ASSUME NEW u \in ThreadIds
        PROVE  /\ Followed(u) => Followed(u)'
               /\ Below(u, Base(u)) => Below(u, Base(u))'
    <3>1. \A i : Ahead(i)' <=> Ahead(i)
      BY <1>2 DEF Ahead
    <3>2. \A k : Coming(k) => Coming(k)'
      BY <1>2, <2>1, <2>3, <3>1 DEF Coming, Free, Frozen
    <3>. QED  BY <1>2, <3>1, <3>2 DEF Followed, Below, Base, Free, Handing
  <2>7. Behind'
    BY <1>1, <1>2, <2>6, BehindStep DEF Behind
  <2>. QED  BY <2>4, <2>5, <2>7
<1>. QED  BY <1>5, <1>6

(* The solution goes to the server, which may have gone on; or it is left  *)
(* for another call, in the other byte order.                              *)
LEMMA HandInKeeps ==
  ASSUME IInv, OInv, HandsIn, UNCHANGED <<shared, mvars>>
  PROVE  Straight' /\ Tips' /\ Behind'
<1>1. Straight /\ Tips /\ Behind /\ Quiet
  BY DEF OInv
<1>2. UNCHANGED <<g_work, due, g_work_lock, pc, work, reply, wq>> /\ wpc = "send"
  BY DEF HandsIn, shared, mvars
<1>3. /\ wpc' \in {"pop", "check", "freeze"} /\ (wpc' = "check" => cmd'.thr = cmd.thr)
      /\ cmd'.work.tip \in {0, cmd.work.tip} /\ (wpc' = "check" => cmd'.work.tip = cmd.work.tip)
      /\ ret' = ret \/ ret' = NoWork
  <2>1. CASE CmdDone
    BY <2>1, NoCmdType DEF CmdDone
  <2>2. CASE Again
    <3>1. cmd \in Cmds
      BY DEF IInv, TypeOK
    <3>2. cmd'.thr = cmd.thr /\ cmd'.work = Encoded(cmd.work)
      BY <2>2, <3>1 DEF Again, Cmds
    <3>3. Encoded(cmd.work).tip = cmd.work.tip
      BY <3>1, EncodedOK DEF Cmds
    <3>. QED  BY <2>2, <3>2, <3>3 DEF Again
  <2>. QED  BY <2>1, <2>2 DEF HandsIn
<1>4. tip \in Nat /\ g_work.tip \in Nat /\ cmd.work.tip \in Nat /\ NoWork.tip = 0 /\ NoWork.swapped = FALSE
  BY <1>1, Numbers DEF NoWork
<1>5. \/ delivered' = delivered
      \/ delivered' = delivered \cup {<<cmd.thr, cmd.work.tip>>}
  BY DEF HandsIn, Deliver, server
<1>6. tip' \in Nat /\ tip <= tip' /\ (delivered' # delivered => cmd.work.tip < tip')
  <2>1. CASE UNCHANGED server
    BY <1>4, <2>1 DEF server
  <2>2. CASE Deliver
    <3>1. cmd.work.swapped = FALSE /\ cmd.work.tip <= tip
      BY <1>1, <1>2, <1>4 DEF Straight, Tips
    <3>2. tip' = IF cmd.work.tip = tip THEN tip + 1 ELSE tip
      BY <2>2, <3>1 DEF Deliver
    <3>. QED  BY <1>4, <3>1, <3>2
  <2>. QED  BY <2>1, <2>2 DEF HandsIn
<1>7. Straight'
  BY <1>1, <1>2, <1>3, <1>4 DEF Straight
<1>8. Tips'
  <2>1. \A d \in delivered' : d[2] < tip' /\ d[2] <= g_work.tip
    <3>1. \A d \in delivered : d[2] < tip' /\ d[2] <= g_work.tip
      BY <1>1, <1>6, Numbers DEF Tips
    <3>2. cmd.work.tip <= g_work.tip
      BY <1>1 DEF Tips
    <3>. QED  BY <1>5, <1>6, <3>1, <3>2
  <2>2. cmd'.work.tip <= g_work.tip
    BY <1>1, <1>3, <1>4 DEF Tips
  <2>3. g_work.tip <= tip' /\ ret'.tip <= tip'
    BY <1>1, <1>3, <1>4, <1>6, Numbers DEF Tips
  <2>4. \A u \in ThreadIds : \A i \in DOMAIN reply[u] : reply[u][i].tip <= tip'
    BY <1>1, <1>6, Numbers DEF Tips
  <2>5. wpc' \notin {"info", "answer"}
    BY <1>3
  <2>. QED  BY <1>1, <1>2, <2>1, <2>2, <2>3, <2>4, <2>5 DEF Tips
<1>9. ASSUME NEW u \in ThreadIds
      PROVE  /\ Followed(u) => Followed(u)'
             /\ Below(u, Base(u)) => Below(u, Base(u))'
  <2>1. \A i : Ahead(i)' <=> Ahead(i)
    BY <1>2 DEF Ahead
  <2>2. \A k : Coming(k) => Coming(k)'
    BY <1>2, <2>1 DEF Coming, Free, Fetching, Frozen
  <2>3. ASSUME Followed(u)  PROVE Followed(u)'
    <3>1. \A i \in DOMAIN wq : wq[i].cmd # "get" /\ wq[i].thr = u =>
            wq[i].work.tip < g_work.tip \/ (due = TRUE /\ (Free \/ Ahead(i)'))
      BY <2>1, <2>3 DEF Followed
    <3>2. cmd.thr = u => cmd.work.tip < g_work.tip \/ (due = TRUE /\ (Free \/ Ahead(0)'))
      BY <1>2, <2>1, <2>3 DEF Followed, Handing
    <3>3. \A d \in delivered : d[1] = u => d[2] < g_work.tip \/ (due = TRUE /\ Coming(d[2])')
      BY <2>2, <2>3 DEF Followed
    <3>4. \A d \in delivered' : d[1] = u => d[2] < g_work.tip \/ (due = TRUE /\ Coming(d[2])')
      <4>1. \A k : Free \/ Ahead(0)' => Coming(k)'
        BY <1>2 DEF Coming, Free
      <4>. QED  BY <1>5, <3>2, <3>3, <4>1
    <3>. QED  BY <1>2, <1>3, <3>1, <3>2, <3>4 DEF Followed, Free, Handing
  <2>4. ASSUME Below(u, Base(u))  PROVE Below(u, Base(u))'
    <3>1. cmd.thr = u => cmd.work.tip < Base(u)
      BY <1>2, <2>4 DEF Below, Handing
    <3>. QED  BY <1>2, <1>3, <1>5, <2>4, <3>1 DEF Below, Base, Handing
  <2>. QED  BY <2>3, <2>4
<1>10. Behind'
  BY <1>1, <1>2, <1>9, BehindStep DEF Behind
<1>. QED  BY <1>7, <1>8, <1>10

-----------------------------------------------------------------------------
(* The theorems                                                            *)

LEMMA OrderInit ==
  ASSUME Init  PROVE OInv
<1>1. /\ tip = 1 /\ delivered = {} /\ g_work = NoWork /\ due = TRUE /\ Free
      /\ \A t \in ThreadIds : pc[t] = "lock" /\ work[t] = NoWork /\ reply[t] = << >>
      /\ wq = << >> /\ wpc = "pop" /\ cmd = NoCmd /\ ret = NoWork
      /\ have_longpoll = FALSE /\ have_stratum = FALSE /\ submit_old = FALSE /\ paths = 0 /\ lpc = "pop"
  BY DEF Init, Free
<1>2. NoWork.tip = 0 /\ NoWork.swapped = FALSE /\ NoCmd.work = NoWork /\ DOMAIN << >> = {}
  BY DEF NoWork, NoCmd
<1>3. Quiet /\ Straight /\ Tips
  BY <1>1, <1>2 DEF Quiet, Straight, Tips
<1>4. Behind
  BY <1>1, DueFollowed DEF Behind, Mining, Scanning
<1>. QED  BY <1>3, <1>4 DEF OInv

LEMMA OrderNext ==
  ASSUME NodeOnly, IInv, AInv, OInv, [Next]_vars
  PROVE  OInv'
<1>1. Quiet
  BY DEF OInv
<1>2. Quiet'
  BY <1>1, QuietKept
<1>. SUFFICES Straight' /\ Tips' /\ Behind'
  BY <1>2 DEF OInv
<1>3. CASE Workio
  BY <1>1, <1>3, WorkioMoves, PopKeeps, AnswerKeeps, CallKeeps, HandInKeeps
<1>4. CASE \E t \in ThreadIds : Miner(t)
  BY <1>4, MinerOrder
<1>5. CASE Longpoll \/ StratumJob \/ NewBlock \/ Age \/ UNCHANGED vars
  <2>1. ~StratumJob
    BY <1>1 DEF StratumJob, Quiet
  <2>2. Longpoll => PollWoken
    BY <1>1, PollIdle
  <2>3. /\ UNCHANGED <<delivered, g_work, g_work_lock, pc, work, reply, wq, wpc, cmd, ret>>
        /\ tip' = tip \/ tip' = tip + 1
        /\ due' = due \/ due' = TRUE
    BY <1>5, <2>1, <2>2 DEF PollWoken, NewBlock, Age, vars, server, shared, mvars, wvars, calls
  <2>4. tip \in Nat
    BY DEF IInv, TypeOK
  <2>5. tip' \in Nat /\ tip <= tip'
    BY <2>3, <2>4
  <2>. QED  BY <2>3, <2>5, DueKeeps
<1>. QED  BY <1>3, <1>4, <1>5 DEF Next

(* The invariant holds wherever there is neither long polling nor a switch *)
(* to stratum: in any order of steps, a solution handed in is of an older  *)
(* block than whatever its thread mines on, or will mine on.               *)
THEOREM OrderInductive == NodeOnly => (Spec => [](IInv /\ AInv /\ OInv))
<1>. SUFFICES ASSUME NodeOnly  PROVE Spec => [](IInv /\ AInv /\ OInv)
  OBVIOUS
<1>1. Init => OInv
  BY OrderInit
<1>2. IInv /\ AInv /\ OInv /\ [Next]_vars => OInv'
  BY OrderNext
<1>. QED  BY <1>1, <1>2, AnswersInductive, PTL DEF Spec

(* submit_work sets g_work_time to 0 when there is no long polling, so     *)
(* that "a block can't be submitted twice": with a node or getwork server  *)
(* and neither long polling nor a switch to stratum, no thread scans work  *)
(* of a block that it has handed in a solution of, however many threads    *)
(* there are and whatever calls fail.                                      *)
THEOREM NeverTheBlockItSolved == NodeOnly => (Spec => []FreshAfterBlock)
<1>. SUFFICES ASSUME NodeOnly  PROVE Spec => []FreshAfterBlock
  OBVIOUS
<1>1. IInv /\ OInv => FreshAfterBlock
  <2>. SUFFICES ASSUME IInv, OInv, NEW t \in ThreadIds, pc[t] = "scan", <<t, work[t].tip>> \in delivered
                PROVE  FALSE
    BY DEF FreshAfterBlock
  <2>1. Below(t, work[t].tip) /\ work[t].tip \in Nat
    BY Numbers DEF OInv, Behind, Base, Mining, Scanning
  <2>2. work[t].tip < work[t].tip
    BY <2>1 DEF Below
  <2>. QED  BY <2>1, <2>2
<1>. QED  BY <1>1, OrderInductive, PTL

-----------------------------------------------------------------------------
(* Where works come from                                                   *)

(* The works of the threads, of g_work and of the queues.                  *)
Around ==
  {g_work, cmd.work} \cup {work[t] : t \in ThreadIds} \cup {wq[i].work : i \in DOMAIN wq}
  \cup UNION {{reply[t][i] : i \in DOMAIN reply[t]} : t \in ThreadIds}

LEMMA AroundTypes ==
  ASSUME IInv, Quiet
  PROVE  /\ \A w \in Around : w \in Works /\ w.tip \in Nat
         /\ ret \in Works /\ ret.tip \in Nat /\ NoWork \in Works
         /\ cmd.work \in Around /\ g_work \in Around /\ \A t \in ThreadIds : work[t] \in Around
<1>1. /\ g_work \in Works /\ ret \in Works /\ cmd \in Cmds /\ work \in [ThreadIds -> Works]
      /\ reply \in [ThreadIds -> Seq(Works)] /\ wq \in Seq(Cmds)
  BY DEF IInv, TypeOK
<1>2. cmd.work \in Works /\ \A i \in DOMAIN wq : wq[i].work \in Works
  <2>1. \A c \in Cmds : c.work \in Works
    BY DEF Cmds
  <2>2. \A i \in DOMAIN wq : wq[i] \in Cmds
    BY <1>1
  <2>. QED  BY <1>1, <2>1, <2>2
<1>3. \A t \in ThreadIds : \A i \in DOMAIN reply[t] : reply[t][i] \in Works
  BY <1>1
<1>4. \A w \in Around : w \in Works
  BY <1>1, <1>2, <1>3 DEF Around
<1>5. \A w \in Around : w.tip \in Nat
  BY Numbers DEF Around
<1>. QED  BY <1>1, <1>4, <1>5, Numbers, NoWorkType DEF Around

(* None is new but the answer of the server, and a work that was encoded   *)
(* for a call that failed.                                                 *)
LEMMA AroundStep ==
  ASSUME NodeOnly, IInv, Quiet, [Next]_vars, NEW w \in Around'
  PROVE  \/ w \in Around \/ w = NoWork
         \/ wpc = "answer" /\ w = ret
         \/ wpc = "send" /\ w = Encoded(cmd.work)
<1>1. /\ g_work \in Works /\ ret \in Works /\ cmd \in Cmds /\ work \in [ThreadIds -> Works]
      /\ reply \in [ThreadIds -> Seq(Works)] /\ wq \in Seq(Cmds)
  BY DEF IInv, TypeOK
<1>2. CASE Workio
  <2>1. UNCHANGED <<g_work, work>>
    BY <1>2, WorkioMoves DEF shared, mvars
  <2>2. \A i \in DOMAIN wq' : \E k \in DOMAIN wq : wq'[i] = wq[k]
    <3>1. CASE WioPop
      BY <1>1, <3>1, Shrunk DEF WioPop
    <3>2. CASE ~WioPop
      <4>1. wq' = wq
        BY <1>2, <3>2, WorkioMoves DEF WioAnswer, Stops, Fetches, Calls, Passes, Drops, HandsIn
      <4>. QED  BY <4>1
    <3>. QED  BY <3>1, <3>2
  <2>3. \A t \in ThreadIds : \A i \in DOMAIN reply'[t] :
          \/ i \in DOMAIN reply[t] /\ reply'[t][i] = reply[t][i]
          \/ wpc = "answer" /\ reply'[t][i] = ret
    <3>1. CASE WioAnswer
      <4>. SUFFICES ASSUME NEW t \in ThreadIds, NEW i \in DOMAIN reply'[t]
                    PROVE  \/ i \in DOMAIN reply[t] /\ reply'[t][i] = reply[t][i]
                           \/ wpc = "answer" /\ reply'[t][i] = ret
        OBVIOUS
      <4>1. reply'[t] = reply[t] \/ reply'[t] = Append(reply[t], ret)
        BY <1>1, <3>1 DEF WioAnswer
      <4>2. reply[t] \in Seq(Works)
        BY <1>1
      <4>3. reply'[t] = reply[t] \/ reply'[t][i] = ret \/ (i \in DOMAIN reply[t] /\ reply'[t][i] = reply[t][i])
        <5>1. CASE reply'[t] = reply[t]
          BY <5>1
        <5>2. CASE reply'[t] = Append(reply[t], ret)
          <6>1. \A k \in DOMAIN Append(reply[t], ret) :
                  \/ Append(reply[t], ret)[k] = ret
                  \/ k \in DOMAIN reply[t] /\ Append(reply[t], ret)[k] = reply[t][k]
            BY <1>1, <4>2, Appended
          <6>. QED  BY <5>2, <6>1
        <5>. QED  BY <4>1, <5>1, <5>2
      <4>. QED  BY <3>1, <4>3 DEF WioAnswer
    <3>2. CASE ~WioAnswer
      <4>1. reply' = reply
        BY <1>2, <3>2, WorkioMoves DEF WioPop, Stops, Fetches, Calls, Passes, Drops, HandsIn
      <4>. QED  BY <4>1
    <3>. QED  BY <3>1, <3>2
  <2>4. \/ cmd'.work \in {cmd.work, NoWork} \/ \E k \in DOMAIN wq : cmd'.work = wq[k].work
        \/ wpc = "send" /\ cmd'.work = Encoded(cmd.work)
    <3>1. CASE WioPop
      BY <1>1, <3>1, Shrunk DEF WioPop
    <3>2. CASE HandsIn
      BY <1>1, <3>2 DEF HandsIn, Again, CmdDone, NoCmd, Cmds
    <3>3. CASE WioAnswer \/ Stops \/ Fetches \/ Calls \/ Passes \/ Drops
      BY <3>3 DEF WioAnswer, CmdDone, NoCmd, Stops, Fetches, Calls, Passes, Drops
    <3>. QED  BY <1>2, <3>1, <3>2, <3>3, WorkioMoves
  <2>5. CASE w = cmd'.work
    BY <2>4, <2>5 DEF Around
  <2>6. CASE w = g_work' \/ \E t \in ThreadIds : w = work'[t]
    BY <2>1, <2>6 DEF Around
  <2>7. CASE \E i \in DOMAIN wq' : w = wq'[i].work
    BY <2>2, <2>7 DEF Around
  <2>8. CASE \E t \in ThreadIds : \E i \in DOMAIN reply'[t] : w = reply'[t][i]
    BY <2>3, <2>8 DEF Around
  <2>. QED  BY <2>5, <2>6, <2>7, <2>8 DEF Around
<1>3. CASE \E t \in ThreadIds : Miner(t)
  <2>. PICK t \in ThreadIds : Miner(t)
    BY <1>3
  <2>1. cmd' = cmd
    BY DEF Miner, MinerTake, MinerRequest, MinerGot, MinerGoesOn, MinerWoken, MinerScanEnd, MinerFound, MinerSubmit,
           MinerSubmitted, MinerZero, wvars, calls
  <2>2. g_work' = g_work \/ (\E i \in DOMAIN reply[t] : g_work' = reply[t][i])
    <3>1. CASE MinerGot(t)
      <4>1. reply[t] \in Seq(Works) /\ reply[t] # << >> /\ g_work' = Head(reply[t])
        BY <1>1, <3>1 DEF MinerGot
      <4>2. Head(reply[t]) = reply[t][1] /\ 1 \in DOMAIN reply[t]
        BY <4>1, Shrunk
      <4>. QED  BY <4>1, <4>2
    <3>2. CASE ~MinerGot(t)
      BY <3>2 DEF Miner, MinerTake, MinerRequest, MinerGoesOn, MinerWoken, MinerScanEnd, MinerFound, MinerSubmit,
                  MinerSubmitted, MinerZero, shared
    <3>. QED  BY <3>1, <3>2
  <2>3. \A u \in ThreadIds : work'[u] \in {work[u], g_work}
    <3>1. CASE MinerTake(t) \/ MinerGoesOn(t)
      <4>1. work' = work \/ \E v \in {g_work, work[t]} : work' = [work EXCEPT ![t] = v]
        BY <3>1 DEF MinerTake, MinerGoesOn, Adopt
      <4>. QED  BY <1>1, <4>1
    <3>2. CASE ~(MinerTake(t) \/ MinerGoesOn(t))
      BY <3>2 DEF Miner, MinerRequest, MinerGot, MinerWoken, MinerScanEnd, MinerFound, MinerSubmit,
                  MinerSubmitted, MinerZero
    <3>. QED  BY <3>1, <3>2
  <2>4. \A i \in DOMAIN wq' : \/ i \in DOMAIN wq /\ wq'[i] = wq[i]
                              \/ wq'[i].work = work[t] \/ wq'[i].work = NoWork
    <3>1. wq' = wq \/ wq' = Append(wq, Request(t)) \/ wq' = Append(wq, Submission(t))
      BY DEF Miner, MinerTake, MinerRequest, MinerGot, MinerGoesOn, MinerWoken, MinerScanEnd, MinerFound, MinerSubmit,
             MinerSubmitted, MinerZero
    <3>2. Request(t) \in Cmds /\ Submission(t) \in Cmds /\ Request(t).work = NoWork /\ Submission(t).work = work[t]
      BY <1>1, Asking DEF Request, Submission, Cmds
    <3>3. CASE wq' = Append(wq, Request(t))
      BY <1>1, <3>2, <3>3, Appended
    <3>4. CASE wq' = Append(wq, Submission(t))
      BY <1>1, <3>2, <3>4, Appended
    <3>. QED  BY <3>1, <3>3, <3>4
  <2>5. \A u \in ThreadIds : \A i \in DOMAIN reply'[u] : \E k \in DOMAIN reply[u] : reply'[u][i] = reply[u][k]
    <3>1. CASE MinerGot(t)
      <4>1. reply[t] \in Seq(Works) /\ reply[t] # << >> /\ reply' = [reply EXCEPT ![t] = Tail(reply[t])]
        BY <1>1, <3>1 DEF MinerGot
      <4>2. \A i \in DOMAIN Tail(reply[t]) : \E k \in DOMAIN reply[t] : Tail(reply[t])[i] = reply[t][k]
        BY <4>1, Behead
      <4>. QED  BY <1>1, <4>1, <4>2
    <3>2. CASE ~MinerGot(t)
      <4>1. reply' = reply
        BY <3>2 DEF Miner, MinerTake, MinerRequest, MinerGoesOn, MinerWoken, MinerScanEnd, MinerFound, MinerSubmit,
                    MinerSubmitted, MinerZero
      <4>. QED  BY <4>1
    <3>. QED  BY <3>1, <3>2
  <2>6. g_work' \in Around
    BY <2>2 DEF Around
  <2>7. CASE w = cmd'.work
    BY <2>1, <2>7 DEF Around
  <2>8. CASE w = g_work' \/ \E u \in ThreadIds : w = work'[u]
    BY <2>3, <2>6, <2>8 DEF Around
  <2>9. CASE \E i \in DOMAIN wq' : w = wq'[i].work
    BY <2>4, <2>9 DEF Around
  <2>10. CASE \E u \in ThreadIds : \E i \in DOMAIN reply'[u] : w = reply'[u][i]
    BY <2>5, <2>10 DEF Around
  <2>. QED  BY <2>7, <2>8, <2>9, <2>10 DEF Around
<1>4. CASE Longpoll \/ StratumJob \/ NewBlock \/ Age \/ UNCHANGED vars
  <2>1. ~StratumJob
    BY DEF StratumJob, Quiet
  <2>2. UNCHANGED <<g_work, work, reply, wq, cmd>>
    BY <1>4, <2>1, PollIdle DEF PollWoken, NewBlock, Age, vars, server, shared, mvars, wvars, calls
  <2>. QED  BY <2>2 DEF Around
<1>. QED  BY <1>2, <1>3, <1>4 DEF Next

-----------------------------------------------------------------------------
(* What a call learns                                                      *)

(* ret_work is kept or cleared, decoded, left half decoded, or given its   *)
(* height by getmininginfo.                                                *)
Clears ==
  /\ ret' = NoWork \/ (ret' = ret /\ wpc \notin {"info", "answer"})
  /\ wpc' \notin {"info", "answer", "badinfo", "bad"}
Decodes ==
  /\ wpc = "fetch" /\ wpc' = "info" /\ UNCHANGED server
  /\ ret' = Decoded(have_gbt, tip, ret)
LeavesHalf ==
  /\ Malformed = TRUE \/ (have_gbt = TRUE /\ AllowGetwork = TRUE)
  /\ wpc = "fetch" /\ wpc' \in {"fetch", "badinfo"} /\ UNCHANGED server
  /\ ret'.height \in {ret.height, tip + 1}
  /\ have_gbt = FALSE => ret'.gbt = ret.gbt
GetsHeight ==
  /\ \/ wpc = "info" /\ wpc' = "answer"
     \/ wpc = "badinfo" /\ wpc' = "bad"
  /\ UNCHANGED server
  /\ \/ ret.height = 0 /\ ret' = [ret EXCEPT !.height = tip + 1]
     \/ ret' = ret /\ (InfoReliable = TRUE /\ allow_mininginfo = TRUE => ret.height # 0)
Keeps == UNCHANGED <<ret, wpc, delivered, accepted>>

LEMMA OthersKeepCalls ==
  ASSUME Quiet, [Next]_vars, ~Workio
  PROVE  UNCHANGED <<calls, delivered, accepted>> /\ tip' \in {tip, tip + 1}
<1>1. ~StratumJob
  BY DEF StratumJob, Quiet
<1>2. CASE Longpoll \/ NewBlock \/ Age \/ UNCHANGED vars
  BY <1>2, PollIdle DEF PollWoken, NewBlock, Age, vars, server, wvars
<1>3. CASE \E t \in ThreadIds : Miner(t)
  BY <1>3 DEF Miner, MinerTake, MinerRequest, MinerGot, MinerGoesOn, MinerWoken, MinerScanEnd, MinerFound, MinerSubmit,
              MinerSubmitted, MinerZero, server, wvars
<1>. QED  BY <1>1, <1>2, <1>3 DEF Next

LEMMA Flags ==
  ASSUME IInv
  PROVE  /\ have_gbt \in BOOLEAN /\ allow_mininginfo \in BOOLEAN /\ net_blocks \in Nat /\ tip \in Nat
         /\ Malformed \in BOOLEAN /\ AllowGetwork \in BOOLEAN /\ InfoReliable \in BOOLEAN /\ Gbt \in BOOLEAN
         /\ ret \in Works
BY OptionAssumption DEF IInv, TypeOK

LEMMA Learning ==
  ASSUME NodeOnly, IInv, Quiet, [Next]_vars
  PROVE  Clears \/ Decodes \/ LeavesHalf \/ GetsHeight \/ Keeps
<1>1. CASE ~Workio
  BY <1>1, OthersKeepCalls DEF Keeps, calls
<1>2. CASE WioPop \/ WioWoken \/ WioFreeze \/ WioFetchFailed \/ WioFallBack \/ WioUndecoded
  BY <1>2 DEF WioPop, WioWoken, WioFreeze, WioFetchFailed, WioFallBack, WioUndecoded, Retry, Clears
<1>3. CASE WioFetch
  BY <1>3 DEF WioFetch, Decodes
<1>4. CASE WioRefuse
  <2>1. ret'.height = tip + 1 /\ ret'.gbt = ret.gbt /\ have_gbt = TRUE /\ AllowGetwork = TRUE
    BY <1>4, Flags DEF WioRefuse, Works
  <2>. QED  BY <1>4, <2>1 DEF WioRefuse, LeavesHalf
<1>5. CASE WioUndecodable
  <2>1. Malformed = TRUE
    BY <1>5, Flags DEF WioUndecodable
  <2>2. ret'.height \in {ret.height, tip + 1} /\ (have_gbt = FALSE => ret'.gbt = ret.gbt)
    BY <1>5, Flags DEF WioUndecodable, Halves
  <2>. QED  BY <1>5, <2>1, <2>2 DEF WioUndecodable, LeavesHalf
<1>6. CASE WioInfo \/ WioInfoFailed \/ WioNoInfo
  <2>1. /\ UNCHANGED server /\ wpc' = AfterInfo[wpc] /\ wpc \in {"info", "badinfo", "submitinfo"}
    BY <1>6, AfterInfoOK DEF WioInfo, WioInfoFailed, WioNoInfo
  <2>2. /\ wpc = "submitinfo" => wpc' = "solved"
        /\ wpc = "info" => wpc' = "answer"
        /\ wpc = "badinfo" => wpc' = "bad"
    BY <2>1 DEF AfterInfo
  <2>3. CASE wpc = "submitinfo"
    <3>1. ret' = ret
      BY <1>6, <2>3 DEF WioInfo, WioInfoFailed, WioNoInfo
    <3>. QED  BY <2>2, <2>3, <3>1 DEF Clears
  <2>4. CASE wpc # "submitinfo"
    <3>1. \/ ret.height = 0 /\ ret' = [ret EXCEPT !.height = tip + 1]
          \/ ret' = ret /\ (InfoReliable = TRUE /\ allow_mininginfo = TRUE => ret.height # 0)
      BY <1>6, <2>4, Flags DEF WioInfo, WioInfoFailed, WioNoInfo, InfoCalled, Quiet
    <3>. QED  BY <2>1, <2>2, <2>4, <3>1 DEF GetsHeight
  <2>. QED  BY <2>3, <2>4
<1>7. CASE WioAnswer \/ WioCheck \/ WioSolved \/ WioSend \/ WioSendFailed
  BY <1>7 DEF WioAnswer, WioCheck, WioSolved, WioSend, WioSendFailed, CmdDone, CmdGoesOn, Retry, Clears
<1>8. ~WioFetchSwitched /\ ~WioShare
  BY NothingOffered DEF WioFetchSwitched, WioShare, Quiet
<1>. QED  BY <1>1, <1>2, <1>3, <1>4, <1>5, <1>6, <1>7, <1>8 DEF Workio

(* The methods in use, and the chain length getmininginfo told last.       *)
LEMMA MethodsStep ==
  ASSUME NodeOnly, IInv, Quiet, [Next]_vars
  PROVE  /\ have_gbt' \in {have_gbt, FALSE}
         /\ InfoReliable = TRUE => allow_mininginfo' = allow_mininginfo
         /\ net_blocks' \in {net_blocks, tip}
         /\ wpc = "submitinfo" /\ wpc' = "solved" /\ InfoReliable = TRUE /\ allow_mininginfo = TRUE =>
              net_blocks' = tip
<1>1. CASE ~Workio
  BY <1>1, OthersKeepCalls DEF calls
<1>2. CASE WioInfo \/ WioInfoFailed \/ WioNoInfo
  BY <1>2, Flags DEF WioInfo, WioInfoFailed, WioNoInfo, InfoCalled, Quiet
<1>3. CASE Workio /\ ~(WioInfo \/ WioInfoFailed \/ WioNoInfo)
  <2>1. have_gbt' \in {have_gbt, FALSE} /\ UNCHANGED <<allow_mininginfo, net_blocks>>
    BY <1>3 DEF Workio, WioPop, WioWoken, WioFreeze, WioFetch, WioFetchFailed, WioFallBack, WioRefuse,
           WioUndecodable, WioUndecoded, WioFetchSwitched, WioAnswer, WioCheck, WioSolved, WioSend,
           WioSendFailed, WioShare
  <2>2. wpc # "submitinfo" \/ wpc' # "solved"
    BY <1>3 DEF Workio, WioPop, WioWoken, WioFreeze, WioFetch, WioFetchFailed, WioFallBack, WioRefuse,
           WioUndecodable, WioUndecoded, WioFetchSwitched, WioAnswer, WioCheck, WioSolved, WioSend,
           WioSendFailed, WioShare
  <2>. QED  BY <2>1, <2>2
<1>. QED  BY <1>1, <1>2, <1>3

-----------------------------------------------------------------------------
(* Stale solutions                                                         *)

(* submit_upstream_work passes a solution over when its previous hash is   *)
(* not that of g_work: then the server has gone on to another block, or    *)
(* the solution is in the other byte order since a call failed.            *)
THEOREM StaleOrSwapped ==
  NodeOnly => (Spec => [][wpc = "check" /\ wpc' = "pop" => cmd.work.tip < tip \/ cmd.work.swapped = TRUE]_vars)
<1>. SUFFICES ASSUME NodeOnly
              PROVE  Spec => [][wpc = "check" /\ wpc' = "pop" => cmd.work.tip < tip \/ cmd.work.swapped = TRUE]_vars
  OBVIOUS
<1>1. IInv /\ OInv /\ [Next]_vars =>
        [wpc = "check" /\ wpc' = "pop" => cmd.work.tip < tip \/ cmd.work.swapped = TRUE]_vars
  <2>. SUFFICES ASSUME IInv, OInv, [Next]_vars, wpc = "check", wpc' = "pop"
                PROVE  cmd.work.tip < tip \/ cmd.work.swapped = TRUE
    OBVIOUS
  <2>1. Quiet /\ Straight /\ Tips
    BY DEF OInv
  <2>2. Workio
    BY <2>1, OthersKeepCalls DEF calls
  <2>3. WioCheck
    BY <2>2, AfterInfoOK DEF Workio, WioPop, WioWoken, WioFreeze, WioFetch, WioFetchFailed, WioFallBack, WioRefuse,
           WioUndecodable, WioUndecoded, WioFetchSwitched, WioInfo, WioInfoFailed, WioNoInfo, WioAnswer,
           WioSolved, WioSend, WioSendFailed, WioShare
  <2>4. ~SamePrevhash(cmd.work, g_work)
    BY <2>3 DEF WioCheck, CmdGoesOn
  <2>5. cmd.work \in Works /\ g_work.swapped = FALSE
    BY <2>1, AroundTypes DEF Straight
  <2>6. cmd.work.swapped \in BOOLEAN
    BY <2>5 DEF Works
  <2>7. cmd.work.tip <= g_work.tip /\ g_work.tip <= tip /\ tip \in Nat /\ g_work.tip \in Nat /\ cmd.work.tip \in Nat
    BY <2>1, Numbers DEF Tips
  <2>8. CASE cmd.work.tip = g_work.tip
    BY <2>4, <2>5, <2>6, <2>8 DEF SamePrevhash
  <2>9. CASE cmd.work.tip # g_work.tip
    BY <2>7, <2>9
  <2>. QED  BY <2>8, <2>9
<1>. QED  BY <1>1, OrderInductive, PTL DEF Spec

(* With getwork alone no work has txs, and none changes its byte order.    *)
Plain ==
  /\ have_gbt = FALSE /\ ret.gbt = FALSE /\ cmd.work.swapped = FALSE
  /\ \A w \in Around : w.gbt = FALSE

LEMMA PlainNext ==
  ASSUME NodeOnly, IInv, OInv, Plain, [Next]_vars
  PROVE  Plain'
<1>1. Quiet /\ Straight
  BY DEF OInv
<1>2. have_gbt = FALSE /\ ret.gbt = FALSE /\ cmd.work.swapped = FALSE /\ \A w \in Around : w.gbt = FALSE
  BY DEF Plain
<1>3. have_gbt' = FALSE
  BY <1>1, <1>2, MethodsStep
<1>4. /\ ret \in Works /\ cmd.work \in Works /\ cmd.work \in Around /\ cmd \in Cmds /\ wq \in Seq(Cmds)
      /\ \A w \in Around : w \in Works
  BY <1>1, AroundTypes DEF IInv, TypeOK
<1>5. ret'.gbt = FALSE
  <2>1. CASE Clears
    BY <1>2, <2>1 DEF Clears, NoWork
  <2>2. CASE Decodes
    BY <1>2, <2>2 DEF Decodes, Decoded
  <2>3. CASE LeavesHalf
    BY <1>2, <2>3 DEF LeavesHalf
  <2>4. CASE GetsHeight
    BY <1>2, <1>4, <2>4 DEF GetsHeight, Works
  <2>5. CASE Keeps
    BY <1>2, <2>5 DEF Keeps
  <2>. QED  BY <1>1, <2>1, <2>2, <2>3, <2>4, <2>5, Learning
<1>6. Encoded(cmd.work) = cmd.work
  <2>1. cmd.work.gbt = FALSE
    BY <1>2, <1>4
  <2>2. Encoded(cmd.work) = [cmd.work EXCEPT !.swapped = cmd.work.swapped]
    BY <2>1 DEF Encoded
  <2>. QED  BY <1>4, <2>2 DEF Works
<1>7. \A w \in Around' : w.gbt = FALSE
  <2>. SUFFICES ASSUME NEW w \in Around'  PROVE w.gbt = FALSE
    OBVIOUS
  <2>1. w \in Around \/ w = NoWork \/ w = ret \/ w = cmd.work
    BY <1>1, <1>6, AroundStep
  <2>. QED  BY <1>2, <1>4, <2>1 DEF NoWork
<1>8. cmd'.work.swapped = FALSE
  <2>1. CASE ~Workio
    BY <1>1, <1>2, <2>1, OthersKeepCalls DEF calls
  <2>2. CASE WioPop
    <3>1. cmd' = wq[1] /\ 1 \in DOMAIN wq
      BY <1>4, <2>2, Shrunk DEF WioPop
    <3>. QED  BY <1>1, <3>1 DEF Straight
  <2>3. CASE HandsIn
    BY <1>2, <1>4, <1>6, <2>3 DEF HandsIn, Again, CmdDone, NoCmd, NoWork, Cmds
  <2>4. CASE WioAnswer \/ Stops \/ Fetches \/ Calls \/ Passes \/ Drops
    BY <1>2, <2>4 DEF WioAnswer, Stops, Fetches, Calls, Passes, Drops, CmdDone, NoCmd, NoWork
  <2>. QED  BY <1>1, <2>1, <2>2, <2>3, <2>4, WorkioMoves
<1>. QED  BY <1>3, <1>5, <1>7, <1>8 DEF Plain

(* No work is around at the start.                                         *)
LEMMA AroundInit == Init => Around = {NoWork} /\ ret = NoWork /\ cmd = NoCmd
<1>. SUFFICES ASSUME Init  PROVE Around = {NoWork} /\ ret = NoWork /\ cmd = NoCmd
  OBVIOUS
<1>1. /\ g_work = NoWork /\ cmd = NoCmd /\ wq = << >> /\ ret = NoWork
      /\ \A t \in ThreadIds : work[t] = NoWork /\ reply[t] = << >>
  BY DEF Init
<1>2. DOMAIN << >> = {} /\ NoCmd.work = NoWork
  BY DEF NoCmd
<1>3. {work[t] : t \in ThreadIds} \subseteq {NoWork} /\ {wq[i].work : i \in DOMAIN wq} = {}
  BY <1>1, <1>2
<1>4. UNION {{reply[t][i] : i \in DOMAIN reply[t]} : t \in ThreadIds} = {}
  BY <1>1, <1>2
<1>. QED  BY <1>1, <1>2, <1>3, <1>4 DEF Around

(* The comment in submit_upstream_work: the solution is stale when the     *)
(* previous hash is not the current one. With getwork alone that is so:    *)
(* the server has gone on, however often the call had to be tried.         *)
THEOREM StaleWorkIsOld == NodeOnly /\ Gbt = FALSE => (Spec => StaleIsOld)
<1>. SUFFICES ASSUME NodeOnly, Gbt = FALSE  PROVE Spec => StaleIsOld
  OBVIOUS
<1>1. Init => Plain
  <2>. SUFFICES ASSUME Init  PROVE Plain
    OBVIOUS
  <2>1. Around = {NoWork} /\ ret = NoWork /\ cmd.work = NoWork /\ NoWork.gbt = FALSE /\ NoWork.swapped = FALSE
    BY AroundInit DEF NoCmd, NoWork
  <2>2. have_gbt = FALSE
    BY DEF Init
  <2>. QED  BY <2>1, <2>2 DEF Plain
<1>2. IInv /\ OInv /\ Plain /\ [Next]_vars => Plain'
  BY PlainNext
<1>3. Plain /\ [wpc = "check" /\ wpc' = "pop" => cmd.work.tip < tip \/ cmd.work.swapped = TRUE]_vars =>
        [wpc = "check" /\ wpc' = "pop" => cmd.work.tip < tip]_vars
  BY DEF Plain
<1>. QED  BY <1>1, <1>2, <1>3, OrderInductive, StaleOrSwapped, PTL DEF Spec, StaleIsOld

-----------------------------------------------------------------------------
(* Solved blocks                                                           *)

LEMMA EncodedKeeps ==
  ASSUME IInv, Quiet
  PROVE  Encoded(cmd.work).tip = cmd.work.tip /\ Encoded(cmd.work).height = cmd.work.height
<1>1. cmd.work \in Works
  BY AroundTypes
<1>. QED  BY <1>1 DEF Encoded, Works

(* No work is decoded by half: the server sends none that cannot be, and   *)
(* no template is refused for a getwork to be decoded over it.             *)
Decodable == Malformed = FALSE /\ (Gbt = FALSE \/ AllowGetwork = FALSE)

(* A height that is known is that of a block the work, or a later one,     *)
(* extends the chain with.                                                 *)
High(w) == w.height = 0 \/ w.tip < w.height
Known ==
  /\ Gbt = FALSE => have_gbt = FALSE
  /\ net_blocks <= tip
  /\ wpc \notin {"badinfo", "bad"} /\ (wpc \notin {"info", "answer"} => ret.height = 0)
  /\ High(ret) /\ \A w \in Around : High(w)

LEMMA KnownNext ==
  ASSUME NodeOnly, Decodable, IInv, OInv, Known, [Next]_vars
  PROVE  Known'
<1>1. Quiet /\ Tips
  BY DEF OInv
<1>2. /\ ret \in Works /\ ret.tip \in Nat /\ ret.tip <= tip /\ tip \in Nat /\ net_blocks \in Nat
      /\ ret.height \in Nat /\ \A w \in Around : w.tip \in Nat
  BY <1>1, AroundTypes, Flags DEF Tips, Works
<1>3. NoWork.height = 0
  BY DEF NoWork
<1>4. ~LeavesHalf
  BY DEF LeavesHalf, Decodable, Known
<1>5. tip' \in Nat /\ tip <= tip'
  <2>1. tip' = tip \/ tip' = tip + 1
    <3>1. CASE Workio
      BY <1>1, <3>1, WorkioMoves DEF WioPop, WioAnswer, Stops, Fetches, Calls, Passes, Drops, HandsIn, Deliver,
                                     server
    <3>2. CASE ~Workio
      BY <1>1, <3>2, OthersKeepCalls
    <3>. QED  BY <3>1, <3>2
  <2>. QED  BY <1>2, <2>1
<1>6. net_blocks' <= tip' /\ (Gbt = FALSE => have_gbt' = FALSE)
  <2>1. net_blocks' \in {net_blocks, tip} /\ have_gbt' \in {have_gbt, FALSE}
    BY <1>1, MethodsStep
  <2>2. net_blocks <= tip
    BY DEF Known
  <2>3. net_blocks' <= tip'
    BY <1>2, <1>5, <2>1, <2>2
  <2>4. Gbt = FALSE => have_gbt' = FALSE
    BY <2>1, Zenon DEF Known
  <2>. QED  BY <2>3, <2>4
<1>7. /\ wpc' \notin {"badinfo", "bad"} /\ (wpc' \notin {"info", "answer"} => ret'.height = 0)
      /\ High(ret')
  <2>1. CASE Clears
    BY <1>3, <2>1 DEF Clears, Known, High
  <2>2. CASE Decodes
    <3>1. ret'.tip = tip /\ ret'.height \in {tip + 1, 0}
      BY <2>2 DEF Decodes, Decoded, Known
    <3>. QED  BY <1>2, <2>2, <3>1 DEF Decodes, High
  <2>3. CASE GetsHeight
    <3>1. ret' = ret \/ (ret'.tip = ret.tip /\ ret'.height = tip + 1)
      BY <1>2, <2>3 DEF GetsHeight, Works
    <3>2. wpc = "info" /\ wpc' = "answer"
      BY <2>3 DEF GetsHeight, Known
    <3>. QED  BY <1>2, <3>1, <3>2 DEF High, Known
  <2>4. CASE Keeps
    BY <2>4 DEF Keeps, Known
  <2>. QED  BY <1>1, <1>4, <2>1, <2>2, <2>3, <2>4, Learning
<1>8. \A w \in Around' : High(w)
  <2>. SUFFICES ASSUME NEW w \in Around'  PROVE High(w)
    OBVIOUS
  <2>1. w \in Around \/ w = NoWork \/ w = ret \/ w = Encoded(cmd.work)
    BY <1>1, AroundStep
  <2>2. High(cmd.work)
    BY <1>1, AroundTypes DEF Known
  <2>. QED  BY <1>1, <1>3, <2>1, <2>2, EncodedKeeps DEF Known, High
<1>. QED  BY <1>6, <1>7, <1>8 DEF Known, High

(* submit_upstream_work drops a solution as "already solved" by its height *)
(* only when the server has gone on to another block, unless a height is   *)
(* left over from a template that could not be decoded.                    *)
THEOREM SolvedWorkIsSolved == NodeOnly /\ Decodable => (Spec => SolvedIsSolved)
<1>. SUFFICES ASSUME NodeOnly, Decodable  PROVE Spec => SolvedIsSolved
  OBVIOUS
<1>1. Init => Known
  <2>. SUFFICES ASSUME Init  PROVE Known
    OBVIOUS
  <2>1. Around = {NoWork} /\ ret = NoWork /\ NoWork.height = 0
    BY AroundInit DEF NoWork
  <2>2. have_gbt = Gbt /\ net_blocks = 0 /\ tip = 1 /\ wpc = "pop"
    BY DEF Init
  <2>. QED  BY <2>1, <2>2 DEF Known, High
<1>2. IInv /\ OInv /\ Known /\ [Next]_vars => Known'
  BY KnownNext
<1>3. IInv /\ OInv /\ Known /\ [Next]_vars => [wpc = "solved" /\ wpc' = "pop" => cmd.work.tip < tip]_vars
  <2>. SUFFICES ASSUME IInv, OInv, Known, [Next]_vars, wpc = "solved", wpc' = "pop"
                PROVE  cmd.work.tip < tip
    OBVIOUS
  <2>1. Quiet
    BY DEF OInv
  <2>2. Workio
    BY <2>1, OthersKeepCalls DEF calls
  <2>3. WioSolved
    BY <2>2, AfterInfoOK DEF Workio, WioPop, WioWoken, WioFreeze, WioFetch, WioFetchFailed, WioFallBack, WioRefuse,
           WioUndecodable, WioUndecoded, WioFetchSwitched, WioInfo, WioInfoFailed, WioNoInfo, WioAnswer,
           WioCheck, WioSend, WioSendFailed, WioShare
  <2>4. cmd.work.height # 0 /\ cmd.work.height <= net_blocks
    BY <2>3 DEF WioSolved, CmdGoesOn, AlreadySolved
  <2>5. cmd.work \in Works /\ cmd.work.tip \in Nat /\ tip \in Nat /\ net_blocks \in Nat
    BY <2>1, AroundTypes, Flags
  <2>6. cmd.work.tip < cmd.work.height /\ net_blocks <= tip /\ cmd.work.height \in Nat
    BY <2>1, <2>4, <2>5, AroundTypes DEF Known, High, Works
  <2>. QED  BY <2>4, <2>5, <2>6
<1>. QED  BY <1>1, <1>2, <1>3, OrderInductive, PTL DEF Spec, SolvedIsSolved

(* A work has the height of the next block of its chain; or it was learnt  *)
(* when the server had gone on already, without a solution of ours.        *)
Fine(w) ==
  w.tip # 0 => w.height # 0 /\ (w.height <= w.tip + 1 \/ (w.tip \notin accepted /\ w.tip < tip))
(* What is fetched, scanned and handed in are works of the server.         *)
Fetched ==
  /\ allow_mininginfo = TRUE
  /\ ret.height <= tip + 1
  /\ wpc = "info" => ret.height <= ret.tip + 1 /\ ret.tip \notin accepted
  /\ wpc = "answer" => Fine(ret)
Scanned ==
  /\ \A t \in ThreadIds : pc[t] \in Scanning => work[t].tip # 0
  /\ \A i \in DOMAIN wq : wq[i].cmd # "get" => wq[i].work.tip # 0
  /\ wpc \in Handing => cmd.work.tip # 0
(* A solution for a block that another was accepted on ends as solved.     *)
Won ==
  /\ \A k \in accepted : k < tip
  /\ \A w \in Around : Fine(w)
  /\ wpc = "solved" /\ cmd.work.tip \in accepted => AlreadySolved(cmd.work)
  /\ OncePerBlock

LEMMA ScannedNext ==
  ASSUME NodeOnly, IInv, OInv, Scanned, [Next]_vars
  PROVE  Scanned'
<1>1. Quiet
  BY DEF OInv
<1>2. /\ pc \in [ThreadIds -> {"lock", "await", "got", "scan", "submit", "submitted", "zero", "left"}]
      /\ wq \in Seq(Cmds) /\ cmd \in Cmds /\ work \in [ThreadIds -> Works]
  BY DEF IInv, TypeOK
<1>3. CASE Workio
  <2>1. UNCHANGED <<pc, work>>
    BY <1>1, <1>3, WorkioMoves DEF mvars
  <2>2. CASE WioPop
    <3>1. /\ \A i \in DOMAIN wq' : i + 1 \in DOMAIN wq /\ wq'[i] = wq[i + 1]
          /\ cmd' = wq[1] /\ 1 \in DOMAIN wq /\ (wpc' \in Handing => wq[1].cmd # "get")
      BY <1>2, <2>2, Shrunk DEF WioPop, Handing
    <3>. QED  BY <2>1, <3>1 DEF Scanned
  <2>3. CASE ~WioPop
    <3>1. wq' = wq
      BY <1>1, <1>3, <2>3, WorkioMoves DEF WioAnswer, Stops, Fetches, Calls, Passes, Drops, HandsIn
    <3>2. wpc' \in Handing => cmd'.work.tip # 0
      <4>1. CASE HandsIn /\ Again
        <5>1. cmd'.work = Encoded(cmd.work) /\ wpc \in Handing
          BY <1>2, <4>1 DEF HandsIn, Again, Cmds, Handing
        <5>. QED  BY <1>1, <5>1, EncodedKeeps DEF Scanned
      <4>2. CASE WioAnswer \/ Stops \/ Fetches \/ Calls \/ Passes \/ Drops \/ CmdDone
        BY <4>2 DEF WioAnswer, Stops, Fetches, Calls, Passes, Drops, CmdDone, Handing, Frozen, Scanned
      <4>. QED  BY <1>1, <1>3, <2>3, <4>1, <4>2, WorkioMoves DEF HandsIn
    <3>. QED  BY <2>1, <3>1, <3>2 DEF Scanned
  <2>. QED  BY <2>2, <2>3
<1>4. CASE \E t \in ThreadIds : Miner(t)
  <2>. PICK t \in ThreadIds : Miner(t)
    BY <1>4
  <2>1. UNCHANGED <<wpc, cmd>>
    BY DEF Miner, MinerTake, MinerRequest, MinerGot, MinerGoesOn, MinerWoken, MinerScanEnd, MinerFound, MinerSubmit,
           MinerSubmitted, MinerZero, wvars, calls
  <2>2. IInv'
    BY MinerKeeps
  <2>3. ASSUME NEW u \in ThreadIds, pc'[u] \in Scanning  PROVE work'[u].tip # 0
    <3>1. CASE pc'[u] = "scan"
      BY <2>2, <3>1 DEF IInv, EmptyNotScanned
    <3>2. CASE pc'[u] # "scan"
      <4>1. pc'[u] = "submit"
        BY <2>3, <3>2 DEF Scanning
      <4>2. work'[u] = work[u] /\ pc[u] \in Scanning
        BY <1>2, <4>1 DEF Miner, MinerTake, MinerRequest, MinerGot, MinerGoesOn, MinerWoken, MinerScanEnd, MinerFound,
           MinerSubmit, MinerSubmitted, MinerZero, Scanning, Adopt
      <4>. QED  BY <4>2 DEF Scanned
    <3>. QED  BY <3>1, <3>2
  <2>4. ASSUME NEW i \in DOMAIN wq', wq'[i].cmd # "get"  PROVE wq'[i].work.tip # 0
    <3>1. CASE wq' = wq
      BY <2>4, <3>1 DEF Scanned
    <3>2. CASE MinerRequest(t) /\ wq' = Append(wq, Request(t))
      BY <1>2, <2>4, <3>2, Asking, Appended DEF Scanned
    <3>3. CASE MinerSubmit(t) /\ wq' = Append(wq, Submission(t))
      <4>1. Submission(t).work = work[t] /\ pc[t] = "submit" /\ Submission(t) \in Cmds
        BY <1>2, <3>3 DEF MinerSubmit, Submission, Cmds
      <4>2. work[t].tip # 0
        BY <4>1 DEF Scanned, Scanning
      <4>. QED  BY <1>2, <2>4, <3>3, <4>1, <4>2, Appended DEF Scanned
    <3>. QED
      BY <3>1, <3>2, <3>3 DEF Miner, MinerTake, MinerRequest, MinerGot, MinerGoesOn, MinerWoken, MinerScanEnd, MinerFound,
         MinerSubmit, MinerSubmitted, MinerZero
  <2>. QED  BY <2>1, <2>3, <2>4 DEF Scanned
<1>5. CASE Longpoll \/ StratumJob \/ NewBlock \/ Age \/ UNCHANGED vars
  <2>1. ~StratumJob
    BY <1>1 DEF StratumJob, Quiet
  <2>2. UNCHANGED <<pc, work, wq, cmd, wpc>>
    BY <1>1, <1>5, <2>1, PollIdle DEF PollWoken, NewBlock, Age, vars, server, shared, mvars, wvars, calls
  <2>. QED  BY <2>2 DEF Scanned
<1>. QED  BY <1>3, <1>4, <1>5 DEF Next

(* How the chain grows: at its end, by others or by a solution at hand.    *)
LEMMA ChainGrows ==
  ASSUME NodeOnly, IInv, OInv, [Next]_vars
  PROVE  /\ tip \in Nat /\ (tip' = tip \/ tip' = tip + 1)
         /\ \/ accepted' = accepted
            \/ accepted' = accepted \cup {tip} /\ tip' = tip + 1 /\ wpc = "send" /\ wpc' \in {"pop", "check", "freeze"}
<1>1. Quiet
  BY DEF OInv
<1>2. CASE ~Workio
  BY <1>1, <1>2, OthersKeepCalls, Flags
<1>3. CASE HandsIn
  BY <1>3, Flags DEF HandsIn, Deliver, server, CmdDone, Again
<1>4. CASE WioPop \/ WioAnswer \/ Stops \/ Fetches \/ Calls \/ Passes \/ Drops
  BY <1>4, Flags DEF WioPop, WioAnswer, Stops, Fetches, Calls, Passes, Drops, server
<1>. QED  BY <1>1, <1>2, <1>3, <1>4, WorkioMoves

LEMMA FetchedNext ==
  ASSUME NodeOnly, InfoReliable = TRUE, IInv, OInv, Fetched, Won, [Next]_vars
  PROVE  Fetched'
<1>1. Quiet /\ Tips
  BY DEF OInv
<1>2. /\ ret \in Works /\ ret.tip \in Nat /\ ret.tip <= tip /\ tip \in Nat /\ ret.height \in Nat
      /\ NoWork.height = 0
  BY <1>1, AroundTypes, Flags DEF Tips, Works, NoWork
<1>3. allow_mininginfo' = TRUE
  BY <1>1, MethodsStep DEF Fetched
<1>4. tip' = tip \/ tip' = tip + 1
  BY ChainGrows
<1>5. CASE Clears
  BY <1>2, <1>3, <1>4, <1>5 DEF Clears, Fetched
<1>6. CASE Decodes
  <2>1. ret'.tip = tip /\ ret'.height \in {tip + 1, ret.height}
    BY <1>6 DEF Decodes, Decoded
  <2>2. tip \notin accepted /\ accepted' = accepted /\ tip' = tip
    BY <1>2, <1>6 DEF Won, Decodes, server
  <2>. QED  BY <1>2, <1>3, <1>6, <2>1, <2>2 DEF Fetched, Decodes
<1>7. CASE LeavesHalf
  BY <1>2, <1>3, <1>7 DEF LeavesHalf, Fetched, server
<1>8. CASE GetsHeight
  <2>1. accepted' = accepted /\ tip' = tip
    BY <1>8 DEF GetsHeight, server
  <2>2. \/ ret.height = 0 /\ ret'.height = tip + 1 /\ ret'.tip = ret.tip
        \/ ret' = ret /\ ret.height # 0
    BY <1>2, <1>8 DEF GetsHeight, Fetched, Works
  <2>3. ret'.height <= tip + 1
    BY <1>2, <2>2 DEF Fetched
  <2>4. CASE wpc = "info"
    <3>1. ret.height <= ret.tip + 1 /\ ret.tip \notin accepted
      BY <2>4 DEF Fetched
    <3>2. Fine(ret)'
      BY <1>2, <2>1, <2>2, <3>1 DEF Fine
    <3>. QED  BY <1>3, <1>8, <2>1, <2>3, <2>4, <3>2 DEF GetsHeight, Fetched
  <2>5. CASE wpc = "badinfo"
    BY <1>3, <1>8, <2>1, <2>3, <2>5 DEF GetsHeight, Fetched
  <2>. QED  BY <1>8, <2>4, <2>5 DEF GetsHeight
<1>9. CASE Keeps
  <2>1. accepted' = accepted
    BY <1>9 DEF Keeps
  <2>2. Fine(ret) => Fine(ret)'
    BY <1>2, <1>4, <1>9, <2>1 DEF Fine, Keeps
  <2>. QED  BY <1>2, <1>3, <1>4, <1>9, <2>1, <2>2 DEF Keeps, Fetched
<1>. QED  BY <1>1, <1>5, <1>6, <1>7, <1>8, <1>9, Learning

LEMMA WonNext ==
  ASSUME NodeOnly, InfoReliable = TRUE, IInv, OInv, Fetched, Scanned, Won, [Next]_vars
  PROVE  Won'
<1>1. Quiet /\ Tips
  BY DEF OInv
<1>2. /\ \A w \in Around : w \in Works /\ w.tip \in Nat
      /\ cmd.work \in Around /\ cmd.work \in Works /\ cmd.work.tip \in Nat /\ cmd.work.height \in Nat
      /\ ret \in Works /\ ret.tip \in Nat
  BY <1>1, AroundTypes DEF Works
<1>3. /\ tip \in Nat /\ (tip' = tip \/ tip' = tip + 1)
      /\ \/ accepted' = accepted
         \/ accepted' = accepted \cup {tip} /\ tip' = tip + 1 /\ wpc = "send" /\ wpc' \in {"pop", "check", "freeze"}
  BY ChainGrows
<1>4. \A k \in accepted' : k < tip'
  <2>1. \A k \in accepted : k \in Nat /\ k < tip
    BY DEF Won, IInv, TypeOK
  <2>. QED  BY <1>3, <2>1
<1>5. \A w \in Around' : Fine(w)'
  <2>. SUFFICES ASSUME NEW w \in Around'  PROVE Fine(w)'
    OBVIOUS
  <2>1. ASSUME Fine(w), w.tip \in Nat  PROVE Fine(w)'
    BY <1>3, <2>1 DEF Fine
  <2>2. CASE w \in Around
    BY <1>2, <2>1, <2>2 DEF Won
  <2>3. CASE w = NoWork
    BY <2>3 DEF Fine, NoWork
  <2>4. CASE wpc = "answer" /\ w = ret
    BY <1>2, <2>1, <2>4 DEF Fetched
  <2>5. CASE w = Encoded(cmd.work)
    <3>1. Fine(cmd.work)
      BY <1>2 DEF Won
    <3>2. Fine(w) /\ w.tip \in Nat
      BY <1>1, <1>2, <2>5, <3>1, EncodedKeeps DEF Fine
    <3>. QED  BY <2>1, <3>2
  <2>. QED  BY <1>1, <2>2, <2>3, <2>4, <2>5, AroundStep
<1>6. (wpc = "solved" /\ cmd.work.tip \in accepted => AlreadySolved(cmd.work))'
  <2>. SUFFICES ASSUME wpc' = "solved", cmd'.work.tip \in accepted'  PROVE AlreadySolved(cmd.work)'
    OBVIOUS
  <2>1. accepted' = accepted
    BY <1>3
  <2>2. CASE ~Workio
    <3>1. UNCHANGED <<wpc, cmd, net_blocks>>
      BY <1>1, <2>2, OthersKeepCalls DEF calls
    <3>. QED  BY <2>1, <3>1 DEF Won, AlreadySolved
  <2>3. CASE Workio
    <3>1. Passes
      BY <1>1, <2>3, WorkioMoves DEF WioPop, WioAnswer, CmdDone, Stops, Fetches, Calls, Drops, HandsIn, Again, Frozen
    <3>2. cmd' = cmd /\ wpc = "submitinfo"
      <4>1. cmd' = cmd /\ wpc \in {"check", "submitinfo", "solved"}
        BY <3>1 DEF Passes
      <4>2. ~WioCheck /\ ~WioSolved
        BY DEF WioCheck, WioSolved, CmdDone, CmdGoesOn
      <4>3. WioInfo \/ WioInfoFailed \/ WioNoInfo
        BY <2>3, <4>1, <4>2 DEF Workio, WioPop, WioWoken, WioFreeze, WioFetch, WioFetchFailed, WioFallBack,
           WioRefuse, WioUndecodable, WioUndecoded, WioFetchSwitched, WioAnswer, WioSend, WioSendFailed, WioShare
      <4>4. wpc \in {"info", "badinfo", "submitinfo"}
        BY <4>3, AfterInfoOK DEF WioInfo, WioInfoFailed, WioNoInfo
      <4>. QED  BY <4>1, <4>4
    <3>3. net_blocks' = tip
      BY <1>1, <3>2, MethodsStep DEF Fetched
    <3>4. cmd.work.tip \in accepted /\ cmd.work.tip < tip /\ Fine(cmd.work) /\ cmd.work.tip # 0
      BY <1>2, <2>1, <3>2 DEF Won, Scanned, Handing
    <3>5. cmd.work.height # 0 /\ cmd.work.height <= tip
      BY <1>2, <1>3, <3>4 DEF Fine
    <3>. QED  BY <3>2, <3>3, <3>5 DEF AlreadySolved
  <2>. QED  BY <2>2, <2>3
<1>7. OncePerBlock'
  <2>. SUFFICES ASSUME wpc' = "send"  PROVE cmd'.work.tip \notin accepted'
    BY DEF OncePerBlock
  <2>1. accepted' = accepted
    BY <1>3
  <2>2. CASE ~Workio
    BY <1>1, <2>1, <2>2, OthersKeepCalls DEF calls, Won, OncePerBlock
  <2>3. CASE Workio
    <3>1. WioCheck \/ WioSolved
      BY <2>3, AfterInfoOK DEF Workio, WioPop, WioWoken, WioFreeze, WioFetch, WioFetchFailed, WioFallBack,
         WioRefuse, WioUndecodable, WioUndecoded, WioFetchSwitched, WioInfo, WioInfoFailed, WioNoInfo, WioAnswer,
         WioSend, WioSendFailed, WioShare, CmdDone, Retry
    <3>2. ~WioCheck
      BY <1>1 DEF WioCheck, CmdDone, CmdGoesOn, Quiet, Fetched
    <3>3. WioSolved /\ ~AlreadySolved(cmd.work) /\ cmd' = cmd /\ wpc = "solved"
      BY <3>1, <3>2 DEF WioSolved, CmdDone, CmdGoesOn
    <3>. QED  BY <2>1, <3>3 DEF Won
  <2>. QED  BY <2>2, <2>3
<1>. QED  BY <1>4, <1>5, <1>6, <1>7 DEF Won

(* submit_upstream_work asks for the height of the chain before it sends a *)
(* solution, so that none is sent for a block that another of ours was     *)
(* accepted for: neither that of another thread nor the same once more,    *)
(* when the answer was lost. It rests on that call, which has to succeed.  *)
THEOREM SolvedOnce == NodeOnly /\ InfoReliable = TRUE => (Spec => []OncePerBlock)
<1>. SUFFICES ASSUME NodeOnly, InfoReliable = TRUE  PROVE Spec => []OncePerBlock
  OBVIOUS
<1>1. Init => Fetched /\ Scanned /\ Won
  <2>. SUFFICES ASSUME Init  PROVE Fetched /\ Scanned /\ Won
    OBVIOUS
  <2>1. Around = {NoWork} /\ ret = NoWork /\ NoWork.height = 0 /\ NoWork.tip = 0
    BY AroundInit DEF NoWork
  <2>2. /\ allow_mininginfo = TRUE /\ tip = 1 /\ wpc = "pop" /\ accepted = {} /\ wq = << >>
        /\ \A t \in ThreadIds : pc[t] = "lock"
    BY DEF Init
  <2>3. DOMAIN << >> = {}
    OBVIOUS
  <2>. QED  BY <2>1, <2>2, <2>3 DEF Fetched, Scanned, Won, Fine, OncePerBlock, Scanning, Handing
<1>2. IInv /\ OInv /\ Fetched /\ Scanned /\ Won /\ [Next]_vars => Fetched' /\ Scanned' /\ Won'
  BY FetchedNext, ScannedNext, WonNext
<1>3. Won => OncePerBlock
  BY DEF Won
<1>. QED  BY <1>1, <1>2, <1>3, OrderInductive, PTL DEF Spec

=============================================================================
