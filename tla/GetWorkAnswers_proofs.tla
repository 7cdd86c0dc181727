------------------------ MODULE GetWorkAnswers_proofs ------------------------
(***************************************************************************)
(* Every request for work has one answer (OneAnswer of GetWork), whatever  *)
(* fails, wakes up spuriously or switches to stratum meanwhile.            *)
(***************************************************************************)
EXTENDS GetWork_proofs, Counting

Frozen == {"freeze", "end"}
Fetching == {"fetch", "info", "badinfo", "bad", "answer"}

(* A request is for the thread that made it, in the queue and at hand.     *)
Gets ==
  /\ \A i \in DOMAIN wq : wq[i].cmd = "get" => wq[i] = Request(wq[i].thr)
  /\ wpc \in Fetching => cmd.cmd = "get"

(* The owner of g_work_lock waits for work, or has its answer in hand.     *)
Owning == {"await", "got"}
Owns == \A t \in ThreadIds : pc[t] \in Owning <=> g_work_lock = t

(* The answers to come to thread t: as requests, at hand and as works.     *)
Asked(t) == Count(wq, {Request(t)})
Served(t) == IF cmd.cmd = "get" /\ cmd.thr = t /\ wpc \in Fetching THEN 1 ELSE 0
Held(t) == Asked(t) + Len(reply[t]) + Served(t)
Wanted(t) == IF pc[t] = "await" THEN 1 ELSE 0

(* As OneAnswer says; and when the workio thread has ended, no more.       *)
HeldOnce ==
  \A t \in ThreadIds : pc[t] # "left" =>
    /\ Held(t) <= Wanted(t)
    /\ wpc \notin Frozen => Held(t) = Wanted(t)

AInv == Gets /\ Owns /\ HeldOnce

-----------------------------------------------------------------------------
(* Counts                                                                  *)

LEMMA HeldTypes ==
  ASSUME IInv
  PROVE  \A t \in ThreadIds : /\ Asked(t) \in Nat /\ Len(reply[t]) \in Nat /\ Served(t) \in {0, 1}
                              /\ Wanted(t) \in {0, 1} /\ (Wanted(t) = 1 <=> pc[t] = "await")
                              /\ Len(reply[t]) = 0 <=> reply[t] = << >>
<1>. SUFFICES ASSUME NEW t \in ThreadIds
              PROVE  /\ Asked(t) \in Nat /\ Len(reply[t]) \in Nat /\ Served(t) \in {0, 1}
                     /\ Wanted(t) \in {0, 1} /\ (Wanted(t) = 1 <=> pc[t] = "await")
                     /\ Len(reply[t]) = 0 <=> reply[t] = << >>
  OBVIOUS
<1>1. wq \in Seq(Cmds) /\ reply[t] \in Seq(Works)
  BY DEF IInv, TypeOK
<1>2. Asked(t) \in Nat
  BY <1>1, CountIsNat DEF Asked
<1>3. Len(reply[t]) \in Nat /\ (Len(reply[t]) = 0 <=> reply[t] = << >>)
  BY <1>1
<1>. QED  BY <1>2, <1>3 DEF Served, Wanted

LEMMA Asking ==
  ASSUME NEW t \in ThreadIds
  PROVE  /\ Request(t) \in Cmds /\ Request(t).cmd = "get" /\ Request(t).thr = t
         /\ Submission(t).cmd = "submit"
         /\ \A u \in ThreadIds : Request(t) = Request(u) => t = u
         /\ \A u \in ThreadIds : Submission(t) # Request(u)
<1>1. \A u : Request(u).cmd = "get" /\ Request(u).thr = u
  BY DEF Request
<1>2. Submission(t).cmd = "submit"
  BY DEF Submission
<1>3. Request(t) \in Cmds
  BY NoWorkType DEF Request, Cmds
<1>4. \A u \in ThreadIds : Submission(t) # Request(u)
  <2>1. \A u : Request(u).cmd # Submission(t).cmd
    BY <1>1, <1>2
  <2>. QED  BY <2>1, Zenon
<1>. QED  BY <1>1, <1>2, <1>3, <1>4

(* When the requests, the replies and the thread itself stay the same, so  *)
(* does what it is said to hold.                                           *)
LEMMA SameHeld ==
  ASSUME NEW t \in ThreadIds, UNCHANGED <<Asked(t), Served(t), reply[t]>>
  PROVE  Held(t)' = Held(t)
BY DEF Held

-----------------------------------------------------------------------------
(* The workio thread                                                       *)

(* What a call may change of it all: it may end with no answer only when   *)
(* the thread ends.                                                        *)
LEMMA CallHolds ==
  ASSUME IInv, AInv, UNCHANGED <<pc, g_work_lock, reply, wq>>,
         wpc \in Frozen => wpc' \in Frozen,
         wpc' \in Fetching => wpc \in Fetching /\ cmd' = cmd,
         wpc \in Fetching => wpc' \in Fetching \cup Frozen
  PROVE  AInv'
<1>1. Owns'
  BY DEF AInv, Owns
<1>2. Gets'
  BY DEF AInv, Gets
<1>3. HeldOnce'
  <2>. SUFFICES ASSUME NEW t \in ThreadIds, pc[t] # "left"
                PROVE  /\ Held(t)' <= Wanted(t)'
                       /\ wpc' \notin Frozen => Held(t)' = Wanted(t)'
    BY DEF HeldOnce
  <2>1. Asked(t)' = Asked(t) /\ Wanted(t)' = Wanted(t) /\ Len(reply[t])' = Len(reply[t])
    BY DEF Asked, Wanted
  <2>2. Served(t)' <= Served(t) /\ (wpc' \notin Frozen => Served(t)' = Served(t))
    BY DEF Served, Frozen, Fetching
  <2>3. Served(t)' \in {0, 1}
    BY DEF Served
  <2>4. /\ Held(t) = Asked(t) + Len(reply[t]) + Served(t)
        /\ Held(t)' = Asked(t) + Len(reply[t]) + Served(t)'
    BY <2>1 DEF Held
  <2>5. Held(t) <= Wanted(t) /\ (wpc \notin Frozen => Held(t) = Wanted(t))
    BY DEF AInv, HeldOnce
  <2>6. Asked(t) \in Nat /\ Len(reply[t]) \in Nat /\ Served(t) \in {0, 1} /\ Wanted(t) \in {0, 1}
    BY HeldTypes
  <2>. QED  BY <2>1, <2>2, <2>3, <2>4, <2>5, <2>6
<1>. QED  BY <1>1, <1>2, <1>3 DEF AInv

LEMMA PopHolds ==
  ASSUME IInv, AInv, WioPop
  PROVE  AInv'
<1>1. UNCHANGED <<pc, g_work_lock, reply>> /\ wpc = "pop" /\ wq # << >>
  BY DEF WioPop, shared, mvars
<1>2. /\ cmd' = Head(wq) /\ wq' = Tail(wq)
      /\ wpc' = IF Head(wq).cmd = "get" THEN "fetch" ELSE "check"
  BY DEF WioPop
<1>3. wq \in Seq(Cmds)
  BY DEF IInv, TypeOK
<1>4. /\ Head(wq) = wq[1] /\ 1 \in DOMAIN wq
      /\ \A i \in DOMAIN Tail(wq) : i + 1 \in DOMAIN wq /\ Tail(wq)[i] = wq[i + 1]
  BY <1>1, <1>3, Shrunk
<1>5. Owns'
  BY <1>1 DEF AInv, Owns
<1>6. Gets'
  BY <1>2, <1>4 DEF AInv, Gets, Fetching
<1>7. HeldOnce'
  <2>. SUFFICES ASSUME NEW t \in ThreadIds, pc[t] # "left"
                PROVE  Held(t)' = Wanted(t)'
    BY <1>1 DEF HeldOnce, Wanted
  <2>1. Asked(t)' = IF Head(wq) = Request(t) THEN Asked(t) - 1 ELSE Asked(t)
    BY <1>1, <1>2, <1>3, CountShrinks DEF Asked
  <2>2. Served(t) = 0
    BY <1>1 DEF Served, Fetching
  <2>3. Served(t)' = IF Head(wq) = Request(t) THEN 1 ELSE 0
    BY <1>2, <1>4, Asking DEF Served, Fetching, AInv, Gets
  <2>4. Held(t) = Wanted(t) /\ Wanted(t)' = Wanted(t) /\ Len(reply[t])' = Len(reply[t])
    BY <1>1 DEF AInv, HeldOnce, Frozen, Wanted
  <2>. QED  BY <2>1, <2>2, <2>3, <2>4, HeldTypes DEF Held
<1>. QED  BY <1>5, <1>6, <1>7 DEF AInv

(* The answer comes out of the hand of the workio thread into the queue of *)
(* the thread that asked.                                                  *)
LEMMA AnswerHolds ==
  ASSUME IInv, AInv, WioAnswer
  PROVE  AInv'
<1>1. UNCHANGED <<pc, g_work_lock, wq>> /\ wpc = "answer" /\ wpc' = "pop" /\ cmd' = NoCmd
  BY DEF WioAnswer, CmdDone, shared, mvars
<1>2. reply' = IF pc[cmd.thr] = "left" THEN reply
               ELSE [reply EXCEPT ![cmd.thr] = Append(@, ret)]
  BY DEF WioAnswer
<1>3. reply \in [ThreadIds -> Seq(Works)] /\ ret \in Works /\ cmd.thr \in ThreadIds /\ cmd.cmd = "get"
  BY <1>1 DEF IInv, TypeOK, Queued, AInv, Gets, Fetching
<1>4. Owns'
  BY <1>1 DEF AInv, Owns
<1>5. Gets'
  BY <1>1 DEF AInv, Gets, Fetching
<1>6. HeldOnce'
  <2>. SUFFICES ASSUME NEW t \in ThreadIds, pc[t] # "left"
                PROVE  Held(t)' = Wanted(t)'
    BY <1>1 DEF HeldOnce, Wanted
  <2>1. Asked(t)' = Asked(t) /\ Wanted(t)' = Wanted(t) /\ Held(t) = Wanted(t)
    BY <1>1 DEF Asked, Wanted, AInv, HeldOnce, Frozen
  <2>2. Served(t)' = 0 /\ Served(t) = IF cmd.thr = t THEN 1 ELSE 0
    BY <1>1, <1>3 DEF Served, Fetching
  <2>3. Len(reply[t])' = IF cmd.thr = t THEN Len(reply[t]) + 1 ELSE Len(reply[t])
    <3>1. CASE cmd.thr = t
      <4>1. reply'[t] = Append(reply[t], ret) /\ reply[t] \in Seq(Works)
        BY <1>2, <1>3, <3>1
      <4>. QED  BY <1>3, <3>1, <4>1, Grown
    <3>2. CASE cmd.thr # t
      BY <1>2, <1>3, <3>2
    <3>. QED  BY <3>1, <3>2
  <2>. QED  BY <2>1, <2>2, <2>3, HeldTypes DEF Held
<1>. QED  BY <1>4, <1>5, <1>6 DEF AInv

LEMMA WorkioHolds ==
  ASSUME IInv, AInv, Workio
  PROVE  AInv'
<1>1. CASE WioPop
  BY <1>1, PopHolds
<1>2. CASE WioAnswer
  BY <1>2, AnswerHolds
<1>3. CASE \/ WioWoken \/ WioFreeze \/ WioFetch \/ WioFetchSwitched \/ WioFetchFailed \/ WioFallBack
           \/ WioRefuse \/ WioUndecodable \/ WioUndecoded \/ WioInfo \/ WioInfoFailed \/ WioNoInfo
  <2>1. UNCHANGED <<pc, g_work_lock, reply, wq>>
    BY <1>3 DEF WioWoken, WioFreeze, WioFetch, WioFetchSwitched, WioFetchFailed, WioFallBack, WioRefuse,
                WioUndecodable, WioUndecoded, WioInfo, WioInfoFailed, WioNoInfo, shared, mvars
  <2>2. CASE WioInfo \/ WioInfoFailed \/ WioNoInfo
    <3>1. cmd' = cmd /\ wpc \in {"info", "badinfo", "submitinfo"} /\ wpc' = AfterInfo[wpc]
      BY <2>2, AfterInfoOK DEF WioInfo, WioInfoFailed, WioNoInfo
    <3>2. /\ wpc = "submitinfo" => wpc' = "solved"
          /\ wpc # "submitinfo" => wpc' \in {"answer", "bad"}
      BY <3>1 DEF AfterInfo
    <3>. QED  BY <2>1, <3>1, <3>2, CallHolds DEF Fetching, Frozen
  <2>3. CASE ~(WioInfo \/ WioInfoFailed \/ WioNoInfo)
    <3>1. \/ wpc \in {"pop", "freeze"} /\ wpc' \in {"freeze", "end"}
          \/ wpc \in {"fetch", "bad"} /\ wpc' \in {"fetch", "info", "badinfo", "answer", "freeze"} /\ cmd' = cmd
      BY <1>3, <2>3 DEF WioWoken, WioFreeze, WioFetch, WioFetchSwitched, WioFetchFailed, WioFallBack,
                        WioRefuse, WioUndecodable, WioUndecoded, Retry
    <3>. QED  BY <2>1, <3>1, CallHolds DEF Fetching, Frozen
  <2>. QED  BY <2>2, <2>3
<1>4. CASE WioCheck \/ WioSolved \/ WioSend \/ WioSendFailed \/ WioShare
  <2>1. UNCHANGED <<pc, g_work_lock, reply, wq>>
    BY <1>4 DEF WioCheck, WioSolved, WioSend, WioSendFailed, WioShare, shared, mvars
  <2>2. wpc \in {"check", "solved", "send"} /\ wpc' \in {"pop", "check", "submitinfo", "send", "freeze"}
    BY <1>4 DEF WioCheck, WioSolved, WioSend, WioSendFailed, WioShare, CmdDone, CmdGoesOn, Retry
  <2>. QED  BY <2>1, <2>2, CallHolds DEF Fetching, Frozen
<1>. QED  BY <1>1, <1>2, <1>3, <1>4 DEF Workio

-----------------------------------------------------------------------------
(* The miner threads                                                       *)

(* A step of thread t that neither asks nor takes an answer.               *)
LEMMA ScanHolds ==
  ASSUME IInv, AInv, NEW t \in ThreadIds,
         UNCHANGED <<g_work_lock, reply, wpc, cmd>>,
         wq' = wq \/ wq' = Append(wq, Submission(t)),
         pc[t] \notin Owning, pc[t] # "left",
         \E s \in {"lock", "scan", "submit", "submitted", "zero", "left"} : pc' = [pc EXCEPT ![t] = s]
  PROVE  AInv'
<1>1. wq \in Seq(Cmds) /\ pc \in [ThreadIds -> {"lock", "await", "got", "scan", "submit", "submitted", "zero", "left"}]
      /\ work \in [ThreadIds -> Works]
  BY DEF IInv, TypeOK
<1>2. Submission(t) \in Cmds
  BY <1>1 DEF Submission, Cmds
<1>3. pc[t] # "await" /\ pc'[t] \notin Owning /\ \A u \in ThreadIds : u # t => pc'[u] = pc[u]
  BY <1>1 DEF Owning
<1>4. Owns'
  BY <1>3 DEF AInv, Owns
<1>5. Gets'
  <2>1. \A i \in DOMAIN wq' : wq'[i] = Submission(t) \/ (i \in DOMAIN wq /\ wq'[i] = wq[i])
    BY <1>1, <1>2, Grown
  <2>. QED  BY <2>1, Asking DEF AInv, Gets
<1>6. HeldOnce'
  <2>. SUFFICES ASSUME NEW u \in ThreadIds, pc'[u] # "left"
                PROVE  /\ Held(u)' <= Wanted(u)'
                       /\ wpc' \notin Frozen => Held(u)' = Wanted(u)'
    BY DEF HeldOnce
  <2>1. Asked(u)' = Asked(u)
    <3>1. CASE wq' = wq
      BY <3>1 DEF Asked
    <3>2. CASE wq' = Append(wq, Submission(t))
      BY <1>1, <1>2, <3>2, CountGrows, Asking DEF Asked
    <3>. QED  BY <3>1, <3>2
  <2>2. Served(u)' = Served(u)
    BY DEF Served
  <2>3. pc[u] # "left" /\ Wanted(u)' = Wanted(u)
    BY <1>3 DEF Wanted, Owning
  <2>4. Held(u)' = Held(u)
    BY <2>1, <2>2 DEF Held
  <2>. QED  BY <2>3, <2>4 DEF AInv, HeldOnce
<1>. QED  BY <1>4, <1>5, <1>6 DEF AInv

LEMMA RequestHolds ==
  ASSUME IInv, AInv, NEW t \in ThreadIds, MinerRequest(t)
  PROVE  AInv'
<1>1. UNCHANGED <<reply, wpc, cmd>> /\ pc[t] = "lock" /\ g_work_lock = NoOwner
  BY DEF MinerRequest, wvars, calls
<1>2. wq \in Seq(Cmds) /\ pc \in [ThreadIds -> {"lock", "await", "got", "scan", "submit", "submitted", "zero", "left"}]
  BY DEF IInv, TypeOK
<1>3. CASE WorkioDead
  BY <1>1, <1>3, ScanHolds DEF MinerRequest, Owning
<1>4. CASE ~WorkioDead
  <2>1. wq' = Append(wq, Request(t)) /\ g_work_lock' = t /\ pc' = [pc EXCEPT ![t] = "await"]
    BY <1>4 DEF MinerRequest
  <2>2. pc'[t] = "await" /\ \A u \in ThreadIds : u # t => pc'[u] = pc[u]
    BY <1>2, <2>1
  <2>3. Owns'
    BY <1>1, <2>1, <2>2, Owner DEF AInv, Owns, Owning
  <2>4. Gets'
    <3>1. \A i \in DOMAIN wq' : wq'[i] = Request(t) \/ (i \in DOMAIN wq /\ wq'[i] = wq[i])
      BY <1>2, <2>1, Grown, Asking
    <3>. QED  BY <1>1, <3>1, Asking DEF AInv, Gets
  <2>5. HeldOnce'
    <3>. SUFFICES ASSUME NEW u \in ThreadIds, pc'[u] # "left"
                  PROVE  /\ Held(u)' <= Wanted(u)'
                         /\ wpc' \notin Frozen => Held(u)' = Wanted(u)'
      BY DEF HeldOnce
    <3>1. Asked(u)' = IF u = t THEN Asked(u) + 1 ELSE Asked(u)
      BY <1>2, <2>1, CountGrows, Asking DEF Asked
    <3>2. Served(u)' = Served(u) /\ Len(reply[u])' = Len(reply[u])
      BY <1>1 DEF Served
    <3>3. Wanted(u)' = (IF u = t THEN 1 ELSE Wanted(u)) /\ (u = t => Wanted(u) = 0) /\ pc[u] # "left"
      BY <1>1, <2>2 DEF Wanted
    <3>4. Held(u) <= Wanted(u) /\ (wpc \notin Frozen => Held(u) = Wanted(u))
      BY <3>3 DEF AInv, HeldOnce
    <3>5. /\ Held(u) = Asked(u) + Len(reply[u]) + Served(u)
          /\ Held(u)' = Asked(u)' + Len(reply[u]) + Served(u)
      BY <3>2 DEF Held
    <3>. QED  BY <1>1, <3>1, <3>3, <3>4, <3>5, HeldTypes
  <2>. QED  BY <2>3, <2>4, <2>5 DEF AInv
<1>. QED  BY <1>3, <1>4

LEMMA GotHolds ==
  ASSUME IInv, AInv, NEW t \in ThreadIds, MinerGot(t)
  PROVE  AInv'
<1>1. UNCHANGED <<wq, wpc, cmd, g_work_lock>> /\ pc[t] = "await" /\ reply[t] # << >>
  BY DEF MinerGot, wvars, calls
<1>2. /\ reply \in [ThreadIds -> Seq(Works)]
      /\ pc \in [ThreadIds -> {"lock", "await", "got", "scan", "submit", "submitted", "zero", "left"}]
  BY DEF IInv, TypeOK
<1>3. reply' = [reply EXCEPT ![t] = Tail(reply[t])]
  BY DEF MinerGot
<1>4. pc'[t] = "got" /\ \A u \in ThreadIds : u # t => pc'[u] = pc[u]
  BY <1>2 DEF MinerGot
<1>5. Owns'
  BY <1>1, <1>4 DEF AInv, Owns, Owning
<1>6. Gets'
  BY <1>1 DEF AInv, Gets
<1>7. HeldOnce'
  <2>. SUFFICES ASSUME NEW u \in ThreadIds, pc'[u] # "left"
                PROVE  /\ Held(u)' <= Wanted(u)'
                       /\ wpc' \notin Frozen => Held(u)' = Wanted(u)'
    BY DEF HeldOnce
  <2>1. Asked(u)' = Asked(u) /\ Served(u)' = Served(u)
    BY <1>1 DEF Asked, Served
  <2>2. Len(reply[u])' = IF u = t THEN Len(reply[u]) - 1 ELSE Len(reply[u])
    <3>1. CASE u = t
      <4>1. reply'[t] = Tail(reply[t]) /\ reply[t] \in Seq(Works)
        BY <1>2, <1>3
      <4>. QED  BY <1>1, <3>1, <4>1, Shrunk
    <3>2. CASE u # t
      BY <1>2, <1>3, <3>2
    <3>. QED  BY <3>1, <3>2
  <2>3. Wanted(u)' = (IF u = t THEN 0 ELSE Wanted(u)) /\ (u = t => Wanted(u) = 1) /\ pc[u] # "left"
    BY <1>1, <1>4 DEF Wanted
  <2>4. Held(u) <= Wanted(u) /\ (wpc \notin Frozen => Held(u) = Wanted(u))
    BY <2>3 DEF AInv, HeldOnce
  <2>5. /\ Held(u) = Asked(u) + Len(reply[u]) + Served(u)
        /\ Held(u)' = Asked(u) + Len(reply[u])' + Served(u)
    BY <2>1 DEF Held
  <2>. QED  BY <1>1, <2>2, <2>3, <2>4, <2>5, HeldTypes
<1>. QED  BY <1>5, <1>6, <1>7 DEF AInv

(* With its answer in hand the thread frees the lock and goes on.          *)
LEMMA GoesOnHolds ==
  ASSUME IInv, AInv, NEW t \in ThreadIds, MinerGoesOn(t)
  PROVE  AInv'
<1>1. UNCHANGED <<wq, wpc, cmd, reply>> /\ pc[t] = "got" /\ g_work_lock' = NoOwner
  BY DEF MinerGoesOn, wvars, calls
<1>2. pc \in [ThreadIds -> {"lock", "await", "got", "scan", "submit", "submitted", "zero", "left"}]
  BY DEF IInv, TypeOK
<1>3. pc'[t] \in {"lock", "scan"} /\ \A u \in ThreadIds : u # t => pc'[u] = pc[u]
  BY <1>2 DEF MinerGoesOn
<1>4. Owns'
  BY <1>1, <1>3, Owner DEF AInv, Owns, Owning
<1>5. Gets'
  BY <1>1 DEF AInv, Gets
<1>6. HeldOnce'
  BY <1>1, <1>3 DEF AInv, HeldOnce, Held, Asked, Served, Wanted
<1>. QED  BY <1>4, <1>5, <1>6 DEF AInv

LEMMA WokenHolds ==
  ASSUME IInv, AInv, NEW t \in ThreadIds, MinerWoken(t)
  PROVE  AInv'
<1>1. /\ UNCHANGED <<wq, wpc, cmd, reply>> /\ pc[t] = "await" /\ g_work_lock' = NoOwner
      /\ pc' = [pc EXCEPT ![t] = "left"]
  BY DEF MinerWoken, wvars, calls
<1>2. pc \in [ThreadIds -> {"lock", "await", "got", "scan", "submit", "submitted", "zero", "left"}]
  BY DEF IInv, TypeOK
<1>3. pc'[t] = "left" /\ \A u \in ThreadIds : u # t => pc'[u] = pc[u]
  BY <1>1, <1>2
<1>4. Owns'
  BY <1>1, <1>3, Owner DEF AInv, Owns, Owning
<1>5. Gets'
  BY <1>1 DEF AInv, Gets
<1>6. HeldOnce'
  BY <1>1, <1>3 DEF AInv, HeldOnce, Held, Asked, Served, Wanted
<1>. QED  BY <1>4, <1>5, <1>6 DEF AInv

LEMMA MinerHolds ==
  ASSUME IInv, AInv, NEW t \in ThreadIds, Miner(t)
  PROVE  AInv'
<1>1. CASE MinerRequest(t) \/ MinerGot(t) \/ MinerGoesOn(t) \/ MinerWoken(t)
  BY <1>1, RequestHolds, GotHolds, GoesOnHolds, WokenHolds
<1>2. CASE MinerTake(t) \/ MinerScanEnd(t) \/ MinerFound(t) \/ MinerSubmit(t) \/ MinerSubmitted(t) \/ MinerZero(t)
  <2>1. UNCHANGED <<g_work_lock, reply, wpc, cmd>> /\ pc[t] \notin Owning /\ pc[t] # "left"
    BY <1>2 DEF MinerTake, MinerScanEnd, MinerFound, MinerSubmit, MinerSubmitted, MinerZero, shared,
                wvars, calls, Owning
  <2>2. wq' = wq \/ wq' = Append(wq, Submission(t))
    BY <1>2 DEF MinerTake, MinerScanEnd, MinerFound, MinerSubmit, MinerSubmitted, MinerZero
  <2>3. \E s \in {"lock", "scan", "submit", "submitted", "zero", "left"} : pc' = [pc EXCEPT ![t] = s]
    BY <1>2 DEF MinerTake, MinerScanEnd, MinerFound, MinerSubmit, MinerSubmitted, MinerZero
  <2>. QED  BY <2>1, <2>2, <2>3, ScanHolds
<1>. QED  BY <1>1, <1>2 DEF Miner

-----------------------------------------------------------------------------
(* The theorem                                                             *)

LEMMA AnswersInit == Init => AInv
<1>. SUFFICES ASSUME Init  PROVE AInv
  OBVIOUS
<1>1. /\ wq = << >> /\ wpc = "pop" /\ g_work_lock = NoOwner
      /\ \A t \in ThreadIds : pc[t] = "lock" /\ reply[t] = << >>
  BY DEF Init
<1>2. Gets /\ Owns
  BY <1>1, Owner DEF Gets, Owns, Owning, Fetching
<1>3. HeldOnce
  <2>. SUFFICES ASSUME NEW t \in ThreadIds  PROVE Held(t) = 0 /\ Wanted(t) = 0
    BY DEF HeldOnce
  <2>1. Asked(t) = 0
    <3>1. << >> \in Seq(Cmds) /\ DOMAIN << >> = {}
      OBVIOUS
    <3>2. Count(<< >>, {Request(t)}) = 0
      BY <3>1, CountIsNat
    <3>. QED  BY <1>1, <3>2 DEF Asked
  <2>. QED  BY <1>1, <2>1 DEF Held, Served, Wanted, Fetching
<1>. QED  BY <1>2, <1>3 DEF AInv

LEMMA AnswersNext == IInv /\ AInv /\ [Next]_vars => AInv'
<1>. SUFFICES ASSUME IInv, AInv, [Next]_vars  PROVE AInv'
  OBVIOUS
<1>1. CASE Workio
  BY <1>1, WorkioHolds
<1>2. CASE \E t \in ThreadIds : Miner(t)
  BY <1>2, MinerHolds
<1>3. CASE Longpoll \/ StratumJob \/ NewBlock \/ Age \/ UNCHANGED vars
  <2>1. UNCHANGED <<pc, g_work_lock, reply, wq, wpc, cmd>>
    BY <1>3 DEF Longpoll, PollPop, PollWoken, PollAsk, PollEnd, PollAnswered, PollDecode, PollUndecoded,
                PollFailed, PollLate, PollStop, StratumJob, NewBlock, Age, vars, shared, mvars, wvars, calls
  <2>. QED  BY <2>1, CallHolds
<1>. QED  BY <1>1, <1>2, <1>3 DEF Next

(* The types and, with them, where the answers are: who waits has asked    *)
(* once, and nothing is on its way to anybody else.                        *)
THEOREM AnswersInductive == Spec => [](IInv /\ AInv)
<1>1. Init => IInv /\ AInv
  BY Starts, AnswersInit
<1>2. IInv /\ AInv /\ [Next]_vars => (IInv /\ AInv)'
  BY AnswersNext, MinerKeeps, WorkioKeeps, LongpollKeeps, OthersKeep, StutterKeeps DEF Next
<1>. QED  BY <1>1, <1>2, PTL DEF Spec

(* get_work and workio_get_work: for a thread that waits there is exactly  *)
(* one answer on its way, and for no other thread one, whatever calls fail *)
(* and whoever wakes up for nothing; and g_work_lock is held by the thread *)
(* that waits, until it has looked at its answer.                          *)
THEOREM OneAnswerAlways == Spec => []OneAnswer
<1>1. IInv /\ AInv => OneAnswer
  <2>. SUFFICES ASSUME IInv, AInv, NEW t \in ThreadIds
                PROVE  /\ pc[t] \in {"await", "got"} <=> g_work_lock = t
                       /\ wpc \notin {"freeze", "end"} /\ pc[t] # "left"
                            => Pending(t) = IF pc[t] = "await" THEN 1 ELSE 0
    BY DEF OneAnswer
  <2>1. {i \in DOMAIN wq : wq[i] = Request(t)} = Places(wq, {Request(t)})
    BY DEF Places
  <2>2. Pending(t) = Held(t)
    BY <2>1 DEF Pending, Held, Asked, Count, Served, Fetching
  <2>. QED  BY <2>2 DEF AInv, Owns, Owning, HeldOnce, Frozen, Wanted
<1>. QED  BY <1>1, AnswersInductive, PTL

=============================================================================
