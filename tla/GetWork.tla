------------------------------ MODULE GetWork ------------------------------
(***************************************************************************)
(* Mining from a node or a getwork server in cpu-miner.c: N miner threads  *)
(* that request work from the workio thread over its queue and hand it     *)
(* their solutions; the workio thread, which calls the server and answers  *)
(* over the queue of the thread that asked; and the long-polling thread,   *)
(* which waits for the server's next work. The answer to any call may turn *)
(* long polling on, or make the program switch to stratum, whose own       *)
(* thread then fills g_work (StratumSession).                              *)
(*                                                                         *)
(* A miner thread keeps g_work_lock while it waits for an answer, so the   *)
(* others wait with it, the long-polling thread with an answer in hand;    *)
(* the workio thread reads g_work without the lock.                        *)
(* The chain of the server is its length: work on block k extends a chain  *)
(* of k blocks and is recognised by its previous hash, solved by a share   *)
(* of height k + 1.                                                        *)
(*                                                                         *)
(* Configuration modelled: no jsonrpc_2, an algorithm with an 80-byte      *)
(* header, a little-endian machine, no time limit. The nonce of a work is  *)
(* left out: a thread may find its range used up at any time. The restart  *)
(* flags are left out too: they end a scan, and here a scan may end at any *)
(* time.                                                                   *)
(***************************************************************************)
EXTENDS Integers, Sequences, FiniteSets

CONSTANTS
  N,             \* number of miner threads (opt_n_threads)
  Gbt,           \* have_gbt at the start: no --no-gbt
  AllowGetwork,  \* allow_getwork: no --no-getwork
  Retries,       \* opt_retries, -1 for ever
  Spurious,      \* whether tq_pop may return NULL from an empty queue
  Malformed,     \* whether the server may send works that cannot be decoded
  InfoReliable,  \* whether every getmininginfo call is answered
  Poll,          \* want_longpoll, and the server offers it
  Switch,        \* want_stratum, and the server may send X-Stratum
  MaxTip,        \* bound: the length of the chain
  MaxQueue       \* bound: the commands in the queue when a solution is found

ThreadIds == 0 .. N - 1
NoOwner == N

ASSUME ThreadAssumption == N \in Nat \ {0}
ASSUME OptionAssumption ==
  /\ {Gbt, AllowGetwork, Spurious, Malformed, InfoReliable, Poll, Switch} \subseteq BOOLEAN
  /\ Gbt \/ AllowGetwork
  /\ Retries \in Int /\ Retries >= -1
ASSUME BoundAssumption == MaxTip \in Nat /\ MaxQueue \in Nat

VARIABLES
  tip,              \* the length of the server's chain
  have_gbt,         \* whether getblocktemplate is still used
  allow_mininginfo, \* whether getmininginfo is still used
  net_blocks,       \* the chain length last reported by getmininginfo
  g_work,           \* the shared work
  due,              \* g_work_time is 0, or scantime seconds old or more
  g_work_lock,      \* owner of g_work_lock: a thread that awaits work, or NoOwner
  pc,               \* where miner thread t is
  work,             \* the work miner thread t scans
  reply,            \* the queue of thread t
  wq,               \* the queue of the workio thread
  wpc,              \* where the workio thread is
  cmd,              \* the command it serves
  ret,              \* ret_work: the work it is fetching
  failures,         \* how often the command has failed
  have_longpoll,    \* whether long polling is on
  have_stratum,     \* whether the program has switched to stratum
  paths,            \* how many paths are in the queue of the long-polling thread
  lpc,              \* where the long-polling thread is
  lwork,            \* the work the server gave it
  submit_old,       \* whether the server wants stale solutions
  delivered,        \* history: <<thread, tip>> of the solutions the server got
  accepted          \* history: the tips a solution was accepted on

server == <<tip, delivered, accepted>>
shared == <<g_work, due, g_work_lock>>
mvars == <<pc, work>>
offers == <<have_longpoll, have_stratum, paths>>
pvars == <<lpc, lwork, submit_old>>
calls == <<wpc, cmd, ret, failures, have_gbt, allow_mininginfo, net_blocks>>
wvars == <<calls, offers, pvars>>
vars == <<server, shared, mvars, reply, wq, wvars>>

(* A zeroed struct work. height is 0 while unknown; gbt says that it has   *)
(* txs; swapped that its data are in the byte order they are sent in.      *)
NoWork == [tip |-> 0, height |-> 0, gbt |-> FALSE, swapped |-> FALSE]
PoolWork == [NoWork EXCEPT !.tip = -1]   \* a job of the stratum pool
NoCmd == [cmd |-> "none", thr |-> NoOwner, work |-> NoWork]

-----------------------------------------------------------------------------
(* Miner threads                                                           *)

(* Pushed on the queue of the workio thread, unless it is frozen. *)
WorkioDead == wpc = "end"
Request(t) == [cmd |-> "get", thr |-> t, work |-> NoWork]
Submission(t) == [cmd |-> "submit", thr |-> t, work |-> work[t]]

(* What thread t goes on with: a copy of g_work, or its old work and the   *)
(* next nonce when the headers are the same, as two of one block may be.   *)
Adopt(t, g) ==
  \E w \in {g} \cup (IF g.tip = work[t].tip THEN {work[t]} ELSE {}) :
    work' = [work EXCEPT ![t] = w]

(* Mutant: g_work is taken without a look at its age. *)
MinerTakeOld(t) ==
  /\ pc[t] = "lock" /\ g_work_lock = NoOwner /\ g_work.tip # 0
  /\ Adopt(t, g_work)
  /\ pc' = [pc EXCEPT ![t] = "scan"]
  /\ UNCHANGED <<server, shared, reply, wq, wvars>>

(* g_work is fresh and the nonce range of the thread is not used up. After *)
(* the switch a work without a job is not scanned.                         *)
MinerTake(t) ==
  /\ pc[t] = "lock" /\ g_work_lock = NoOwner /\ ~due
  /\ Adopt(t, g_work)
  /\ pc' = [pc EXCEPT ![t] = IF have_stratum /\ work'[t].tip = 0 THEN "lock" ELSE "scan"]
  /\ UNCHANGED <<server, shared, reply, wq, wvars>>

(* get_work up to the wait for the answer: g_work is due, or the range of  *)
(* the thread is used up. The thread ends if the queue is frozen.          *)
MinerRequest(t) ==
  /\ pc[t] = "lock" /\ g_work_lock = NoOwner /\ ~have_stratum
  /\ IF WorkioDead
     THEN /\ pc' = [pc EXCEPT ![t] = "left"]
          /\ UNCHANGED <<wq, g_work_lock>>
     ELSE /\ wq' = Append(wq, Request(t))
          /\ g_work_lock' = t
          /\ pc' = [pc EXCEPT ![t] = "await"]
  /\ UNCHANGED <<server, g_work, due, work, reply, wvars>>

(* The answer becomes g_work. After the switch it may be empty. *)
MinerGot(t) ==
  /\ pc[t] = "await" /\ reply[t] # <<>>
  /\ g_work' = Head(reply[t])
  /\ reply' = [reply EXCEPT ![t] = Tail(@)]
  /\ due' = have_stratum
  /\ pc' = [pc EXCEPT ![t] = "got"]
  /\ UNCHANGED <<server, g_work_lock, work, wq, wvars>>

(* Mutant: what was asked for is scanned, whatever has happened meanwhile. *)
MinerGoesOnAnyway(t) ==
  /\ pc[t] = "got"
  /\ g_work_lock' = NoOwner
  /\ Adopt(t, g_work)
  /\ pc' = [pc EXCEPT ![t] = "scan"]
  /\ UNCHANGED <<server, g_work, due, reply, wq, wvars>>

(* Still with the lock, the thread looks again for a switch, after which   *)
(* it has to wait for the stratum thread.                                  *)
MinerGoesOn(t) ==
  /\ pc[t] = "got"
  /\ g_work_lock' = NoOwner
  /\ IF have_stratum
     THEN /\ pc' = [pc EXCEPT ![t] = "lock"]
          /\ UNCHANGED work
     ELSE /\ Adopt(t, g_work)
          /\ pc' = [pc EXCEPT ![t] = "scan"]
  /\ UNCHANGED <<server, g_work, due, reply, wq, wvars>>

(* tq_pop returns NULL after a spurious wakeup: the thread gives up, and   *)
(* freezes its queue.                                                      *)
MinerWoken(t) ==
  /\ Spurious /\ pc[t] = "await" /\ reply[t] = <<>>
  /\ g_work_lock' = NoOwner
  /\ pc' = [pc EXCEPT ![t] = "left"]
  /\ UNCHANGED <<server, g_work, due, work, reply, wq, wvars>>

(* The scan ends without a result, or is skipped. *)
MinerScanEnd(t) ==
  /\ pc[t] = "scan"
  /\ pc' = [pc EXCEPT ![t] = "lock"]
  /\ UNCHANGED <<server, shared, work, reply, wq, wvars>>

MinerFound(t) ==
  /\ pc[t] = "scan" /\ work[t].tip < MaxTip /\ Len(wq) < MaxQueue
  /\ pc' = [pc EXCEPT ![t] = "submit"]
  /\ UNCHANGED <<server, shared, work, reply, wq, wvars>>

(* submit_work: a copy of the work goes to the workio thread. *)
MinerSubmit(t) ==
  /\ pc[t] = "submit"
  /\ IF WorkioDead
     THEN /\ pc' = [pc EXCEPT ![t] = "left"]
          /\ UNCHANGED wq
     ELSE /\ wq' = Append(wq, Submission(t))
          /\ pc' = [pc EXCEPT ![t] = "submitted"]
  /\ UNCHANGED <<server, shared, work, reply, wvars>>

MinerSubmitted(t) ==
  /\ pc[t] = "submitted"
  /\ pc' = [pc EXCEPT ![t] = IF have_stratum \/ have_longpoll THEN "lock" ELSE "zero"]
  /\ UNCHANGED <<server, shared, work, reply, wq, wvars>>

(* Mutant: g_work_time is left alone. *)
MinerZeroKept(t) ==
  /\ pc[t] = "zero" /\ g_work_lock = NoOwner
  /\ pc' = [pc EXCEPT ![t] = "lock"]
  /\ UNCHANGED <<server, shared, work, reply, wq, wvars>>

(* g_work_time = 0 under g_work_lock forces a request. *)
MinerZero(t) ==
  /\ pc[t] = "zero" /\ g_work_lock = NoOwner
  /\ due' = TRUE
  /\ pc' = [pc EXCEPT ![t] = "lock"]
  /\ UNCHANGED <<server, g_work, g_work_lock, work, reply, wq, wvars>>

Miner(t) ==
  \/ MinerTake(t) \/ MinerRequest(t) \/ MinerGot(t) \/ MinerGoesOn(t) \/ MinerWoken(t)
  \/ MinerScanEnd(t) \/ MinerFound(t) \/ MinerSubmit(t) \/ MinerSubmitted(t)
  \/ MinerZero(t)

-----------------------------------------------------------------------------
(* The workio thread                                                       *)

(* The headers of an answer: X-Stratum makes the program switch, and       *)
(* X-Long-Polling turns long polling on, as the longpollid of a template   *)
(* does. The path is pushed on the queue of the long-polling thread.       *)
Offered(template) ==
  /\ have_stratum' \in {have_stratum, have_stratum \/ Switch}
  /\ \E offered \in {FALSE, Poll} :
       LET new == /\ offered /\ ~have_longpoll /\ ~have_stratum'
                  /\ template \/ (~have_gbt /\ AllowGetwork)
       IN /\ have_longpoll' = (have_longpoll \/ new)
          /\ paths' = IF new /\ lpc # "end" THEN paths + 1 ELSE paths

(* The command is freed, and the thread turns to the next. *)
CmdDone == wpc' = "pop" /\ cmd' = NoCmd /\ ret' = NoWork /\ failures' = 0
CmdGoesOn(to) == wpc' = to /\ UNCHANGED <<cmd, ret, failures>>

WioPop ==
  /\ wpc = "pop" /\ wq # <<>>
  /\ cmd' = Head(wq) /\ wq' = Tail(wq)
  /\ wpc' = IF Head(wq).cmd = "get" THEN "fetch" ELSE "check"
  /\ UNCHANGED <<server, shared, mvars, reply, ret, failures, have_gbt, allow_mininginfo, net_blocks,
                 offers, pvars>>

WioWoken ==
  /\ Spurious /\ wpc = "pop" /\ wq = <<>>
  /\ wpc' = "freeze"
  /\ UNCHANGED <<server, shared, mvars, reply, wq, cmd, ret, failures, have_gbt,
                 allow_mininginfo, net_blocks, offers, pvars>>

(* tq_freeze at the end of the thread; main then ends the program. *)
WioFreeze ==
  /\ wpc = "freeze"
  /\ wpc' = "end" /\ cmd' = NoCmd /\ ret' = NoWork /\ failures' = 0
  /\ UNCHANGED <<server, shared, mvars, reply, wq, have_gbt,
                 allow_mininginfo, net_blocks, offers, pvars>>

(* A call failed: the command is tried again, or the thread ends. *)
Retry(from) ==
  IF Retries >= 0 /\ failures >= Retries
  THEN wpc' = "freeze" /\ UNCHANGED failures
  ELSE wpc' = from /\ failures' = IF Retries >= 0 THEN failures + 1 ELSE failures

(* What work a holds when the server's current work is decoded into it. A  *)
(* template has its height; a getwork leaves what is there.                *)
Decoded(template, on, a) ==
  [tip |-> on, height |-> IF template THEN on + 1 ELSE a.height,
   gbt |-> template \/ a.gbt, swapped |-> FALSE]

(* The server sends a work, which is decoded. *)
WioFetch ==
  /\ wpc = "fetch" /\ (have_gbt \/ AllowGetwork)
  /\ Offered(have_gbt) /\ ~have_stratum'
  /\ ret' = Decoded(have_gbt, tip, ret)
  /\ wpc' = "info"
  /\ UNCHANGED <<server, shared, mvars, reply, wq, cmd, failures, have_gbt,
                 allow_mininginfo, net_blocks, pvars>>

(* The call is over, well or not, and the program has switched to stratum: *)
(* the thread that waits is answered with what there is.                   *)
WioFetchSwitched ==
  /\ wpc = "fetch"
  /\ Offered(FALSE) /\ have_stratum'
  /\ wpc' = "answer"
  /\ UNCHANGED <<server, shared, mvars, reply, wq, cmd, ret, failures, have_gbt,
                 allow_mininginfo, net_blocks, pvars>>

(* Mutant: the command is dropped at once. *)
WioFetchFailedDropped ==
  /\ wpc = "fetch"
  /\ Offered(FALSE) /\ ~have_stratum'
  /\ wpc' = "pop" /\ UNCHANGED failures
  /\ UNCHANGED <<server, shared, mvars, reply, wq, cmd, ret, have_gbt,
                 allow_mininginfo, net_blocks, pvars>>

WioFetchFailed ==
  /\ wpc = "fetch"
  /\ Offered(FALSE) /\ ~have_stratum'
  /\ Retry("fetch")
  /\ UNCHANGED <<server, shared, mvars, reply, wq, cmd, ret, have_gbt,
                 allow_mininginfo, net_blocks, pvars>>

(* getblocktemplate gives no result without an error code (a 404, or no    *)
(* JSON at all): getwork is used from now on.                              *)
WioFallBack ==
  /\ wpc = "fetch" /\ have_gbt /\ AllowGetwork
  /\ Offered(FALSE) /\ ~have_stratum'
  /\ have_gbt' = FALSE
  /\ UNCHANGED <<server, shared, mvars, reply, wq, wpc, cmd, ret, failures,
                 allow_mininginfo, net_blocks, pvars>>

(* gbt_work_decode refuses the template, for its version or for want of an *)
(* address to pay to, after it has taken the height from it.               *)
WioRefuse ==
  /\ wpc = "fetch" /\ have_gbt /\ AllowGetwork
  /\ Offered(TRUE) /\ ~have_stratum'
  /\ have_gbt' = FALSE
  /\ ret' = [ret EXCEPT !.height = tip + 1]
  /\ UNCHANGED <<server, shared, mvars, reply, wq, wpc, cmd, failures,
                 allow_mininginfo, net_blocks, pvars>>

(* What work a may hold when decoding breaks off: a template has left its  *)
(* height and then its transactions.                                       *)
Halves(template, on, a) ==
  LET Half(g) == [tip |-> a.tip, height |-> on + 1, gbt |-> g, swapped |-> a.swapped]
  IN {a} \cup IF template THEN {Half(a.gbt), Half(TRUE)} ELSE {}

(* A work that cannot be decoded: getmininginfo is called nonetheless.     *)
(* What a template has left in ret_work until then stays there.            *)
WioUndecodable ==
  /\ Malformed /\ wpc = "fetch" /\ (have_gbt \/ AllowGetwork)
  /\ Offered(have_gbt) /\ ~have_stratum'
  /\ ret' \in Halves(have_gbt, tip, ret)
  /\ wpc' = "badinfo"
  /\ UNCHANGED <<server, shared, mvars, reply, wq, cmd, failures, have_gbt,
                 allow_mininginfo, net_blocks, pvars>>

WioUndecoded ==
  /\ wpc = "bad"
  /\ Retry("fetch")
  /\ UNCHANGED <<server, shared, mvars, reply, wq, cmd, ret, have_gbt,
                 allow_mininginfo, net_blocks, offers, pvars>>

(* get_mininginfo makes its call unless a switch or long polling is on. *)
InfoCalled == allow_mininginfo /\ ~have_stratum /\ ~have_longpoll
AfterInfo == [info |-> "answer", badinfo |-> "bad", submitinfo |-> "solved"]

(* get_mininginfo with an answer. It completes the height of the work it   *)
(* is given; the one of submit_upstream_work is a local without a use.     *)
WioInfo ==
  /\ wpc \in DOMAIN AfterInfo /\ InfoCalled
  /\ Offered(FALSE)
  /\ net_blocks' = tip
  /\ ret' = IF wpc # "submitinfo" /\ ret.height = 0
            THEN [ret EXCEPT !.height = tip + 1] ELSE ret
  /\ wpc' = AfterInfo[wpc]
  /\ UNCHANGED <<server, shared, mvars, reply, wq, cmd, failures, have_gbt,
                 allow_mininginfo, pvars>>

(* get_mininginfo fails, with the error that says it is not supported or   *)
(* with another one.                                                       *)
WioInfoFailed ==
  /\ ~InfoReliable /\ wpc \in DOMAIN AfterInfo /\ InfoCalled
  /\ Offered(FALSE)
  /\ allow_mininginfo' \in BOOLEAN
  /\ wpc' = AfterInfo[wpc]
  /\ UNCHANGED <<server, shared, mvars, reply, wq, cmd, ret, failures, have_gbt,
                 net_blocks, pvars>>

WioNoInfo ==
  /\ wpc \in DOMAIN AfterInfo /\ ~InfoCalled
  /\ wpc' = AfterInfo[wpc]
  /\ UNCHANGED <<server, shared, mvars, reply, wq, cmd, ret, failures, have_gbt,
                 allow_mininginfo, net_blocks, offers, pvars>>

(* The work goes to the thread that asked, unless it has left. *)
WioAnswer ==
  /\ wpc = "answer"
  /\ reply' = IF pc[cmd.thr] = "left" THEN reply
              ELSE [reply EXCEPT ![cmd.thr] = Append(@, ret)]
  /\ CmdDone
  /\ UNCHANGED <<server, shared, mvars, wq, have_gbt,
                 allow_mininginfo, net_blocks, offers, pvars>>

(* memcmp of the previous hash in the data of two works. *)
SamePrevhash(w, g) == w.tip = g.tip /\ w.swapped = g.swapped

(* submit_upstream_work: stale work is dropped. *)
WioCheck ==
  /\ wpc = "check"
  /\ IF ~submit_old /\ ~SamePrevhash(cmd.work, g_work) THEN CmdDone
     ELSE CmdGoesOn(IF allow_mininginfo /\ ~have_stratum THEN "submitinfo" ELSE "send")
  /\ UNCHANGED <<server, shared, mvars, reply, wq, have_gbt,
                 allow_mininginfo, net_blocks, offers, pvars>>

(* Mutants: the height of the next block counts as solved; none does. *)
AlreadySolvedEarly(w) == w.height # 0 /\ w.height <= net_blocks + 1
AlreadySolvedNever(w) == FALSE

AlreadySolved(w) == w.height # 0 /\ w.height <= net_blocks

WioSolved ==
  /\ wpc = "solved"
  /\ IF AlreadySolved(cmd.work) THEN CmdDone ELSE CmdGoesOn("send")
  /\ UNCHANGED <<server, shared, mvars, reply, wq, have_gbt,
                 allow_mininginfo, net_blocks, offers, pvars>>

(* The server gets a solution, and accepts it if it extends the chain. *)
Deliver ==
  LET w == cmd.work
      good == w.tip = tip /\ ~w.swapped
  IN /\ delivered' = delivered \cup {<<cmd.thr, w.tip>>}
     /\ tip' = IF good THEN tip + 1 ELSE tip
     /\ accepted' = IF good THEN accepted \cup {w.tip} ELSE accepted

WioSend ==
  /\ wpc = "send" /\ ~have_stratum
  /\ Deliver /\ Offered(FALSE)
  /\ CmdDone
  /\ UNCHANGED <<shared, mvars, reply, wq, have_gbt,
                 allow_mininginfo, net_blocks, pvars>>

(* Mutant: a getwork changes its byte order too. *)
EncodedAll(w) == [w EXCEPT !.swapped = ~@]

(* The data are encoded in place, which changes the byte order of a block  *)
(* (be32enc), not of a getwork (le32enc).                                  *)
Encoded(w) == [w EXCEPT !.swapped = IF w.gbt THEN ~@ ELSE @]

(* The call fails, before or after the server got the solution: it is      *)
(* tried again with the data as they were encoded for this call.           *)
WioSendFailed ==
  /\ wpc = "send" /\ ~have_stratum
  /\ (Deliver /\ Offered(FALSE)) \/ UNCHANGED <<server, offers>>
  /\ cmd' = [cmd EXCEPT !.work = Encoded(@)]
  /\ Retry("check")
  /\ UNCHANGED <<shared, mvars, reply, wq, ret, have_gbt, allow_mininginfo, net_blocks,
                 pvars>>

(* After the switch a solution goes to the pool, as a share of whatever    *)
(* work it is of; the line may fail to be sent.                            *)
WioShare ==
  /\ wpc = "send" /\ have_stratum
  /\ CmdDone \/ (Retry("check") /\ UNCHANGED <<cmd, ret>>)
  /\ UNCHANGED <<server, shared, mvars, reply, wq, have_gbt,
                 allow_mininginfo, net_blocks, offers, pvars>>

Workio ==
  \/ WioPop \/ WioWoken \/ WioFreeze \/ WioFetch \/ WioFetchFailed \/ WioFallBack
  \/ WioRefuse \/ WioUndecodable \/ WioUndecoded \/ WioInfo \/ WioInfoFailed
  \/ WioFetchSwitched \/ WioNoInfo
  \/ WioAnswer \/ WioCheck \/ WioSolved \/ WioSend \/ WioSendFailed \/ WioShare

-----------------------------------------------------------------------------
(* The long-polling thread                                                 *)

(* Mutant: the thread does not wait for a path. *)
PollPopNothing ==
  /\ lpc = "pop"
  /\ paths' = paths - 1
  /\ lpc' = "ask"
  /\ UNCHANGED <<server, shared, mvars, reply, wq, calls, have_longpoll, have_stratum,
                 lwork, submit_old>>

PollPop ==
  /\ lpc = "pop" /\ paths > 0
  /\ paths' = paths - 1
  /\ lpc' = "ask"
  /\ UNCHANGED <<server, shared, mvars, reply, wq, calls, have_longpoll, have_stratum,
                 lwork, submit_old>>

PollWoken ==
  /\ Spurious /\ lpc = "pop" /\ paths = 0
  /\ lpc' = "end"
  /\ UNCHANGED <<server, shared, mvars, reply, wq, calls, offers, lwork, submit_old>>

(* The request is made for a template or a getwork, and a call without     *)
(* long polling goes first; nothing is done with its answer.               *)
PollAsk ==
  /\ lpc = "ask"
  /\ lwork' = [NoWork EXCEPT !.gbt = have_gbt]
  /\ Offered(FALSE)
  /\ lpc' = "call"
  /\ UNCHANGED <<server, shared, mvars, reply, wq, calls, submit_old>>

(* After the switch the thread ends. *)
PollEnd ==
  /\ lpc = "call"
  /\ Offered(FALSE) /\ have_stratum'
  /\ lpc' = "end" /\ lwork' = NoWork
  /\ UNCHANGED <<server, shared, mvars, reply, wq, calls, submit_old>>

(* The server answers, with its current work. *)
PollAnswered ==
  /\ lpc = "call"
  /\ Offered(FALSE) /\ ~have_stratum'
  /\ lwork' = [lwork EXCEPT !.tip = tip]
  /\ submit_old' \in BOOLEAN
  /\ lpc' = "answer"
  /\ UNCHANGED <<server, shared, mvars, reply, wq, calls>>

(* The answer is decoded into g_work, under g_work_lock. Its time is set   *)
(* if a difficulty of the network is known, from getmininginfo.            *)
PollDecode ==
  /\ lpc = "answer" /\ g_work_lock = NoOwner /\ lwork.gbt = have_gbt
  /\ g_work' = Decoded(lwork.gbt, lwork.tip, g_work)
  /\ due' = (due /\ net_blocks = 0)
  /\ lpc' = "ask" /\ lwork' = NoWork
  /\ UNCHANGED <<server, g_work_lock, mvars, reply, wq, calls, offers, submit_old>>

(* The answer cannot be decoded, as when have_gbt has changed meanwhile;   *)
(* or a template is refused here.                                          *)
PollUndecoded ==
  /\ lpc = "answer" /\ g_work_lock = NoOwner
  /\ \/ (Malformed \/ lwork.gbt # have_gbt) /\ UNCHANGED have_gbt
     \/ have_gbt /\ AllowGetwork /\ have_gbt' = FALSE
  /\ g_work' \in Halves(have_gbt, lwork.tip, g_work)
  /\ lpc' = "ask" /\ lwork' = NoWork
  /\ UNCHANGED <<server, due, g_work_lock, mvars, reply, wq, wpc, cmd, ret, failures,
                 allow_mininginfo, net_blocks, offers, submit_old>>

(* The call times out, or fails otherwise. *)
PollFailed ==
  /\ lpc = "call"
  /\ Offered(FALSE) /\ ~have_stratum'
  /\ lpc' \in {"late", "failed"} /\ lwork' = NoWork
  /\ UNCHANGED <<server, shared, mvars, reply, wq, calls, submit_old>>

(* g_work_time is set back by LP_SCANTIME, so that work is requested. *)
PollLate ==
  /\ lpc \in {"late", "failed"} /\ g_work_lock = NoOwner
  /\ due' = TRUE
  /\ lpc' = IF lpc = "late" THEN "ask" ELSE "stop"
  /\ UNCHANGED <<server, g_work, g_work_lock, mvars, reply, wq, calls, offers, lwork,
                 submit_old>>

(* Mutant: have_longpoll stays as it is. *)
PollStopKept ==
  /\ lpc = "stop" /\ lpc' = "pop"
  /\ UNCHANGED <<server, shared, mvars, reply, wq, calls, offers, lwork, submit_old>>

(* After a failure, long polling is off until the server offers it again.  *)
PollStop ==
  /\ lpc = "stop" /\ lpc' = "pop"
  /\ have_longpoll' = FALSE
  /\ UNCHANGED <<server, shared, mvars, reply, wq, calls, have_stratum, paths, lwork,
                 submit_old>>

Longpoll ==
  \/ PollPop \/ PollWoken \/ PollAsk \/ PollEnd \/ PollAnswered \/ PollDecode
  \/ PollUndecoded \/ PollFailed \/ PollLate \/ PollStop

-----------------------------------------------------------------------------
(* The stratum thread, from the switch on: it writes a job into g_work.    *)
StratumJob ==
  /\ have_stratum /\ g_work_lock = NoOwner
  /\ g_work' = PoolWork /\ due' = FALSE
  /\ UNCHANGED <<server, g_work_lock, mvars, reply, wq, wvars>>

(* Others mine a block. *)
NewBlock ==
  /\ tip < MaxTip
  /\ tip' = tip + 1
  /\ UNCHANGED <<delivered, accepted, shared, mvars, reply, wq, wvars>>

(* scantime seconds pass. *)
Age ==
  /\ ~due
  /\ due' = TRUE
  /\ UNCHANGED <<server, g_work, g_work_lock, mvars, reply, wq, wvars>>

Init ==
  /\ tip = 1 /\ delivered = {} /\ accepted = {}
  /\ have_gbt = Gbt /\ allow_mininginfo = TRUE /\ net_blocks = 0
  /\ g_work = NoWork /\ due = TRUE /\ g_work_lock = NoOwner
  /\ pc = [t \in ThreadIds |-> "lock"]
  /\ work = [t \in ThreadIds |-> NoWork]
  /\ reply = [t \in ThreadIds |-> <<>>]
  /\ wq = <<>> /\ wpc = "pop" /\ cmd = NoCmd /\ ret = NoWork /\ failures = 0
  /\ have_longpoll = FALSE /\ have_stratum = FALSE /\ paths = 0
  /\ lpc = "pop" /\ lwork = NoWork /\ submit_old = FALSE

Next ==
  \/ Workio \/ Longpoll \/ StratumJob \/ NewBlock \/ Age
  \/ \E t \in ThreadIds : Miner(t)

Spec == Init /\ [][Next]_vars

-----------------------------------------------------------------------------
(* Properties                                                              *)

Works == [tip : Nat \cup {-1}, height : Nat, gbt : BOOLEAN, swapped : BOOLEAN]
Cmds == [cmd : {"none", "get", "submit"}, thr : ThreadIds \cup {NoOwner}, work : Works]

(* Every variable has its type. *)
TypeOK ==
  /\ tip \in Nat /\ accepted \subseteq Nat /\ delivered \subseteq ThreadIds \X Nat
  /\ have_gbt \in BOOLEAN /\ allow_mininginfo \in BOOLEAN /\ net_blocks \in Nat
  /\ g_work \in Works /\ due \in BOOLEAN /\ g_work_lock \in ThreadIds \cup {NoOwner}
  /\ pc \in [ThreadIds -> {"lock", "await", "got", "scan", "submit", "submitted", "zero", "left"}]
  /\ work \in [ThreadIds -> Works] /\ reply \in [ThreadIds -> Seq(Works)]
  /\ wq \in Seq(Cmds) /\ cmd \in Cmds /\ ret \in Works /\ failures \in Nat
  /\ wpc \in {"pop", "fetch", "info", "badinfo", "bad", "answer", "check",
              "submitinfo", "solved", "send", "freeze", "end"}
  /\ {have_longpoll, have_stratum, submit_old} \subseteq BOOLEAN /\ paths \in Nat
  /\ lpc \in {"pop", "ask", "call", "answer", "late", "failed", "stop", "end"} /\ lwork \in Works

(* A thread that handed in a solution never mines on the block it solved:  *)
(* the comment in miner_thread says that a block cannot be submitted twice. *)
(* The request it then makes is behind the solution in the workio queue,   *)
(* also if another thread had one there before.                            *)
FreshAfterBlock ==
  \A t \in ThreadIds : pc[t] = "scan" => <<t, work[t].tip>> \notin delivered

(* No solution is sent for a block once another of ours was accepted for   *)
(* it: not that of another thread, nor the same again when the answer was  *)
(* lost. Rests on getmininginfo: both works still have the previous hash   *)
(* of g_work.                                                              *)
OncePerBlock == wpc = "send" => cmd.work.tip \notin accepted

(* A solution is passed over as stale only if its previous hash is not the *)
(* current one, as the comment in submit_upstream_work says: the server    *)
(* has gone on to another block, however often the call was tried.         *)
StaleIsOld ==
  [][wpc = "check" /\ wpc' = "pop" => cmd.work.tip < tip]_vars

(* A solution is dropped as "already solved" only if the server has gone   *)
(* on to another block, although its height was learnt by another call     *)
(* than the work itself.                                                   *)
SolvedIsSolved ==
  [][wpc = "solved" /\ wpc' = "pop" => cmd.work.tip < tip]_vars

(* A thread has g_work_lock while it waits for work and until it has looked *)
(* at it; while it waits there is exactly one answer for it on the way, as *)
(* a request or as a work, until the workio thread ends; nobody else has   *)
(* one under way, unless it has left.                                      *)
Pending(t) ==
  Cardinality({i \in DOMAIN wq : wq[i] = Request(t)}) + Len(reply[t])
  + IF cmd.cmd = "get" /\ cmd.thr = t /\ wpc \in {"fetch", "info", "badinfo", "bad", "answer"}
    THEN 1 ELSE 0

OneAnswer ==
  \A t \in ThreadIds :
    /\ pc[t] \in {"await", "got"} <=> g_work_lock = t
    /\ wpc \notin {"freeze", "end"} /\ pc[t] # "left"
         => Pending(t) = IF pc[t] = "await" THEN 1 ELSE 0

(* Long polling is on exactly while the thread polls or its path is on the *)
(* way, though both threads turn it on and off: work is not kept for the   *)
(* long scan time with nobody polling. (Until the thread ends.)            *)
PollsOnce ==
  lpc # "end" => paths + (IF lpc = "pop" THEN 0 ELSE 1) = IF have_longpoll THEN 1 ELSE 0

(* Nobody scans the empty work that a request is answered with when the    *)
(* program switches to stratum while the request is under way.             *)
EmptyNotScanned == \A t \in ThreadIds : pc[t] = "scan" => work[t].tip # 0

(* Threads run, a thread that waits for g_work_lock gets it some day, a    *)
(* call repeated for ever succeeds some day, a scan ends, and time passes. *)
Fairness ==
  /\ \A t \in ThreadIds :
       /\ WF_vars(MinerGot(t) \/ MinerGoesOn(t) \/ MinerScanEnd(t) \/ MinerSubmit(t) \/ MinerSubmitted(t))
       /\ SF_vars(MinerTake(t) \/ MinerRequest(t) \/ MinerZero(t))
  /\ WF_vars(Workio) /\ SF_vars(WioFetch \/ WioSend) /\ WF_vars(Age)

FairSpec == Spec /\ Fairness

(* A thread that found a solution, or wants work, comes to mine again: no  *)
(* answer is forgotten and no call is given up.                            *)
MinesAgain ==
  \A t \in ThreadIds : pc[t] \in {"lock", "submit"} ~> pc[t] = "scan"

(* The last block of the chain comes to be mined on: work gets old, and a  *)
(* thread that has found a solution asks for another.                      *)
CatchesUp == tip = MaxTip ~> g_work.tip = MaxTip

=============================================================================
