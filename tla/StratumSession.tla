--------------------------- MODULE StratumSession ---------------------------
(***************************************************************************)
(* The session with a stratum pool and the shares that go over it: the     *)
(* stratum thread, which connects, subscribes, authorizes, reads the lines *)
(* of the pool and starts again when any of it fails (stratum_thread in    *)
(* cpu-miner.c, stratum_* in util.c); the workio thread, which writes      *)
(* shares to the same socket whatever the stratum thread is doing          *)
(* (submit_upstream_work, workio_submit_work); the API thread, which       *)
(* changes the pool (remote_seturl in api.c); and the pool.                *)
(*                                                                         *)
(* A line is a message here; LineSocket models the socket below. The       *)
(* connection is lossless and ordered until it breaks. Modelled without    *)
(* jsonrpc_2, with opt_redirect and opt_extranonce on (the defaults).      *)
(* What a job and a scan are is the matter of StratumMiner.                *)
(***************************************************************************)
EXTENDS Integers, Sequences, FiniteSets

CONSTANTS
  Pools,     \* the URLs
  Retries,   \* values of opt_retries; negative: retry for ever
  Headers,   \* kinds of jobs a pool may have: "V2" (opt_algo BLAKE2B and a job
             \* with the blake2b flag) or "legacy" (a header from the coinbase)
  Xn1,       \* extranonce1 values, numbers above 0
  Blocks,    \* whether a share found is a block's: a set of BOOLEANs
  Methods,   \* requests and notifications the pool sends of itself
  MaxOut,    \* lines to the pool a socket takes before a write fails
  MaxIn,     \* bound: lines of the pool that wait to be read
  MaxQueue   \* bound: shares that wait in the queue of the workio thread

ASSUME SessionAssumption ==
  /\ Retries \subseteq Int /\ Headers \subseteq {"legacy", "V2"} /\ Xn1 \subseteq Nat \ {0} /\ Pools # {} /\ Blocks \subseteq BOOLEAN
  /\ Methods \subseteq {"mining.notify", "mining.set_extranonce", "client.reconnect",
                        "mining.ping", "unknown"}
  /\ {MaxOut, MaxIn} \subseteq Nat \ {0} /\ MaxQueue \in Nat

VARIABLES
  opt_retries, \* the option, fixed at the start
  header,      \* the kind of the jobs, fixed at the start
  rpc_url,     \* the URL the options or the API asked for
  need_reset,  \* stratum_need_reset
  apc,         \* where remote_seturl is: "idle", or "flag" after parse_arg
  url,         \* stratum.url
  curl,        \* whether stratum.curl is set: there is a connection
  xnonce1,     \* stratum.xnonce1, 0 before the first subscription
  job,         \* stratum.job
  g_work,      \* the shared work
  spc,         \* where the stratum thread is
  retry,       \* stratum_subscribe's retry
  failures,    \* stratum_thread's count of failed attempts
  wq,          \* the queue of the workio thread
  wpc, cmd,    \* where the workio thread is, and the share it hands in
  wfailures,   \* workio_submit_work's count of failed attempts
  sharediff,   \* stratum.sharediff: whether it is a block's
  toPool,      \* the lines on their way to the pool
  toMiner,     \* the lines on their way to this program, or in sockbuf
  open,        \* whether the pool keeps its end of the connection open
  pxn1,        \* the extranonce1 the pool goes by, 0 before it was subscribed
  pauth,       \* whether the pool accepted the authorization
  stable,      \* from now on the network and the pool work
  redirected,  \* history: client.reconnect led to another pool
  stray,       \* history: a line that is no answer got into this handshake
  moved,       \* history: V2, and the pool changed extranonce1 in this session
  overlap,     \* history: a share was tried while another was unanswered
  uncounted,   \* history: answers to shares sent and not yet counted
  unsolved     \* history: those for blocks, and not yet counted as solved

connection == <<curl, toPool, toMiner, open, pxn1, pauth>>
options == <<opt_retries, header, rpc_url, need_reset, apc>>
workio == <<wq, wpc, cmd, wfailures, sharediff>>
stratum == <<url, xnonce1, job, g_work, spc, retry, failures>>
history == <<redirected, stray, moved, overlap, uncounted, unsolved>>
vars == <<connection, options, workio, stratum, stable, history>>

-----------------------------------------------------------------------------
(* Lines and works                                                         *)

Request(m) == [m |-> m]
ShareLine(s) == [m |-> "mining.submit", share |-> s]

(* A line of the pool: an answer to request id, with its result ok and what *)
(* it carries; or a method, for which id is 0.                             *)
Answer(id, ok, x) == [m |-> "answer", id |-> id, ok |-> ok, x |-> x]
Method(m, x) == [m |-> m, id |-> 0, ok |-> FALSE, x |-> x]

IsShare(line) == line.m = "mining.submit"
IsShareAnswer(line) == line.m = "answer" /\ line.id = 4

(* A job: the extranonce1 its coinbase was built with, and (for the         *)
(* properties) the one the pool meant; of a job of an earlier connection   *)
(* only that it is one.                                                    *)
NoJob == [of |-> "none", cx |-> 0, px |-> 0]
OldJob == [of |-> "before", cx |-> 0, px |-> 0]
NewJob(cx, px) == [of |-> "here", cx |-> cx, px |-> px]
Foreign(j) == IF j = NoJob THEN NoJob ELSE OldJob

(* Mutant: a legacy header is made with the session's extranonce1 too. *)
MadeWithCurrent(j) == IF j.of = "here" THEN xnonce1 ELSE j.cx

(* The extranonce1 stratum_gen_work puts into a work of a job: that of the *)
(* coinbase, but into a V2 header the one the session has at that time.    *)
MadeWith(j) == IF header = "V2" /\ j.of = "here" THEN xnonce1 ELSE j.cx

(* A work, and (for the properties) whether it was made with the            *)
(* extranonce1 the pool meant the job for, where that can be said.         *)
NoWork == [made |-> FALSE, fits |-> TRUE]
WorkOf(j) == [made |-> j # NoJob, fits |-> stray \/ moved \/ MadeWith(j) = j.px]

(* A share: whether it meets the network's difficulty, and whether its     *)
(* work fits.                                                              *)
Share(w, block) == [block |-> block, fits |-> w.fits]
NoShare == Share(NoWork, FALSE)
Stop == [stop |-> TRUE]                         \* the NULL of tq_push

Handshake == {"subscribe", "subwait", "authorize", "authwait", "xnsend", "xnwait"}
Session == {"top", "check", "recv"}

(* send_line: a write to a socket fails when the buffer is full, or there  *)
(* is no connection; when the peer has gone it may succeed all the same.   *)
Sent(line) ==
  /\ curl
  /\ IF open THEN Len(toPool) < MaxOut /\ toPool' = Append(toPool, line)
     ELSE toPool' = toPool
NotSent == (~curl \/ ~open \/ Len(toPool) = MaxOut) /\ toPool' = toPool

(* stratum_disconnect: the socket is closed and sockbuf emptied. *)
Disconnect ==
  /\ curl' = FALSE /\ open' = FALSE
  /\ toPool' = << >> /\ toMiner' = << >>
  /\ pxn1' = 0 /\ pauth' = FALSE

-----------------------------------------------------------------------------
(* History: the counts mean nothing from a stray line, or an overlap, on.   *)
Judge ==
  /\ uncounted' = IF stray' THEN 0 ELSE uncounted
  /\ unsolved' = IF stray' \/ overlap' THEN 0 ELSE unsolved

-----------------------------------------------------------------------------
(* The stratum thread: connecting                                          *)

(* The head of the outer loop. The flag is cleared before the URL is read. *)
ThreadReset ==
  /\ spc = "top" /\ need_reset
  /\ need_reset' = FALSE
  /\ Disconnect
  /\ spc' = "url"
  /\ UNCHANGED <<opt_retries, header, rpc_url, apc, workio, url, xnonce1, job, g_work,
                 retry, failures, stable, history>>

ThreadUrl ==
  /\ spc = "url"
  /\ url' = rpc_url /\ redirected' = FALSE
  /\ spc' = "connect" /\ failures' = 0
  /\ UNCHANGED <<connection, options, workio, xnonce1, job, g_work, retry, stable,
                 stray, moved, overlap, uncounted, unsolved>>

ThreadTop ==
  /\ spc = "top" /\ ~need_reset
  /\ spc' = IF curl THEN "check" ELSE "connect"
  /\ failures' = 0
  /\ UNCHANGED <<connection, options, workio, url, xnonce1, job, g_work, retry,
                 stable, history>>

(* stratum_connect succeeds: an empty sockbuf and a new connection. The    *)
(* workio thread may write to it from now on.                              *)
Connect ==
  /\ spc = "connect"
  /\ curl' = TRUE /\ open' = TRUE
  /\ UNCHANGED <<toPool, toMiner, pxn1, pauth>>
  /\ job' = Foreign(job)
  /\ spc' = "subscribe" /\ retry' = FALSE
  /\ stray' = FALSE /\ moved' = FALSE /\ overlap' = FALSE
  /\ uncounted' = 0 /\ unsolved' = 0
  /\ UNCHANGED <<options, workio, url, xnonce1, g_work, failures, stable, redirected>>

ConnectFail ==
  /\ spc = "connect" /\ ~stable
  /\ spc' = "failed"
  /\ UNCHANGED <<connection, options, workio, url, xnonce1, job, g_work, retry,
                 failures, stable, history>>

(* Mutant: one retry too many. *)
StratumGivesUpLate(n) == opt_retries >= 0 /\ n > opt_retries

StratumGivesUp(n) == opt_retries >= 0 /\ n + 1 > opt_retries

(* Mutant: the order is forgotten. *)
OrderedNone == UNCHANGED wq

(* tq_push(..., NULL): the order to stop, behind what is queued.           *)
Ordered == wq' = Append(wq, Stop)

(* One of the three calls has failed: disconnect, and try again or, when   *)
(* opt_retries is used up, end the workio thread and with it the program.  *)
Failed ==
  /\ spc = "failed"
  /\ Disconnect
  /\ IF StratumGivesUp(failures)
     THEN /\ spc' = "out" /\ Ordered
          /\ UNCHANGED failures
     ELSE /\ spc' = "connect" /\ UNCHANGED wq
          /\ failures' = IF opt_retries >= 0 THEN failures + 1 ELSE 0
  /\ UNCHANGED <<options, wpc, cmd, wfailures, sharediff, url, xnonce1, job, g_work,
                 retry, stable, history>>

(* A request of the handshake is written; where the answer is awaited.     *)
HandshakeSend ==
  /\ \/ spc = "subscribe" /\ Sent(Request("mining.subscribe")) /\ spc' = "subwait"
     \/ spc = "subscribe" /\ NotSent /\ spc' = "failed"
     \/ spc = "authorize" /\ Sent(Request("mining.authorize")) /\ spc' = "authwait"
     \/ spc = "authorize" /\ NotSent /\ spc' = "failed"
     \/ spc = "xnsend" /\ Sent(Request("extranonce.subscribe")) /\ spc' = "xnwait"
     \/ spc = "xnsend" /\ NotSent /\ spc' = "check"
  /\ UNCHANGED <<curl, toMiner, open, pxn1, pauth, options, workio, url, xnonce1,
                 job, g_work, retry, failures, stable, history>>

(* Mutant: a subscription that timed out is retried on the same socket. *)
HandshakeTimeoutRetried ==
  /\ ~stable \/ ~open
  /\ \/ spc = "subwait" /\ spc' = (IF retry THEN "failed" ELSE "subscribe") /\ retry' = ~retry
     \/ spc = "authwait" /\ spc' = "failed" /\ UNCHANGED retry
     \/ spc = "xnwait" /\ spc' = "check" /\ UNCHANGED retry
  /\ UNCHANGED <<connection, options, workio, url, xnonce1, job, g_work,
                 failures, stable, history>>

(* Mutant: no limit to the wait for an answer. *)
HandshakeTimeoutNever ==
  /\ spc = "xnwait" /\ spc' = "check"
  /\ UNCHANGED <<connection, options, workio, url, xnonce1, job, g_work, retry,
                 failures, stable, history>>

(* No line in time, or the connection is closed. *)
HandshakeTimeout ==
  /\ ~stable \/ ~open
  /\ \/ spc \in {"subwait", "authwait"} /\ spc' = "failed"
     \/ spc = "xnwait" /\ spc' = "check"
  /\ UNCHANGED <<connection, options, workio, url, xnonce1, job, g_work, retry,
                 failures, stable, history>>

(* stratum_subscribe takes the next line for its answer, whatever it is.   *)
SubscribeAnswer ==
  LET line == Head(toMiner)
      good == line.m = "answer" /\ line.id = 1 /\ line.ok
  IN /\ spc = "subwait" /\ toMiner # << >>
     /\ toMiner' = Tail(toMiner)
     /\ IF good THEN xnonce1' = line.x /\ spc' = "authorize" /\ retry' = FALSE
        ELSE /\ spc' = IF retry THEN "failed" ELSE "subscribe"
             /\ retry' = ~retry /\ UNCHANGED xnonce1
     /\ UNCHANGED <<curl, toPool, open, pxn1, pauth, options, workio, url, job,
                    g_work, failures, stable, history>>

-----------------------------------------------------------------------------
(* The stratum thread: lines                                               *)

(* stratum_handle_method on the line at hand, and whether it returns true. *)
(* A notification it does not know, or refuses, is false, and so is a      *)
(* request whose answer could not be written, and an answer.               *)
Keep == UNCHANGED <<curl, open, pxn1, pauth, url, redirected>>

HandleMethod(line, handled) ==
  \/ /\ line.m = "mining.notify" /\ handled
     /\ job' = NewJob(xnonce1, line.x)
     /\ toMiner' = Tail(toMiner)
     /\ UNCHANGED <<xnonce1, toPool>> /\ Keep
  \/ /\ line.m = "mining.set_extranonce" /\ handled
     /\ xnonce1' = line.x
     /\ toMiner' = Tail(toMiner)
     /\ UNCHANGED <<job, toPool>> /\ Keep
  \/ /\ line.m = "mining.ping"
     /\ IF handled THEN Sent(Request("pong")) ELSE NotSent
     /\ toMiner' = Tail(toMiner)
     /\ UNCHANGED <<job, xnonce1>> /\ Keep
  \/ /\ line.m = "client.reconnect" /\ handled
     /\ url' = line.x /\ redirected' = (line.x # rpc_url)
     /\ Disconnect
     /\ UNCHANGED <<job, xnonce1>>
  \/ /\ line.m \in {"answer", "unknown"} /\ ~handled
     /\ toMiner' = Tail(toMiner)
     /\ UNCHANGED <<job, xnonce1, toPool>> /\ Keep

(* stratum_authorize handles methods until a line is none that it can      *)
(* handle, and takes that one for its answer: only the id 2 can refuse.    *)
AuthorizeLine ==
  LET line == Head(toMiner) IN
  /\ spc = "authwait" /\ toMiner # << >>
  /\ \E handled \in BOOLEAN :
       /\ HandleMethod(line, handled)
       /\ spc' = IF handled THEN "authwait"
                 ELSE IF line.id = 2 /\ ~line.ok THEN "failed" ELSE "xnsend"
       /\ stray' = (stray \/ (~handled /\ line.m = "mining.ping"))
  /\ UNCHANGED <<options, workio, g_work, retry, failures, stable, moved, overlap>>
  /\ Judge

(* The line after mining.extranonce.subscribe: its answer, or a method, or *)
(* a line that is dropped.                                                 *)
ExtranonceLine ==
  LET line == Head(toMiner) IN
  /\ spc = "xnwait" /\ toMiner # << >>
  /\ IF line.id = 3
     THEN toMiner' = Tail(toMiner) /\ UNCHANGED <<job, xnonce1, toPool>> /\ Keep
     ELSE \E handled \in BOOLEAN : HandleMethod(line, handled)
  /\ spc' = IF curl' THEN "check" ELSE "connect"
  /\ UNCHANGED <<options, workio, g_work, retry, failures, stable, stray, moved, overlap,
                 uncounted, unsolved>>

(* New work, from the job there is: at once after a reconnection (g_work_time *)
(* is 0 then), even before a job of the new session has come; not when the *)
(* id of the job is that of g_work. Ids, which a pool may use again, are   *)
(* left out.                                                               *)
Generate ==
  /\ spc = "check"
  /\ g_work' \in {WorkOf(job), g_work}
  /\ spc' = "recv"
  /\ UNCHANGED <<connection, options, workio, url, xnonce1, job, retry, failures,
                 stable, history>>

(* Mutant: any answer is taken for the answer to a share. *)
CountsAny(line) == line.m = "answer"

(* stratum_handle_response: only ids from 4 on are of shares. (An answer   *)
(* without a result is passed over there; the answers here all have one,   *)
(* if a null.)                                                             *)
Counts(line) == line.m = "answer" /\ line.id >= 4

(* A line in the main loop: a method, or an answer. share_result goes by   *)
(* stratum.sharediff.                                                      *)
MainLine ==
  LET line == Head(toMiner) IN
  /\ spc = "recv" /\ toMiner # << >>
  /\ \E handled \in BOOLEAN : HandleMethod(line, handled)
  /\ IF Counts(line) /\ ~stray
     THEN /\ uncounted' = uncounted - 1
          /\ unsolved' = IF sharediff /\ ~overlap THEN unsolved - 1 ELSE unsolved
     ELSE UNCHANGED <<uncounted, unsolved>>
  /\ spc' = "top"
  /\ UNCHANGED <<options, workio, g_work, retry, failures, stable, stray, moved, overlap>>

(* Mutant: no limit to the wait for a line. *)
MainTimeoutNever ==
  /\ spc = "recv" /\ ~open
  /\ Disconnect
  /\ spc' = "top"
  /\ UNCHANGED <<options, workio, url, xnonce1, job, g_work, retry, failures,
                 stable, history>>

(* Nothing for opt_timeout seconds, or the connection is closed. *)
MainTimeout ==
  /\ spc = "recv"
  /\ Disconnect
  /\ spc' = "top"
  /\ UNCHANGED <<options, workio, url, xnonce1, job, g_work, retry, failures,
                 stable, history>>

Thread ==
  \/ ThreadReset \/ ThreadUrl \/ ThreadTop \/ Connect \/ ConnectFail \/ Failed
  \/ HandshakeSend \/ HandshakeTimeout \/ SubscribeAnswer \/ AuthorizeLine
  \/ ExtranonceLine \/ Generate \/ MainLine \/ MainTimeout

-----------------------------------------------------------------------------
(* The miner threads and the workio thread                                 *)

(* A miner thread at the end of its range has the work made anew. *)
Regenerate ==
  /\ g_work.made /\ g_work' = WorkOf(job)
  /\ UNCHANGED <<connection, options, workio, url, xnonce1, job, spc, retry,
                 failures, stable, history>>

(* A miner thread finds a share of the shared work: submit_work. What it   *)
(* queues when the end of the program is decided does not matter.          *)
Find ==
  /\ g_work.made /\ Len(wq) < MaxQueue /\ spc # "out" /\ wpc # "end"
  /\ \E block \in Blocks : wq' = Append(wq, Share(g_work, block))
  /\ UNCHANGED <<connection, options, stratum, wpc, cmd, wfailures, sharediff,
                 stable, history>>

WorkioTake ==
  /\ wpc = "idle" /\ wq # << >>
  /\ wq' = Tail(wq) /\ cmd' = IF Head(wq) = Stop THEN NoShare ELSE Head(wq)
  /\ wpc' = IF Head(wq) = Stop THEN "end" ELSE "submit"
  /\ wfailures' = 0
  /\ UNCHANGED <<connection, options, stratum, sharediff, stable, history>>

(* The share is dropped when its previous block is not that of g_work.     *)
(* Which jobs are for the same block is left out.                          *)
WorkioStale ==
  /\ wpc = "submit"
  /\ wpc' = "idle" /\ cmd' = NoShare
  /\ UNCHANGED <<connection, options, stratum, wq, wfailures, sharediff, stable, history>>

Unanswered ==
  \/ \E i \in DOMAIN toPool : IsShare(toPool[i])
  \/ \E i \in DOMAIN toMiner : IsShareAnswer(toMiner[i])

(* Mutant: the difficulty is kept as a maximum. *)
StoreHighest == sharediff' = (sharediff \/ cmd.block)

StoreDiff == sharediff' = cmd.block

(* submit_upstream_work stores the difficulty, then writes the line.       *)
WorkioSent ==
  /\ wpc = "submit"
  /\ StoreDiff
  /\ Sent(ShareLine(cmd))
  /\ wpc' = "idle" /\ cmd' = NoShare
  /\ stray' = (stray \/ spc \in Handshake)
  /\ overlap' = (overlap \/ Unanswered)
  /\ UNCHANGED <<curl, toMiner, open, pxn1, pauth, options, stratum, wq, wfailures,
                 stable, redirected, moved>>
  /\ Judge

WorkioGivesUp(n) == opt_retries >= 0 /\ n + 1 > opt_retries

WorkioNotSent ==
  /\ wpc = "submit"
  /\ StoreDiff
  /\ NotSent
  /\ overlap' = (overlap \/ Unanswered)
  /\ IF WorkioGivesUp(wfailures)
     THEN wpc' = "end" /\ cmd' = NoShare /\ wfailures' = wfailures
     ELSE /\ UNCHANGED <<wpc, cmd>>
          /\ wfailures' = IF opt_retries >= 0 THEN wfailures + 1 ELSE 0
  /\ UNCHANGED <<curl, toMiner, open, pxn1, pauth, options, stratum, wq,
                 stable, redirected, stray, moved>>
  /\ Judge

Workio == WorkioTake \/ WorkioStale \/ WorkioSent \/ WorkioNotSent

-----------------------------------------------------------------------------
(* The API thread: remote_seturl, parse_arg and then the flag. The other   *)
(* URL is a valid one of a stratum pool: an invalid one ends the program   *)
(* in parse_arg, and one of a getwork server would clear have_stratum, the *)
(* matter of GetWork. The name and password it may carry are left out.     *)

SetUrl ==
  /\ apc = "idle" /\ apc' = "flag"
  /\ rpc_url' \in Pools \ {rpc_url}
  /\ UNCHANGED <<connection, opt_retries, header, need_reset, stratum, workio, stable, history>>

SetFlag ==
  /\ apc = "flag" /\ apc' = "idle"
  /\ need_reset' = TRUE
  /\ UNCHANGED <<connection, opt_retries, header, rpc_url, stratum, workio, stable, history>>

(* Mutant: the flag first. *)
ApiFlagFirst ==
  \/ /\ apc = "idle" /\ apc' = "flag" /\ need_reset' = TRUE
     /\ UNCHANGED <<connection, opt_retries, header, rpc_url, stratum, workio, stable, history>>
  \/ /\ apc = "flag" /\ apc' = "idle" /\ rpc_url' \in Pools \ {rpc_url}
     /\ UNCHANGED <<connection, opt_retries, header, need_reset, stratum, workio, stable, history>>

Api == SetUrl \/ SetFlag

-----------------------------------------------------------------------------
(* The pool                                                                *)

(* It takes a request and answers, in order. *)
PoolTake ==
  LET line == Head(toPool)
      Reply(answer) == Len(toMiner) < MaxIn /\ toMiner' = Append(toMiner, answer)
  IN /\ open /\ toPool # << >>
     /\ toPool' = Tail(toPool)
     /\ \/ /\ line.m = "mining.subscribe"
           /\ \E x \in Xn1 : Reply(Answer(1, TRUE, x)) /\ pxn1' = x
           /\ UNCHANGED <<pauth, uncounted, unsolved>>
        \/ /\ line.m = "mining.subscribe" /\ ~stable
           /\ Reply(Answer(1, FALSE, 0))
           /\ UNCHANGED <<pxn1, pauth, uncounted, unsolved>>
        \/ /\ line.m = "mining.authorize"
           /\ \E ok \in {TRUE, stable} : Reply(Answer(2, ok, 0)) /\ pauth' = ok
           /\ UNCHANGED <<pxn1, uncounted, unsolved>>
        \/ /\ line.m = "extranonce.subscribe"
           /\ Reply(Answer(3, TRUE, 0))
           /\ UNCHANGED <<pxn1, pauth, uncounted, unsolved>>
        \/ /\ IsShare(line)
           /\ Reply(Answer(4, FALSE, IF line.share.block THEN 1 ELSE 0))
           /\ uncounted' = IF stray THEN uncounted ELSE uncounted + 1
           /\ unsolved' = IF stray \/ overlap \/ ~line.share.block THEN unsolved
                          ELSE unsolved + 1
           /\ UNCHANGED <<pxn1, pauth>>
        \/ /\ line.m = "pong"
           /\ UNCHANGED <<toMiner, pxn1, pauth, uncounted, unsolved>>
     /\ UNCHANGED <<curl, open, options, stratum, workio, stable, redirected, stray, moved,
                    overlap>>

(* It notifies a job or another extranonce1, redirects, or asks something. *)
PoolMethod ==
  /\ open /\ pxn1 # 0 /\ Len(toMiner) < MaxIn
  /\ \E m \in Methods :
       /\ stable => m # "client.reconnect"
       /\ IF m = "mining.set_extranonce" THEN pxn1' \in Xn1 \ {pxn1}
          ELSE UNCHANGED pxn1
       /\ \E x \in (IF m = "client.reconnect" THEN Pools ELSE {pxn1'}) :
            toMiner' = Append(toMiner, Method(m, x))
       /\ stray' = (stray \/ (m = "unknown" /\ spc \in Handshake))
       /\ moved' = (moved \/ (header = "V2" /\ m = "mining.set_extranonce"))
  /\ UNCHANGED <<curl, toPool, open, pauth, options, stratum, workio, stable,
                 redirected, overlap>>
  /\ Judge

(* It closes the connection; what it has sent can still be read. *)
PoolClose ==
  /\ open /\ ~stable
  /\ open' = FALSE /\ toPool' = << >>
  /\ UNCHANGED <<curl, toMiner, pxn1, pauth, options, stratum, workio, stable, history>>

(* From some time on nothing fails any more but that a pool may be quiet.  *)
Stabilize ==
  /\ ~stable /\ stable' = TRUE
  /\ UNCHANGED <<connection, options, stratum, workio, history>>

-----------------------------------------------------------------------------
Init ==
  /\ opt_retries \in Retries /\ header \in Headers
  /\ rpc_url \in Pools /\ need_reset = FALSE /\ apc = "idle" /\ url = rpc_url
  /\ curl = FALSE /\ open = FALSE /\ toPool = << >> /\ toMiner = << >>
  /\ pxn1 = 0 /\ pauth = FALSE /\ xnonce1 = 0 /\ job = NoJob /\ g_work = NoWork
  /\ spc = "top" /\ retry = FALSE /\ failures = 0
  /\ wq = << >> /\ wpc = "idle" /\ cmd = NoShare /\ wfailures = 0 /\ sharediff = FALSE
  /\ stable = FALSE /\ redirected = FALSE /\ stray = FALSE /\ moved = FALSE
  /\ overlap = FALSE
  /\ uncounted = 0 /\ unsolved = 0

Next == Thread \/ Regenerate \/ Find \/ Workio \/ Api \/ PoolTake \/ PoolMethod \/ PoolClose

Spec == Init /\ [][Next]_vars

(* The threads run and the pool reads what it is sent. Of the submissions  *)
(* that are repeated, one falls in a time when the pool gets it, if such   *)
(* times come again and again. That a share is dropped is not counted on.  *)
FairSpec ==
  /\ Init /\ [][Next \/ Stabilize]_vars
  /\ WF_vars(Thread) /\ WF_vars(WorkioTake \/ WorkioNotSent)
  /\ SF_vars(PoolTake) /\ SF_vars(WorkioSent /\ open)

-----------------------------------------------------------------------------
(* Properties                                                              *)

Jobs == {NoJob, OldJob} \cup [of : {"here"}, cx : Xn1 \cup {0}, px : Xn1 \cup {0}]
Shares == [block : BOOLEAN, fits : BOOLEAN]

(* Types: what is queued, sent and counted.                                *)
TypeOK ==
  /\ rpc_url \in Pools /\ url \in Pools /\ need_reset \in BOOLEAN
  /\ apc \in {"idle", "flag"}
  /\ spc \in Handshake \cup Session \cup {"url", "connect", "failed", "out"}
  /\ {curl, open, pauth, retry, sharediff, stable} \subseteq BOOLEAN
  /\ {xnonce1, pxn1} \subseteq Xn1 \cup {0} /\ job \in Jobs
  /\ g_work \in [made : BOOLEAN, fits : BOOLEAN]
  /\ \A i \in DOMAIN wq : wq[i] \in Shares \cup {Stop}
  /\ Len(wq) <= MaxQueue + 1
  /\ wpc \in {"idle", "submit", "end"} /\ cmd \in Shares
  /\ opt_retries >= 0 => failures \in 0 .. opt_retries /\ wfailures \in 0 .. opt_retries
  /\ {redirected, stray, moved, overlap} \subseteq BOOLEAN
  /\ uncounted \in Nat /\ unsolved \in Nat

(* The extranonce1 this program will go by once it has read what is on its *)
(* way.                                                                    *)
XnonceToCome ==
  LET told == {i \in DOMAIN toMiner : toMiner[i].m = "mining.set_extranonce"}
  IN IF told = {} THEN xnonce1
     ELSE toMiner[CHOOSE i \in told : \A k \in told : k <= i].x

(* A thread that is done with stratum_subscribe and stratum_authorize has  *)
(* been authorized and goes by the extranonce1 the pool goes by, unless a  *)
(* stray line was taken for an answer.                                     *)
HandshakeSound ==
  spc \in Session /\ curl /\ open /\ ~stray => pauth /\ XnonceToCome = pxn1

(* Every share handed in is of a work made with the extranonce1 the pool   *)
(* meant its job for. Legacy headers: changes of extranonce1               *)
(* (stratum_parse_extranonce) do not get into works of older jobs. V2: the *)
(* extranonce1 of this subscription, never that of an earlier one, is in   *)
(* every work of a job of this session, whoever made it and when. Not said *)
(* of works of a job of an earlier session; of those made after a stray    *)
(* line was taken for an answer; and, for V2, of those made after the pool *)
(* changed extranonce1, as stratum_gen_work takes the new one for works of *)
(* older jobs too.                                                         *)
SharesFit == \A i \in DOMAIN toPool : IsShare(toPool[i]) => toPool[i].share.fits

Pending(block) ==
  Cardinality({i \in DOMAIN toMiner : IsShareAnswer(toMiner[i]) /\ (block => toMiner[i].x = 1)})

(* Every answer to a share, and no other line, is counted as accepted or   *)
(* rejected (share_result), if no share was sent during the handshake.     *)
AnswersCounted == curl /\ ~stray => uncounted = Pending(FALSE)

(* A block is counted as solved when it is answered and no other share is, *)
(* if at most one share at a time waits for its answer: stratum.sharediff  *)
(* (submit_upstream_work) is that of the share answered. That net_diff,    *)
(* which share_result compares it with when the answer comes, is known and *)
(* the same as when the share was found is assumed.                        *)
SolvedCounted == curl /\ ~stray /\ ~overlap => unsolved = Pending(TRUE)

(* The stratum thread mines where the options or the API say, or knows     *)
(* that it has to look again: no change of URL (remote_seturl) is lost.    *)
UrlFollows == url = rpc_url \/ need_reset \/ apc = "flag" \/ spc = "url" \/ redirected

(* A share that is tried again and again (workio_submit_work) is got rid   *)
(* of, if the network works some day or opt_retries is limited.            *)
ShareLeaves == (wpc = "submit" /\ (stable \/ opt_retries >= 0)) ~> wpc # "submit"

(* When the stratum thread gives up, the workio thread, and with it the    *)
(* program, ends, whatever shares are still queued before the order.       *)
GivesUp == spc = "out" ~> wpc = "end"

(* A change of URL (remote_seturl) is noticed, if the network works: a     *)
(* handshake under way must come to its end first.                         *)
UrlTaken == (need_reset /\ stable) ~> (~need_reset \/ spc = "out" \/ stray)

=============================================================================
