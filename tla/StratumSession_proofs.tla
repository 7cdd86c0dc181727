------------------------ MODULE StratumSession_proofs ------------------------
(***************************************************************************)
(* What is proved about StratumSession for every value of its constants.   *)
(***************************************************************************)
EXTENDS StratumSession, Counting, TLAPS

(* What a line of the pool does to the URL.                                *)
LEMMA MethodUrl ==
  ASSUME NEW line, NEW handled, HandleMethod(line, handled)
  PROVE  \/ UNCHANGED <<url, redirected>>
         \/ url' = rpc_url
         \/ redirected' = TRUE
BY DEF HandleMethod, Keep

(* The threads and the pool leave alone what UrlFollows is about, but for  *)
(* the steps of ThreadReset and ThreadUrl and for a redirection.           *)
LEMMA ThreadFollows ==
  ASSUME UrlFollows, Thread
  PROVE  UrlFollows'
<1>1. CASE ThreadReset
  BY <1>1 DEF ThreadReset, UrlFollows
<1>2. CASE ThreadUrl
  BY <1>2 DEF ThreadUrl, UrlFollows, options
<1>3. CASE ThreadTop \/ Connect \/ ConnectFail \/ Failed \/ HandshakeSend
           \/ HandshakeTimeout \/ SubscribeAnswer \/ Generate \/ MainTimeout
  <2>1. UNCHANGED <<url, rpc_url, need_reset, apc, redirected>> /\ spc # "url"
    BY <1>3 DEF ThreadTop, Connect, ConnectFail, Failed, HandshakeSend, HandshakeTimeout,
                SubscribeAnswer, Generate, MainTimeout, options, history
  <2>. QED  BY <2>1 DEF UrlFollows
<1>4. CASE AuthorizeLine \/ ExtranonceLine \/ MainLine
  <2>1. UNCHANGED <<rpc_url, need_reset, apc>> /\ spc # "url"
    BY <1>4 DEF AuthorizeLine, ExtranonceLine, MainLine, options
  <2>2. \/ UNCHANGED <<url, redirected>>
        \/ url' = rpc_url
        \/ redirected' = TRUE
    BY <1>4, MethodUrl DEF AuthorizeLine, ExtranonceLine, MainLine, Keep
  <2>3. CASE UNCHANGED <<url, redirected>>
    BY <2>1, <2>3 DEF UrlFollows
  <2>4. CASE url' = rpc_url
    BY <2>1, <2>4 DEF UrlFollows
  <2>5. CASE redirected' = TRUE
    BY <2>5 DEF UrlFollows
  <2>. QED  BY <2>2, <2>3, <2>4, <2>5
<1>. QED  BY <1>1, <1>2, <1>3, <1>4 DEF Thread

(* No change of URL by the API (remote_seturl) is lost, whatever the order *)
(* of its two writes and the stratum thread's two reads, and whatever the  *)
(* network does.                                                           *)
THEOREM UrlAlwaysFollows == FairSpec => []UrlFollows
<1>1. Init => UrlFollows
  BY DEF Init, UrlFollows
<1>2. UrlFollows /\ [Next \/ Stabilize]_vars => UrlFollows'
  <2>. SUFFICES ASSUME UrlFollows, [Next \/ Stabilize]_vars
                PROVE  UrlFollows'
    OBVIOUS
  <2>1. CASE Thread
    BY <2>1, ThreadFollows
  <2>2. CASE Api
    BY <2>2 DEF Api, SetUrl, SetFlag, UrlFollows, stratum, history
  <2>3. CASE Regenerate \/ Find \/ Workio \/ PoolTake \/ PoolMethod \/ PoolClose \/ Stabilize
             \/ UNCHANGED vars
    <3>1. UNCHANGED <<url, rpc_url, need_reset, apc, redirected, spc>>
      BY <2>3 DEF Regenerate, Find, Workio, WorkioTake, WorkioStale, WorkioSent, WorkioNotSent,
                  PoolTake, PoolMethod, PoolClose, Stabilize, vars, options, stratum, history
    <3>. QED  BY <3>1 DEF UrlFollows
  <2>. QED  BY <2>1, <2>2, <2>3 DEF Next
<1>. QED  BY <1>1, <1>2, PTL DEF FairSpec

-----------------------------------------------------------------------------
(* The inductive invariant                                                 *)

(* The lines that can be on their way: to the pool, and of the pool.       *)
PoolLines ==
  {Request(m) : m \in {"mining.subscribe", "mining.authorize", "extranonce.subscribe", "pong"}}
  \cup {ShareLine(s) : s \in Shares}
Answers ==
  {l \in [m : {"answer"}, id : 1 .. 4, ok : BOOLEAN, x : Nat] : l.id = 1 /\ l.ok => l.x \in Xn1}
MinerLines ==
  Answers \cup [m : Methods \ {"client.reconnect"}, id : {0}, ok : {FALSE}, x : Xn1]
          \cup [m : {"client.reconnect"}, id : {0}, ok : {FALSE}, x : Pools]

Typed ==
  /\ TypeOK
  /\ toPool \in Seq(PoolLines) /\ toMiner \in Seq(MinerLines)
  /\ wq \in Seq(Shares \cup {Stop}) /\ opt_retries \in Int
  /\ spc # "out" => Len(wq) <= MaxQueue

(* Without a connection nothing is on its way; the thread has one where it *)
(* counts on one, and has none where it makes one.                         *)
Connected ==
  /\ ~curl => ~open /\ pxn1 = 0 /\ ~pauth /\ toMiner = << >>
  /\ ~open => toPool = << >>
  /\ spc \in {"url", "connect", "out"} => ~curl
  /\ spc \in (Handshake \ {"authwait"}) \cup {"check", "recv"} => curl

(* The lines from which this program takes the extranonce1 to go by.       *)
Setter(line) == line.m = "mining.set_extranonce" \/ (line.m = "answer" /\ line.id = 1 /\ line.ok)

(* x is the extranonce1 it goes by when it has read the first n lines.     *)
GoesBy(x, n) ==
  \/ x = xnonce1 /\ \A i \in 1 .. n : ~Setter(toMiner[i])
  \/ \E k \in 1 .. n : /\ Setter(toMiner[k]) /\ toMiner[k].x = x
                       /\ \A i \in k + 1 .. n : ~Setter(toMiner[i])

(* A pool that has not answered a subscription sends nothing of itself.    *)
QuietBefore ==
  pxn1 = 0 => \A i \in DOMAIN toMiner : toMiner[i].m = "answer" /\ ~Setter(toMiner[i])

(* Both sides will agree on extranonce1, and do at every job.              *)
Agreed ==
  ~stray /\ pxn1 # 0 =>
    /\ GoesBy(pxn1, Len(toMiner))
    /\ \A i \in DOMAIN toMiner :
         toMiner[i].m = "mining.notify" => GoesBy(toMiner[i].x, i)

NoRequest(m) == \A i \in DOMAIN toPool : toPool[i].m # m
IsAnswer(line, id) == line.m = "answer" /\ line.id = id
NoAnswer(ids) == \A i \in DOMAIN toMiner : toMiner[i].m = "answer" => toMiner[i].id \notin ids

(* What is on its way at each point of the handshake.                      *)
Steps ==
  curl /\ ~stray =>
    /\ spc = "subscribe" => toPool = << >> /\ toMiner = << >> /\ pxn1 = 0
    /\ spc = "subwait" =>
         /\ toMiner = << >> => pxn1 = 0
         /\ Len(toPool) + Len(toMiner) > 1 => toPool = << >> /\ pxn1 # 0
         /\ toPool # << >> => toPool[1].m = "mining.subscribe" /\ pxn1 = 0
         /\ toMiner # << >> => IsAnswer(toMiner[1], 1) /\ (toMiner[1].ok <=> pxn1 # 0)
         /\ \A i \in DOMAIN toMiner : i > 1 => toMiner[i].m # "answer"
    /\ spc = "authorize" => toPool = << >> /\ NoAnswer({2, 3, 4})
    /\ spc = "authwait" =>
         /\ NoRequest("extranonce.subscribe") /\ NoAnswer({3, 4})
         /\ \A i \in DOMAIN toMiner : IsAnswer(toMiner[i], 2) =>
              /\ toMiner[i].ok = pauth /\ NoRequest("mining.authorize")
              /\ \A k \in DOMAIN toMiner : IsAnswer(toMiner[k], 2) => k = i
         /\ \A i, k \in DOMAIN toPool :
              toPool[i].m = "mining.authorize" /\ toPool[k].m = "mining.authorize" => i = k
    /\ spc \in {"xnsend", "xnwait"} \cup Session =>
         pauth /\ NoRequest("mining.authorize") /\ NoAnswer({2})
    /\ spc \in {"authorize", "authwait", "xnsend", "xnwait"} \cup Session =>
         pxn1 # 0 /\ NoRequest("mining.subscribe") /\ NoAnswer({1})
    /\ spc \in Handshake =>
         /\ NoRequest("mining.submit") /\ NoAnswer({4})
         /\ \A i \in DOMAIN toMiner : toMiner[i].m # "unknown"

(* A job was built with the extranonce1 the pool meant; and a V2 job of     *)
(* this session with the one the session still has, unless the pool has    *)
(* changed it.                                                             *)
JobFits ==
  /\ ~stray => job.cx = job.px
  /\ header = "V2" /\ ~stray /\ ~moved =>
       /\ \A i \in DOMAIN toMiner : toMiner[i].m # "mining.set_extranonce"
       /\ job.of = "here" => job.cx = xnonce1
       /\ spc \in {"subscribe", "subwait"} => job.of # "here"

(* Everything a share comes from fits, from the job to the line.           *)
Fits ==
  /\ JobFits /\ g_work.fits /\ cmd.fits
  /\ \A i \in DOMAIN wq : wq[i] # Stop => wq[i].fits
  /\ SharesFit

(* stratum.sharediff is that of every share not yet counted.               *)
OneDiff ==
  ~stray /\ ~overlap =>
    /\ \A i \in DOMAIN toPool : IsShare(toPool[i]) => toPool[i].share.block = sharediff
    /\ \A i \in DOMAIN toMiner :
         IsShareAnswer(toMiner[i]) => (toMiner[i].x = 1 <=> sharediff)

IInv == /\ Typed /\ Connected /\ QuietBefore /\ Agreed /\ Steps /\ Fits /\ OneDiff
        /\ AnswersCounted /\ SolvedCounted

-----------------------------------------------------------------------------
(* Lines                                                                   *)

LEMMA PoolLine ==
  /\ \A m \in {"mining.subscribe", "mining.authorize", "extranonce.subscribe", "pong"} :
       Request(m) \in PoolLines /\ Request(m).m = m
  /\ \A s \in Shares : /\ ShareLine(s) \in PoolLines /\ ShareLine(s).m = "mining.submit"
                       /\ ShareLine(s).share = s
  /\ \A l \in PoolLines :
       /\ l.m \in {"mining.subscribe", "mining.authorize", "extranonce.subscribe", "pong",
                   "mining.submit"}
       /\ l.m = "mining.submit" => l.share \in Shares
<1>1. \A m : Request(m).m = m
  BY DEF Request
<1>2. \A s : ShareLine(s).m = "mining.submit" /\ ShareLine(s).share = s
  BY DEF ShareLine
<1>3. /\ \A m \in {"mining.subscribe", "mining.authorize", "extranonce.subscribe", "pong"} :
           Request(m) \in PoolLines
      /\ \A s \in Shares : ShareLine(s) \in PoolLines
  BY DEF PoolLines
<1>4. ASSUME NEW l \in PoolLines
      PROVE  \/ \E m \in {"mining.subscribe", "mining.authorize", "extranonce.subscribe", "pong"} :
                   l = Request(m)
             \/ \E s \in Shares : l = ShareLine(s)
  BY DEF PoolLines
<1>5. ASSUME NEW l \in PoolLines
      PROVE  /\ l.m \in {"mining.subscribe", "mining.authorize", "extranonce.subscribe", "pong",
                          "mining.submit"}
             /\ l.m = "mining.submit" => l.share \in Shares
  BY <1>1, <1>2, <1>4
<1>. QED  BY <1>1, <1>2, <1>3, <1>5

LEMMA AnswerLine ==
  ASSUME NEW id \in 1 .. 4, NEW ok \in BOOLEAN, NEW x \in Nat, id = 1 /\ ok => x \in Xn1
  PROVE  LET l == Answer(id, ok, x)
         IN l \in MinerLines /\ l.m = "answer" /\ l.id = id /\ l.ok = ok /\ l.x = x
BY DEF MinerLines, Answers, Answer

LEMMA MethodLine ==
  ASSUME NEW m \in Methods, NEW x \in IF m = "client.reconnect" THEN Pools ELSE Xn1
  PROVE  LET l == Method(m, x) IN l \in MinerLines /\ l.m = m /\ l.id = 0 /\ l.x = x
BY DEF MinerLines, Method

(* What a line of the pool carries.                                        *)
LEMMA MinerLine ==
  ASSUME NEW l \in MinerLines
  PROVE  /\ l.m \in {"answer", "mining.notify", "mining.set_extranonce", "client.reconnect",
                     "mining.ping", "unknown"}
         /\ l.m = "answer" => l.id \in 1 .. 4
         /\ l.m # "answer" => l.id = 0
         /\ l.m \in {"mining.notify", "mining.set_extranonce"} => l.x \in Xn1
         /\ l.m = "client.reconnect" => l.x \in Pools
         /\ l.m = "answer" /\ l.id = 1 /\ l.ok => l.x \in Xn1
         /\ l.ok \in BOOLEAN
<1>1. CASE l \in Answers
  BY <1>1 DEF Answers
<1>2. CASE l \in [m : Methods \ {"client.reconnect"}, id : {0}, ok : {FALSE}, x : Xn1]
  BY <1>2, SessionAssumption
<1>3. CASE l \in [m : {"client.reconnect"}, id : {0}, ok : {FALSE}, x : Pools]
  BY <1>3
<1>. QED  BY <1>1, <1>2, <1>3 DEF MinerLines

(* What is written reaches the pool, or is lost with the connection.       *)
LEMMA Written ==
  ASSUME Typed, NEW l \in PoolLines, Sent(l)
  PROVE  toPool' \in Seq(PoolLines) /\ (toPool' = toPool \/ (open /\ toPool' = Append(toPool, l)))
<1>1. toPool \in Seq(PoolLines)
  BY DEF Typed
<1>2. Append(toPool, l) \in Seq(PoolLines)
  BY <1>1
<1>. QED  BY <1>1, <1>2 DEF Sent

(* The line at hand, and what is left when it has been read.               *)
LEMMA AtHand ==
  ASSUME Typed, toMiner # << >>
  PROVE  /\ Head(toMiner) \in MinerLines /\ Tail(toMiner) \in Seq(MinerLines)
         /\ Head(toMiner) = toMiner[1] /\ 1 \in DOMAIN toMiner
         /\ \A i \in DOMAIN Tail(toMiner) :
              i + 1 \in DOMAIN toMiner /\ Tail(toMiner)[i] = toMiner[i + 1]
<1>1. toMiner \in Seq(MinerLines)
  BY DEF Typed
<1>. QED  BY <1>1, Shrunk

(* The line at hand is read: at most extranonce1, the job or an answer to  *)
(* a ping comes of it; or the pool has redirected the session.             *)
Passed ==
  LET line == Head(toMiner) IN
  /\ line.m # "client.reconnect"
  /\ toMiner' = Tail(toMiner) /\ UNCHANGED <<curl, open, pxn1, pauth, url, redirected>>
  /\ xnonce1' = IF line.m = "mining.set_extranonce" THEN line.x ELSE xnonce1
  /\ job' = IF line.m = "mining.notify" THEN NewJob(xnonce1, line.x) ELSE job
  /\ toPool' = toPool \/ (line.m = "mining.ping" /\ Sent(Request("pong")))
Redirected ==
  /\ Head(toMiner).m = "client.reconnect" /\ Disconnect
  /\ url' \in Pools /\ redirected' \in BOOLEAN /\ UNCHANGED <<job, xnonce1>>

LEMMA Handled ==
  ASSUME Typed, toMiner # << >>, NEW handled \in BOOLEAN, HandleMethod(Head(toMiner), handled)
  PROVE  /\ Passed \/ (Redirected /\ handled)
         /\ ~handled => Head(toMiner).m \in {"answer", "unknown", "mining.ping"}
<1>. DEFINE line == Head(toMiner)
<1>1. line.m = "client.reconnect" => line.x \in Pools
  BY AtHand, MinerLine
<1>2. HandleMethod(line, handled)
  OBVIOUS
<1>. HIDE DEF line
<1>3. CASE line.m = "client.reconnect"
  <2>1. handled /\ url' \in Pools /\ redirected' \in BOOLEAN /\ UNCHANGED <<job, xnonce1>> /\ Disconnect
    BY <1>1, <1>2, <1>3 DEF HandleMethod
  <2>. QED  BY <1>3, <2>1 DEF Redirected, line
<1>4. CASE line.m # "client.reconnect"
  <2>1. /\ toMiner' = Tail(toMiner) /\ UNCHANGED <<curl, open, pxn1, pauth, url, redirected>>
        /\ xnonce1' = IF line.m = "mining.set_extranonce" THEN line.x ELSE xnonce1
        /\ job' = IF line.m = "mining.notify" THEN NewJob(xnonce1, line.x) ELSE job
    BY <1>2, <1>4 DEF HandleMethod, Keep
  <2>2. toPool' = toPool \/ (line.m = "mining.ping" /\ Sent(Request("pong")))
    BY <1>2, <1>4 DEF HandleMethod, NotSent
  <2>3. ~handled => line.m \in {"answer", "unknown", "mining.ping"}
    BY <1>2, <1>4 DEF HandleMethod
  <2>. QED  BY <1>4, <2>1, <2>2, <2>3 DEF Passed, line
<1>. QED  BY <1>3, <1>4

LEMMA LinePassed ==
  ASSUME Typed, AuthorizeLine \/ ExtranonceLine \/ MainLine
  PROVE  toMiner # << >> /\ (Passed \/ Redirected)
<1>1. toMiner # << >>
  BY DEF AuthorizeLine, ExtranonceLine, MainLine
<1>2. CASE \E handled \in BOOLEAN : HandleMethod(Head(toMiner), handled)
  BY <1>1, <1>2, Handled
<1>3. CASE /\ Head(toMiner).id = 3 /\ toMiner' = Tail(toMiner)
           /\ UNCHANGED <<job, xnonce1, toPool>> /\ Keep
  BY <1>1, <1>3, AtHand, MinerLine DEF Passed, Keep
<1>. QED  BY <1>1, <1>2, <1>3 DEF AuthorizeLine, ExtranonceLine, MainLine

-----------------------------------------------------------------------------
(* Types                                                                   *)

LEMMA JobTypes ==
  /\ NoJob \in Jobs /\ OldJob \in Jobs /\ NoJob.cx = NoJob.px /\ OldJob.cx = OldJob.px
  /\ NoJob.of # "here" /\ OldJob.of # "here"
  /\ \A cx, px \in Xn1 \cup {0} : /\ NewJob(cx, px) \in Jobs
                                  /\ NewJob(cx, px).cx = cx /\ NewJob(cx, px).px = px
  /\ \A j : Foreign(j) \in {NoJob, OldJob}
BY DEF Jobs, NoJob, OldJob, NewJob, Foreign

LEMMA WorkTypes ==
  /\ NoWork \in [made : BOOLEAN, fits : BOOLEAN] /\ NoWork.fits
  /\ \A j : WorkOf(j) \in [made : BOOLEAN, fits : BOOLEAN]
  /\ \A j : WorkOf(j).fits <=> stray \/ moved \/ MadeWith(j) = j.px
BY DEF NoWork, WorkOf

LEMMA ShareTypes ==
  /\ NoShare \in Shares /\ NoShare.fits /\ Stop \notin Shares
  /\ \A w \in [made : BOOLEAN, fits : BOOLEAN] : \A block \in BOOLEAN :
       /\ Share(w, block) \in Shares /\ Share(w, block) # Stop
       /\ Share(w, block).fits <=> w.fits
<1>1. \A w \in [made : BOOLEAN, fits : BOOLEAN] : \A block \in BOOLEAN :
        Share(w, block) \in Shares /\ Share(w, block).fits = w.fits
  BY DEF Share, Shares
<1>2. \A s \in Shares : s # Stop
  <2>. SUFFICES ASSUME NEW s \in Shares, s = Stop  PROVE FALSE
    OBVIOUS
  <2>1. DOMAIN s = {"block", "fits"}
    BY DEF Shares
  <2>2. DOMAIN s = {"stop"}
    BY DEF Stop
  <2>3. "block" \in DOMAIN s /\ "block" \notin DOMAIN s
    BY <2>1, <2>2
  <2>. QED  BY <2>3
<1>3. NoShare \in Shares /\ NoShare.fits
  BY WorkTypes DEF NoShare, Share, Shares
<1>. QED  BY <1>1, <1>2, <1>3, Zenon

(* The connection's part of the types, and the rest.                       *)
OnTheLine == toPool \in Seq(PoolLines) /\ toMiner \in Seq(MinerLines)

LEMMA Disconnected ==
  ASSUME Disconnect
  PROVE  /\ OnTheLine' /\ curl' = FALSE /\ open' = FALSE /\ pxn1' = 0 /\ pauth' = FALSE
         /\ toPool' = << >> /\ toMiner' = << >>
BY DEF Disconnect, OnTheLine


(* The types, step by step: the steps of the stratum thread but for those  *)
(* on a line, and of the miner threads.                                    *)
LEMMA ThreadTyped ==
  ASSUME Typed, ThreadReset \/ ThreadUrl \/ ThreadTop \/ ConnectFail \/ HandshakeTimeout
                \/ Generate \/ MainTimeout \/ Regenerate
  PROVE  Typed'
<1>1. CASE ThreadReset
  BY <1>1, Disconnected DEF ThreadReset, Typed, TypeOK, OnTheLine, workio, history, Handshake, Session
<1>2. CASE ThreadUrl
  <2>1. redirected' = FALSE /\ url' \in Pools /\ spc' = "connect" /\ failures' = 0
    BY <1>2 DEF ThreadUrl, Typed, TypeOK
  <2>2. UNCHANGED <<connection, options, workio, xnonce1, job, g_work, retry, stable,
                    stray, moved, overlap, uncounted, unsolved>>
    BY <1>2 DEF ThreadUrl
  <2>3. {redirected, stray, moved, overlap}' \subseteq BOOLEAN
    BY <2>1, <2>2, Zenon DEF Typed, TypeOK
  <2>4. {curl, open, pauth, retry, sharediff, stable}' \subseteq BOOLEAN
    BY <2>2, Zenon DEF Typed, TypeOK, connection, workio
  <2>5. UNCHANGED <<toPool, toMiner, xnonce1, pxn1, job, g_work, rpc_url, need_reset, apc,
                    opt_retries, wq, wpc, cmd, wfailures, uncounted, unsolved>>
    BY <2>2 DEF connection, options, workio
  <2>6. spc = "url"
    BY <1>2 DEF ThreadUrl
  <2>. QED  BY <2>1, <2>3, <2>4, <2>5, <2>6 DEF Typed, TypeOK, Handshake, Session
<1>3. CASE ThreadTop
  BY <1>3 DEF ThreadTop, Typed, TypeOK, workio, connection, options, history, Handshake, Session
<1>4. CASE ConnectFail
  BY <1>4 DEF ConnectFail, Typed, TypeOK, workio, connection, options, history, Handshake, Session
<1>5. CASE HandshakeTimeout
  BY <1>5 DEF HandshakeTimeout, Typed, TypeOK, workio, connection, options, history, Handshake, Session
<1>6. CASE Generate
  BY <1>6, WorkTypes DEF Generate, Typed, TypeOK, workio, connection, options, history, Handshake, Session
<1>7. CASE MainTimeout
  BY <1>7, Disconnected DEF MainTimeout, Typed, TypeOK, OnTheLine, workio, options, history, Handshake, Session
<1>8. CASE Regenerate
  BY <1>8, WorkTypes DEF Regenerate, Typed, TypeOK, workio, connection, options, history, Handshake, Session
<1>. QED  BY <1>1, <1>2, <1>3, <1>4, <1>5, <1>6, <1>7, <1>8

LEMMA ConnectTyped ==
  ASSUME Typed, Connect
  PROVE  Typed'
<1>1. UNCHANGED <<toPool, toMiner, pxn1, pauth, options, workio, url, xnonce1, g_work,
                  failures, stable, redirected>>
  BY DEF Connect
<1>2. job' \in Jobs
  BY JobTypes DEF Connect
<1>3. /\ curl' = TRUE /\ open' = TRUE /\ spc' = "subscribe" /\ retry' = FALSE
      /\ stray' = FALSE /\ moved' = FALSE /\ overlap' = FALSE
      /\ uncounted' = 0 /\ unsolved' = 0 /\ spc = "connect"
  BY DEF Connect
<1>4. {redirected, stray, moved, overlap}' \subseteq BOOLEAN
  BY <1>1, <1>3, Zenon DEF Typed, TypeOK
<1>5. {curl, open, pauth, retry, sharediff, stable}' \subseteq BOOLEAN
  BY <1>1, <1>3, Zenon DEF Typed, TypeOK, workio
<1>. QED  BY <1>1, <1>2, <1>3, <1>4, <1>5 DEF Typed, TypeOK, options, workio, Handshake, Session

LEMMA FailedTyped ==
  ASSUME Typed, Failed
  PROVE  Typed'
<1>1. UNCHANGED <<options, wpc, cmd, wfailures, sharediff, url, xnonce1, job, g_work,
                 retry, stable, history>>
  BY DEF Failed
<1>2. OnTheLine' /\ curl' = FALSE /\ open' = FALSE /\ pxn1' = 0 /\ pauth' = FALSE
  BY Disconnected DEF Failed
<1>3. wq \in Seq(Shares \cup {Stop}) /\ Len(wq) <= MaxQueue
  BY DEF Typed, Failed
<1>4. CASE StratumGivesUp(failures)
  <2>1. spc' = "out" /\ wq' = Append(wq, Stop) /\ failures' = failures
    BY <1>4 DEF Failed, Ordered
  <2>2. wq' \in Seq(Shares \cup {Stop}) /\ Len(wq') <= MaxQueue + 1
    <3>1. Len(wq) \in Nat /\ Len(Append(wq, Stop)) = Len(wq) + 1 /\ Append(wq, Stop) \in Seq(Shares \cup {Stop})
      BY <1>3, Grown
    <3>. QED  BY <1>3, <2>1, <3>1, SessionAssumption
  <2>3. {curl, open, pauth, retry, sharediff, stable}' \subseteq BOOLEAN
    BY <1>1, <1>2, Zenon DEF Typed, TypeOK
  <2>. QED  BY <1>1, <1>2, <2>1, <2>2, <2>3 DEF Typed, TypeOK, OnTheLine, options, history, Handshake, Session
<1>5. CASE ~StratumGivesUp(failures)
  <2>1. /\ spc' = "connect" /\ wq' = wq
        /\ failures' = IF opt_retries >= 0 THEN failures + 1 ELSE 0
    BY <1>5 DEF Failed
  <2>2. opt_retries >= 0 => failures' \in 0 .. opt_retries
    BY <1>5, <2>1 DEF StratumGivesUp, Typed, TypeOK
  <2>. QED  BY <1>1, <1>2, <1>3, <2>1, <2>2 DEF Typed, TypeOK, OnTheLine, options, history, Handshake, Session
<1>. QED  BY <1>4, <1>5

LEMMA SendTyped ==
  ASSUME Typed, HandshakeSend
  PROVE  Typed'
<1>1. UNCHANGED <<curl, toMiner, open, pxn1, pauth, options, workio, url, xnonce1,
                 job, g_work, retry, failures, stable, history>>
  BY DEF HandshakeSend
<1>2. toPool' \in Seq(PoolLines)
  <2>1. CASE toPool' = toPool
    BY <2>1 DEF Typed
  <2>2. CASE \E m \in {"mining.subscribe", "mining.authorize", "extranonce.subscribe"} : Sent(Request(m))
    BY <2>2, PoolLine, Written
  <2>. QED  BY <2>1, <2>2 DEF HandshakeSend, NotSent
<1>3. spc' \in Handshake \cup {"failed", "check"}
  BY DEF HandshakeSend, Handshake
<1>4. spc # "out"
  BY DEF HandshakeSend
<1>. QED  BY <1>1, <1>2, <1>3, <1>4 DEF Typed, TypeOK, options, workio, history, Handshake, Session

LEMMA SubscribeAnswerTyped ==
  ASSUME Typed, SubscribeAnswer
  PROVE  Typed'
<1>1. UNCHANGED <<curl, toPool, open, pxn1, pauth, options, workio, url, job,
                    g_work, failures, stable, history>>
  BY DEF SubscribeAnswer
<1>2. toMiner' \in Seq(MinerLines)
  BY AtHand DEF SubscribeAnswer
<1>3. xnonce1' \in Xn1 \cup {0}
  BY AtHand, MinerLine DEF SubscribeAnswer, Typed, TypeOK
<1>4. spc' \in {"authorize", "failed", "subscribe"} /\ retry' \in BOOLEAN /\ spc # "out"
  BY DEF SubscribeAnswer, Typed, TypeOK
<1>. QED  BY <1>1, <1>2, <1>3, <1>4 DEF Typed, TypeOK, options, workio, history, Handshake, Session

LEMMA LineTyped ==
  ASSUME Typed, AuthorizeLine \/ ExtranonceLine \/ MainLine,
         uncounted' \in Nat, unsolved' \in Nat
  PROVE  Typed'
<1>1. UNCHANGED <<options, workio, g_work, retry, failures, stable, moved, overlap>> /\ spc # "out"
  BY DEF AuthorizeLine, ExtranonceLine, MainLine
<1>2. spc' \in Handshake \cup Session \cup {"failed", "connect"}
  BY DEF AuthorizeLine, ExtranonceLine, MainLine, Handshake, Session
<1>3. {stray, moved, overlap}' \subseteq BOOLEAN
  BY <1>1, Zenon DEF AuthorizeLine, ExtranonceLine, MainLine, Typed, TypeOK
<1>4. toMiner # << >> /\ (Passed \/ Redirected)
  BY LinePassed
<1>5. CASE Redirected
  BY <1>1, <1>2, <1>3, <1>5, Disconnected
     DEF Redirected, Typed, TypeOK, OnTheLine, options, workio, Handshake, Session
<1>6. CASE Passed
  <2>1. xnonce1' \in Xn1 \cup {0}
    BY <1>4, <1>6, AtHand, MinerLine DEF Passed, Typed, TypeOK
  <2>2. job' \in Jobs
    BY <1>4, <1>6, AtHand, MinerLine, JobTypes DEF Passed, Typed, TypeOK
  <2>3. toPool' \in Seq(PoolLines)
    BY <1>6, PoolLine, Written DEF Passed, Typed
  <2>4. toMiner' \in Seq(MinerLines)
    BY <1>4, <1>6, AtHand DEF Passed
  <2>5. UNCHANGED <<curl, open, pxn1, pauth, url, redirected>>
    BY <1>6 DEF Passed
  <2>. QED  BY <1>1, <1>2, <1>3, <2>1, <2>2, <2>3, <2>4, <2>5
           DEF Typed, TypeOK, options, workio, Handshake, Session
<1>. QED  BY <1>4, <1>5, <1>6


LEMMA WorkTyped ==
  ASSUME Typed, Find \/ WorkioTake \/ WorkioStale
  PROVE  Typed'
<1>1. wq \in Seq(Shares \cup {Stop}) /\ Len(wq) \in Nat
  BY DEF Typed
<1>2. CASE Find
  <2>1. PICK block \in Blocks : wq' = Append(wq, Share(g_work, block))
    BY <1>2 DEF Find
  <2>2. Share(g_work, block) \in Shares \cup {Stop}
    <3>1. block \in BOOLEAN
      BY SessionAssumption
    <3>2. g_work \in [made : BOOLEAN, fits : BOOLEAN]
      BY DEF Typed, TypeOK
    <3>. QED  BY <3>1, <3>2, ShareTypes
  <2>3. wq' \in Seq(Shares \cup {Stop}) /\ Len(wq') = Len(wq) + 1
    BY <1>1, <2>1, <2>2, Grown
  <2>4. Len(wq') <= MaxQueue
    BY <1>1, <1>2, <2>3, SessionAssumption DEF Find
  <2>. QED  BY <1>2, <2>3, <2>4, SessionAssumption
            DEF Find, Typed, TypeOK, connection, options, stratum, history
<1>3. CASE WorkioTake
  <2>1. wq' \in Seq(Shares \cup {Stop}) /\ Len(wq') = Len(wq) - 1 /\ Head(wq) \in Shares \cup {Stop}
    BY <1>1, <1>3, Shrunk DEF WorkioTake
  <2>2. cmd' \in Shares /\ wpc' \in {"end", "submit"} /\ wfailures' = 0
    BY <1>3, <2>1, ShareTypes DEF WorkioTake
  <2>3. UNCHANGED <<connection, options, stratum, sharediff, stable, history>>
    BY <1>3 DEF WorkioTake
  <2>4. (spc # "out" => Len(wq') <= MaxQueue) /\ Len(wq') <= MaxQueue + 1
    BY <1>1, <2>1, SessionAssumption DEF Typed, TypeOK
  <2>. QED  BY <2>1, <2>2, <2>3, <2>4 DEF Typed, TypeOK, connection, options, stratum, history
<1>4. CASE WorkioStale
  BY <1>4, ShareTypes DEF WorkioStale, Typed, TypeOK, connection, options, stratum, history
<1>. QED  BY <1>2, <1>3, <1>4

LEMMA SubmitTyped ==
  ASSUME Typed, WorkioSent \/ WorkioNotSent
  PROVE  Typed'
<1>1. UNCHANGED <<curl, toMiner, open, pxn1, pauth, options, stratum, wq, stable, redirected, moved>>
  BY DEF WorkioSent, WorkioNotSent
<1>2. {redirected, stray, moved, overlap}' \subseteq BOOLEAN
  BY <1>1, Zenon DEF WorkioSent, WorkioNotSent, Typed, TypeOK
<1>3. cmd \in Shares /\ sharediff' \in BOOLEAN
  BY DEF WorkioSent, WorkioNotSent, StoreDiff, Typed, TypeOK, Shares
<1>4. {curl, open, pauth, retry, sharediff, stable}' \subseteq BOOLEAN
  BY <1>1, <1>3, Zenon DEF Typed, TypeOK, stratum
<1>5. toPool' \in Seq(PoolLines)
  <2>1. CASE WorkioSent
    BY <1>3, <2>1, PoolLine, Written DEF WorkioSent
  <2>2. CASE WorkioNotSent
    BY <2>2 DEF WorkioNotSent, NotSent, Typed
  <2>. QED  BY <2>1, <2>2
<1>6. uncounted' \in Nat /\ unsolved' \in Nat
  BY DEF WorkioSent, WorkioNotSent, Judge, Typed, TypeOK
<1>7. cmd' \in Shares /\ wpc' \in {"idle", "submit", "end"}
  BY <1>3, ShareTypes DEF WorkioSent, WorkioNotSent, Typed, TypeOK
<1>8. opt_retries >= 0 => wfailures' \in 0 .. opt_retries
  BY DEF WorkioSent, WorkioNotSent, WorkioGivesUp, Typed, TypeOK
<1>. QED  BY <1>1, <1>2, <1>4, <1>5, <1>6, <1>7, <1>8 DEF Typed, TypeOK, options, stratum

LEMMA ApiTyped ==
  ASSUME Typed, Api \/ Stabilize
  PROVE  Typed'
<1>1. CASE Api
  BY <1>1 DEF Api, SetUrl, SetFlag, Typed, TypeOK, connection, stratum, workio, history
<1>2. CASE Stabilize
  BY <1>2 DEF Stabilize, Typed, TypeOK, connection, options, stratum, workio, history
<1>. QED  BY <1>1, <1>2

(* The answers of the pool.                                                *)
LEMMA Answered ==
  ASSUME Typed, PoolTake
  PROVE  LET line == Head(toPool) IN
         /\ UNCHANGED <<curl, open, options, stratum, workio, stable, redirected, stray, moved, overlap>>
         /\ open /\ toPool # << >> /\ line \in PoolLines /\ line = toPool[1]
         /\ toPool' = Tail(toPool) /\ toPool' \in Seq(PoolLines) /\ toMiner' \in Seq(MinerLines)
         /\ \/ \E x \in Xn1 : /\ line.m = "mining.subscribe" /\ toMiner' = Append(toMiner, Answer(1, TRUE, x))
                              /\ pxn1' = x /\ UNCHANGED <<pauth, uncounted, unsolved>>
            \/ /\ line.m = "mining.subscribe" /\ toMiner' = Append(toMiner, Answer(1, FALSE, 0))
               /\ UNCHANGED <<pxn1, pauth, uncounted, unsolved>>
            \/ \E ok \in BOOLEAN : /\ line.m = "mining.authorize" /\ toMiner' = Append(toMiner, Answer(2, ok, 0))
                                   /\ pauth' = ok /\ UNCHANGED <<pxn1, uncounted, unsolved>>
            \/ /\ line.m = "extranonce.subscribe" /\ toMiner' = Append(toMiner, Answer(3, TRUE, 0))
               /\ UNCHANGED <<pxn1, pauth, uncounted, unsolved>>
            \/ /\ line.m = "mining.submit" /\ line.share \in Shares
               /\ toMiner' = Append(toMiner, Answer(4, FALSE, IF line.share.block THEN 1 ELSE 0))
               /\ uncounted' = IF stray THEN uncounted ELSE uncounted + 1
               /\ unsolved' = IF stray \/ overlap \/ ~line.share.block THEN unsolved ELSE unsolved + 1
               /\ UNCHANGED <<pxn1, pauth>>
            \/ /\ line.m = "pong" /\ UNCHANGED <<toMiner, pxn1, pauth, uncounted, unsolved>>
<1>. DEFINE line == Head(toPool)
<1>1. /\ UNCHANGED <<curl, open, options, stratum, workio, stable, redirected, stray, moved, overlap>>
      /\ open /\ toPool # << >> /\ toPool' = Tail(toPool)
  BY DEF PoolTake
<1>2. toPool \in Seq(PoolLines) /\ toMiner \in Seq(MinerLines)
  BY DEF Typed
<1>3. line \in PoolLines /\ line = toPool[1] /\ toPool' \in Seq(PoolLines)
  BY <1>1, <1>2, Shrunk
<1>4. line.m = "mining.submit" => line.share \in Shares
  BY <1>3, PoolLine
<1>5. \/ \E x \in Xn1 : /\ line.m = "mining.subscribe" /\ toMiner' = Append(toMiner, Answer(1, TRUE, x))
                        /\ pxn1' = x /\ UNCHANGED <<pauth, uncounted, unsolved>>
      \/ /\ line.m = "mining.subscribe" /\ toMiner' = Append(toMiner, Answer(1, FALSE, 0))
         /\ UNCHANGED <<pxn1, pauth, uncounted, unsolved>>
      \/ \E ok \in BOOLEAN : /\ line.m = "mining.authorize" /\ toMiner' = Append(toMiner, Answer(2, ok, 0))
                             /\ pauth' = ok /\ UNCHANGED <<pxn1, uncounted, unsolved>>
      \/ /\ line.m = "extranonce.subscribe" /\ toMiner' = Append(toMiner, Answer(3, TRUE, 0))
         /\ UNCHANGED <<pxn1, pauth, uncounted, unsolved>>
      \/ /\ line.m = "mining.submit" /\ line.share \in Shares
         /\ toMiner' = Append(toMiner, Answer(4, FALSE, IF line.share.block THEN 1 ELSE 0))
         /\ uncounted' = IF stray THEN uncounted ELSE uncounted + 1
         /\ unsolved' = IF stray \/ overlap \/ ~line.share.block THEN unsolved ELSE unsolved + 1
         /\ UNCHANGED <<pxn1, pauth>>
      \/ /\ line.m = "pong" /\ UNCHANGED <<toMiner, pxn1, pauth, uncounted, unsolved>>
  <2>. HIDE DEF line
  <2>1. {TRUE, stable} \subseteq BOOLEAN
    BY DEF Typed, TypeOK
  <2>. QED  BY <1>4, <2>1 DEF PoolTake, IsShare, line
<1>6. toMiner' = toMiner \/ \E l \in MinerLines : toMiner' = Append(toMiner, l)
  <2>1. /\ \A x \in Xn1 : Answer(1, TRUE, x) \in MinerLines
        /\ Answer(1, FALSE, 0) \in MinerLines /\ Answer(3, TRUE, 0) \in MinerLines
        /\ \A ok \in BOOLEAN : Answer(2, ok, 0) \in MinerLines
        /\ \A x \in {0, 1} : Answer(4, FALSE, x) \in MinerLines
    <3>1. \A x \in Xn1 : Answer(1, TRUE, x) \in MinerLines
      BY SessionAssumption DEF MinerLines, Answers, Answer
    <3>2. Answer(1, FALSE, 0) \in MinerLines /\ Answer(3, TRUE, 0) \in MinerLines
      BY DEF MinerLines, Answers, Answer
    <3>3. \A ok \in BOOLEAN : Answer(2, ok, 0) \in MinerLines
      BY DEF MinerLines, Answers, Answer
    <3>4. \A x \in {0, 1} : Answer(4, FALSE, x) \in MinerLines
      BY DEF MinerLines, Answers, Answer
    <3>. QED  BY <3>1, <3>2, <3>3, <3>4
  <2>. QED  BY <1>5, <2>1
<1>7. toMiner' \in Seq(MinerLines)
  BY <1>2, <1>6, Grown
<1>. QED  BY <1>1, <1>3, <1>5, <1>7

(* What the pool sends of itself.                                          *)
LEMMA Notified ==
  ASSUME Typed, PoolMethod
  PROVE  /\ UNCHANGED <<curl, toPool, open, pauth, options, stratum, workio, stable,
                        redirected, overlap>>
         /\ open /\ pxn1 # 0 /\ toMiner' \in Seq(MinerLines)
         /\ pxn1' \in Xn1 /\ stray' \in BOOLEAN /\ (stray => stray')
         /\ moved' \in BOOLEAN /\ (moved => moved')
         /\ \E m \in Methods : \E x :
              /\ Method(m, x) \in MinerLines /\ toMiner' = Append(toMiner, Method(m, x))
              /\ m = "mining.set_extranonce" \/ pxn1' = pxn1
              /\ m # "client.reconnect" => x = pxn1'
              /\ m = "unknown" /\ spc \in Handshake => stray'
              /\ header = "V2" /\ m = "mining.set_extranonce" => moved'
<1>1. PICK m \in Methods :
        /\ IF m = "mining.set_extranonce" THEN pxn1' \in Xn1 \ {pxn1} ELSE UNCHANGED pxn1
        /\ \E x \in (IF m = "client.reconnect" THEN Pools ELSE {pxn1'}) :
             toMiner' = Append(toMiner, Method(m, x))
        /\ stray' = (stray \/ (m = "unknown" /\ spc \in Handshake))
        /\ moved' = (moved \/ (header = "V2" /\ m = "mining.set_extranonce"))
  BY DEF PoolMethod
<1>2. PICK x \in (IF m = "client.reconnect" THEN Pools ELSE {pxn1'}) :
        toMiner' = Append(toMiner, Method(m, x))
  BY <1>1
<1>3. /\ UNCHANGED <<curl, toPool, open, pauth, options, stratum, workio, stable,
                     redirected, overlap>>
      /\ open /\ pxn1 # 0
  BY DEF PoolMethod
<1>4. pxn1' \in Xn1
  BY <1>1, <1>3 DEF Typed, TypeOK
<1>5. x \in IF m = "client.reconnect" THEN Pools ELSE Xn1
  BY <1>2, <1>4
<1>6. Method(m, x) \in MinerLines
  BY <1>5, MethodLine
<1>7. toMiner' \in Seq(MinerLines)
  BY <1>2, <1>6, Grown DEF Typed
<1>8. stray' \in BOOLEAN /\ (stray => stray') /\ (m = "unknown" /\ spc \in Handshake => stray')
  BY <1>1, Zenon DEF Typed, TypeOK
<1>9. m = "mining.set_extranonce" \/ pxn1' = pxn1
  BY <1>1
<1>10. m # "client.reconnect" => x = pxn1'
  BY <1>2
<1>11. moved' \in BOOLEAN /\ (moved => moved') /\ (header = "V2" /\ m = "mining.set_extranonce" => moved')
  BY <1>1, Zenon DEF Typed, TypeOK
<1>. QED  BY <1>2, <1>3, <1>4, <1>6, <1>7, <1>8, <1>9, <1>10, <1>11, Zenon

LEMMA PoolTyped ==
  ASSUME Typed, PoolTake \/ PoolMethod \/ PoolClose
  PROVE  Typed'
<1>1. CASE PoolTake
  <2>1. UNCHANGED <<curl, open, options, stratum, workio, stable, redirected, stray, moved, overlap>>
    BY <1>1, Answered
  <2>2. toPool' \in Seq(PoolLines) /\ toMiner' \in Seq(MinerLines)
    BY <1>1, Answered
  <2>3. pxn1' \in Xn1 \cup {0}
    BY <1>1, Answered DEF Typed, TypeOK
  <2>4. pauth' \in BOOLEAN
    BY <1>1, Answered DEF Typed, TypeOK
  <2>5. uncounted' \in {uncounted, uncounted + 1} /\ unsolved' \in {unsolved, unsolved + 1}
    BY <1>1, Answered
  <2>6. uncounted' \in Nat /\ unsolved' \in Nat
    BY <2>5 DEF Typed, TypeOK
  <2>. QED  BY <2>1, <2>2, <2>3, <2>4, <2>6 DEF Typed, TypeOK, options, stratum, workio
<1>2. CASE PoolMethod
  <2>1. UNCHANGED <<curl, toPool, open, pauth, options, stratum, workio, stable,
                    redirected, overlap>>
    BY <1>2, Notified
  <2>2. toMiner' \in Seq(MinerLines) /\ pxn1' \in Xn1 \cup {0} /\ stray' \in BOOLEAN /\ moved' \in BOOLEAN
    BY <1>2, Notified
  <2>3. uncounted' \in Nat /\ unsolved' \in Nat
    BY <1>2 DEF PoolMethod, Judge, Typed, TypeOK
  <2>4. {redirected, stray, moved, overlap}' \subseteq BOOLEAN
    BY <2>1, <2>2, Zenon DEF Typed, TypeOK
  <2>. QED  BY <2>1, <2>2, <2>3, <2>4 DEF Typed, TypeOK, options, stratum, workio
<1>3. CASE PoolClose
  <2>1. /\ open' = FALSE /\ toPool' = << >>
        /\ UNCHANGED <<curl, toMiner, pxn1, pauth, options, stratum, workio, stable, history>>
    BY <1>3 DEF PoolClose
  <2>2. {curl, open, pauth, retry, sharediff, stable}' \subseteq BOOLEAN
    BY <2>1, Zenon DEF Typed, TypeOK, stratum, workio
  <2>. QED  BY <2>1, <2>2 DEF Typed, TypeOK, options, stratum, workio, history
<1>. QED  BY <1>1, <1>2, <1>3


-----------------------------------------------------------------------------
(* The connection                                                          *)

LEMMA ConnectedKept ==
  ASSUME Typed, Connected, Next \/ Stabilize
  PROVE  Connected'
<1>1. CASE ThreadReset \/ Failed \/ MainTimeout
  <2>1. spc' \in {"url", "out", "connect", "top"}
    BY <1>1 DEF ThreadReset, Failed, MainTimeout
  <2>. QED  BY <1>1, <2>1, Disconnected DEF ThreadReset, Failed, MainTimeout, Connected, Handshake
<1>2. CASE ThreadUrl \/ ThreadTop \/ ConnectFail \/ HandshakeTimeout \/ Generate
  BY <1>2 DEF ThreadUrl, ThreadTop, ConnectFail, HandshakeTimeout, Generate, Connected, connection, Handshake
<1>3. CASE Connect
  BY <1>3 DEF Connect, Connected, Handshake
<1>4. CASE HandshakeSend
  BY <1>4 DEF HandshakeSend, Sent, NotSent, Connected, Handshake
<1>5. CASE SubscribeAnswer
  BY <1>5 DEF SubscribeAnswer, Connected, Handshake
<1>6. CASE AuthorizeLine \/ ExtranonceLine \/ MainLine
  <2>1. toMiner # << >> /\ (Passed \/ Redirected)
    BY <1>6, LinePassed
  <2>2. curl
    BY <2>1 DEF Connected
  <2>3. \/ spc' \in {"authwait", "failed", "top"}
        \/ curl' /\ spc' \in {"check", "xnsend"}
        \/ ~curl' /\ spc' = "connect"
    <3>1. CASE AuthorizeLine
      <4>1. PICK handled \in BOOLEAN :
              /\ HandleMethod(Head(toMiner), handled)
              /\ spc' = IF handled THEN "authwait"
                        ELSE IF Head(toMiner).id = 2 /\ ~Head(toMiner).ok THEN "failed" ELSE "xnsend"
        BY <3>1 DEF AuthorizeLine
      <4>2. ~handled => Passed
        BY <2>1, <4>1, Handled
      <4>3. ~handled => curl'
        BY <2>2, <4>2 DEF Passed
      <4>. QED  BY <4>1, <4>3
    <3>2. CASE ExtranonceLine
      <4>1. spc' = IF curl' THEN "check" ELSE "connect"
        BY <3>2 DEF ExtranonceLine
      <4>2. CASE curl'
        BY <4>1, <4>2
      <4>3. CASE ~curl'
        BY <4>1, <4>3
      <4>. QED  BY <4>2, <4>3
    <3>3. CASE MainLine
      BY <3>3 DEF MainLine
    <3>. QED  BY <1>6, <3>1, <3>2, <3>3
  <2>4. CASE Redirected
    BY <2>3, <2>4, Disconnected DEF Redirected, Connected, Handshake
  <2>5. CASE Passed
    <3>1. UNCHANGED <<curl, open, pxn1, pauth>> /\ (~open => toPool' = toPool)
      BY <2>5 DEF Passed, Sent
    <3>. QED  BY <2>2, <2>3, <3>1 DEF Connected, Handshake
  <2>. QED  BY <2>1, <2>4, <2>5
<1>7. CASE Regenerate \/ Find \/ WorkioTake \/ WorkioStale \/ Api \/ Stabilize
  <2>1. UNCHANGED <<connection, spc>>
    BY <1>7 DEF Regenerate, Find, WorkioTake, WorkioStale, Api, SetUrl, SetFlag, Stabilize, stratum
  <2>. QED  BY <2>1 DEF Connected, connection
<1>8. CASE WorkioSent \/ WorkioNotSent
  <2>1. UNCHANGED <<curl, toMiner, open, pxn1, pauth, spc>> /\ (~open => toPool' = toPool)
    BY <1>8 DEF WorkioSent, WorkioNotSent, Sent, NotSent, stratum
  <2>. QED  BY <2>1 DEF Connected
<1>9. CASE PoolTake
  <2>1. UNCHANGED <<curl, open, spc>> /\ open
    BY <1>9 DEF PoolTake, stratum
  <2>. QED  BY <2>1 DEF Connected
<1>10. CASE PoolMethod
  <2>1. UNCHANGED <<curl, open, spc, toPool>> /\ open
    BY <1>10 DEF PoolMethod, stratum
  <2>. QED  BY <2>1 DEF Connected
<1>11. CASE PoolClose
  BY <1>11 DEF PoolClose, Connected, stratum
<1>. QED  BY <1>1, <1>2, <1>3, <1>4, <1>5, <1>6, <1>7, <1>8, <1>9, <1>10, <1>11
          DEF Next, Thread, Workio


-----------------------------------------------------------------------------
(* Extranonce1                                                             *)

(* What a step does to the lines of the pool, and to the extranonce1 each  *)
(* side goes by.                                                           *)
LEMMA Moves ==
  ASSUME Typed, Connected, Steps, Next \/ Stabilize
  PROVE  \/ UNCHANGED <<toMiner, xnonce1, pxn1, stray>>
         \/ toMiner' = << >> /\ pxn1' = 0
         \/ /\ toMiner # << >> /\ toMiner' = Tail(toMiner) /\ pxn1' = pxn1 /\ (stray => stray')
            /\ ~stray' => xnonce1' = IF Setter(Head(toMiner)) THEN Head(toMiner).x ELSE xnonce1
         \/ /\ xnonce1' = xnonce1 /\ (stray => stray')
            /\ UNCHANGED <<toMiner, pxn1>>
         \/ /\ xnonce1' = xnonce1 /\ (stray => stray')
            /\ \E l \in MinerLines :
                 /\ toMiner' = Append(toMiner, l)
                 /\ IF Setter(l) THEN pxn1' = l.x /\ pxn1' # 0 ELSE pxn1' = pxn1
                 /\ l.m # "answer" => pxn1' # 0
                 /\ l.m = "mining.notify" => l.x = pxn1'
<1>. DEFINE Reading == /\ toMiner # << >> /\ toMiner' = Tail(toMiner) /\ pxn1' = pxn1 /\ (stray => stray')
                       /\ ~stray' => xnonce1' = IF Setter(Head(toMiner)) THEN Head(toMiner).x ELSE xnonce1
            Adding == /\ xnonce1' = xnonce1 /\ (stray => stray')
                      /\ \E l \in MinerLines :
                           /\ toMiner' = Append(toMiner, l)
                           /\ IF Setter(l) THEN pxn1' = l.x /\ pxn1' # 0 ELSE pxn1' = pxn1
                           /\ l.m # "answer" => pxn1' # 0
                           /\ l.m = "mining.notify" => l.x = pxn1'
<1>. HIDE DEF Reading, Adding
<1>1. CASE ThreadReset \/ Failed \/ MainTimeout
  BY <1>1, Disconnected DEF ThreadReset, Failed, MainTimeout
<1>2. CASE ThreadUrl \/ ThreadTop \/ ConnectFail \/ HandshakeTimeout \/ Generate \/ HandshakeSend
           \/ Regenerate \/ Find \/ WorkioTake \/ WorkioStale \/ Api \/ Stabilize \/ PoolClose
  BY <1>2 DEF ThreadUrl, ThreadTop, ConnectFail, HandshakeTimeout, Generate, HandshakeSend, Regenerate,
              Find, WorkioTake, WorkioStale, Api, SetUrl, SetFlag, Stabilize, PoolClose,
              connection, stratum, history
<1>3. CASE Connect
  BY <1>3 DEF Connect, Connected
<1>4. CASE SubscribeAnswer
  <2>1. /\ toMiner # << >> /\ toMiner' = Tail(toMiner) /\ UNCHANGED <<pxn1, stray>> /\ spc = "subwait"
        /\ xnonce1' = IF Head(toMiner).m = "answer" /\ Head(toMiner).id = 1 /\ Head(toMiner).ok
                      THEN Head(toMiner).x ELSE xnonce1
    BY <1>4 DEF SubscribeAnswer, history
  <2>2. curl /\ Head(toMiner) = toMiner[1]
    BY <2>1, AtHand DEF Connected
  <2>3. ~stray => IsAnswer(toMiner[1], 1)
    BY <2>1, <2>2, Zenon DEF Steps
  <2>4. ~stray => Head(toMiner).m = "answer" /\ Head(toMiner).id = 1
    BY <2>2, <2>3 DEF IsAnswer
  <2>5. Reading
    BY <2>1, <2>4 DEF Setter, Reading
  <2>. QED  BY <2>5 DEF Reading
<1>5. CASE AuthorizeLine \/ ExtranonceLine \/ MainLine
  <2>1. toMiner # << >> /\ (Passed \/ Redirected)
    BY <1>5, LinePassed
  <2>2. CASE Redirected
    BY <2>2, Disconnected DEF Redirected
  <2>3. CASE Passed
    <3>1. curl /\ 1 \in DOMAIN toMiner /\ Head(toMiner) = toMiner[1] /\ Head(toMiner) \in MinerLines
      BY <2>1, AtHand DEF Connected
    <3>2. stray => stray'
      BY <1>5 DEF AuthorizeLine, ExtranonceLine, MainLine
    <3>3. spc \in {"authwait", "xnwait", "recv"}
      BY <1>5 DEF AuthorizeLine, ExtranonceLine, MainLine
    <3>4. ~stray => NoAnswer({1})
      BY <3>1, <3>3, Zenon DEF Steps, Session
    <3>5. ~stray => ~(Head(toMiner).m = "answer" /\ Head(toMiner).id = 1)
      BY <3>1, <3>4 DEF NoAnswer
    <3>6. Reading
      BY <2>1, <2>3, <3>2, <3>5 DEF Passed, Setter, Reading
    <3>. QED  BY <3>6 DEF Reading
  <2>. QED  BY <2>1, <2>2, <2>3
<1>6. CASE WorkioSent \/ WorkioNotSent
  BY <1>6 DEF WorkioSent, WorkioNotSent, stratum
<1>7. CASE PoolTake
  <2>1. UNCHANGED <<xnonce1, stray>>
    BY <1>7 DEF PoolTake, stratum
  <2>2. CASE UNCHANGED <<toMiner, pxn1>>
    BY <2>1, <2>2
  <2>3. ASSUME NEW x \in Xn1, toMiner' = Append(toMiner, Answer(1, TRUE, x)), pxn1' = x
        PROVE  Adding
    <3>1. Answer(1, TRUE, x) \in MinerLines /\ x # 0
      BY SessionAssumption DEF MinerLines, Answers, Answer
    <3>2. Setter(Answer(1, TRUE, x)) /\ Answer(1, TRUE, x).x = x /\ Answer(1, TRUE, x).m = "answer"
      BY DEF Setter, Answer
    <3>. QED  BY <2>1, <2>3, <3>1, <3>2 DEF Adding
  <2>4. ASSUME NEW l \in MinerLines, toMiner' = Append(toMiner, l), l.m = "answer", ~Setter(l), pxn1' = pxn1
        PROVE  Adding
    BY <2>1, <2>4 DEF Adding
  <2>5. /\ \A ok \in BOOLEAN : LET l == Answer(2, ok, 0) IN l \in MinerLines /\ l.m = "answer" /\ ~Setter(l)
        /\ LET l == Answer(1, FALSE, 0) IN l \in MinerLines /\ l.m = "answer" /\ ~Setter(l)
        /\ LET l == Answer(3, TRUE, 0) IN l \in MinerLines /\ l.m = "answer" /\ ~Setter(l)
        /\ \A x \in {0, 1} : LET l == Answer(4, FALSE, x) IN l \in MinerLines /\ l.m = "answer" /\ ~Setter(l)
    BY DEF MinerLines, Answers, Answer, Setter
  <2>6. Adding \/ UNCHANGED <<toMiner, pxn1>>
    BY <1>7, <2>3, <2>4, <2>5, Answered
  <2>. QED  BY <2>2, <2>6 DEF Adding
<1>8. CASE PoolMethod
  <2>1. PICK m \in Methods : \E x :
              /\ Method(m, x) \in MinerLines /\ toMiner' = Append(toMiner, Method(m, x))
              /\ m = "mining.set_extranonce" \/ pxn1' = pxn1
              /\ m # "client.reconnect" => x = pxn1'
    BY <1>8, Notified
  <2>2. PICK x :
              /\ Method(m, x) \in MinerLines /\ toMiner' = Append(toMiner, Method(m, x))
              /\ m = "mining.set_extranonce" \/ pxn1' = pxn1
              /\ m # "client.reconnect" => x = pxn1'
    BY <2>1
  <2>3. xnonce1' = xnonce1 /\ (stray => stray') /\ pxn1' # 0
    BY <1>8, Notified, SessionAssumption DEF stratum
  <2>4. Method(m, x).m = m /\ Method(m, x).x = x /\ m # "answer"
    BY SessionAssumption DEF Method
  <2>5. Adding
    BY <2>2, <2>3, <2>4 DEF Adding, Setter
  <2>. QED  BY <2>5 DEF Adding
<1>. QED  BY <1>1, <1>2, <1>3, <1>4, <1>5, <1>6, <1>7, <1>8
          DEF Next, Thread, Workio

LEMMA QuietKept ==
  ASSUME Typed, Connected, Steps, QuietBefore, Next \/ Stabilize
  PROVE  QuietBefore'
<1>1. CASE UNCHANGED <<toMiner, pxn1>>
  BY <1>1 DEF QuietBefore, Setter
<1>2. CASE toMiner' = << >>
  BY <1>2 DEF QuietBefore
<1>3. CASE toMiner # << >> /\ toMiner' = Tail(toMiner) /\ pxn1' = pxn1
  BY <1>3, AtHand DEF QuietBefore, Setter
<1>4. ASSUME NEW l \in MinerLines, toMiner' = Append(toMiner, l),
             IF Setter(l) THEN pxn1' # 0 ELSE pxn1' = pxn1, l.m # "answer" => pxn1' # 0
      PROVE  QuietBefore'
  <2>. SUFFICES ASSUME pxn1' = 0, NEW i \in DOMAIN toMiner'
                PROVE  toMiner'[i].m = "answer" /\ ~Setter(toMiner'[i])
    BY DEF QuietBefore, Setter
  <2>1. l.m = "answer" /\ ~Setter(l) /\ pxn1 = 0
    BY <1>4
  <2>2. toMiner'[i] = l \/ (i \in DOMAIN toMiner /\ toMiner'[i] = toMiner[i])
    BY <1>4, Grown DEF Typed
  <2>. QED  BY <2>1, <2>2 DEF QuietBefore
<1>. QED  BY <1>1, <1>2, <1>3, <1>4, Moves

(* What GoesBy says of a place is not changed by what comes behind it, and *)
(* moves with it when the head is read.                                    *)
LEMMA GoesByGrown ==
  ASSUME Typed, NEW l \in MinerLines, toMiner' = Append(toMiner, l), xnonce1' = xnonce1,
         NEW x, NEW n \in 0 .. Len(toMiner), GoesBy(x, n)
  PROVE  GoesBy(x, n)'
<1>1. /\ Len(toMiner) \in Nat
      /\ \A i \in 1 .. Len(toMiner) : toMiner'[i] = toMiner[i]
  BY Grown DEF Typed
<1>. QED  BY <1>1 DEF GoesBy, Setter

LEMMA GoesByShrunk ==
  ASSUME Typed, toMiner # << >>, toMiner' = Tail(toMiner),
         xnonce1' = IF Setter(Head(toMiner)) THEN Head(toMiner).x ELSE xnonce1,
         NEW x, NEW n \in 1 .. Len(toMiner), GoesBy(x, n)
  PROVE  GoesBy(x, n - 1)'
<1>1. /\ Len(toMiner) \in Nat \ {0} /\ Head(toMiner) = toMiner[1]
      /\ \A i \in 1 .. Len(toMiner) - 1 : toMiner'[i] = toMiner[i + 1]
  BY Shrunk DEF Typed
<1>2. CASE x = xnonce1 /\ \A i \in 1 .. n : ~Setter(toMiner[i])
  <2>1. xnonce1' = x
    BY <1>1, <1>2
  <2>2. \A i \in 1 .. n - 1 : ~Setter(toMiner[i])'
    BY <1>1, <1>2 DEF Setter
  <2>. QED  BY <2>1, <2>2 DEF GoesBy
<1>3. ASSUME NEW k \in 1 .. n, Setter(toMiner[k]), toMiner[k].x = x,
             \A i \in k + 1 .. n : ~Setter(toMiner[i])
      PROVE  GoesBy(x, n - 1)'
  <2>0. \A i \in k .. n - 1 : ~Setter(toMiner[i])'
    BY <1>1, <1>3 DEF Setter
  <2>1. CASE k = 1
    BY <1>1, <1>3, <2>0, <2>1 DEF GoesBy
  <2>2. CASE k > 1
    <3>1. k - 1 \in 1 .. n - 1 /\ toMiner'[k - 1] = toMiner[k]
      BY <1>1, <2>2
    <3>2. Setter(toMiner[k - 1])' /\ toMiner'[k - 1].x = x
      BY <1>3, <3>1 DEF Setter
    <3>3. \A i \in (k - 1) + 1 .. n - 1 : ~Setter(toMiner[i])'
      BY <2>0
    <3>. QED  BY <3>1, <3>2, <3>3 DEF GoesBy
  <2>. QED  BY <2>1, <2>2
<1>. QED  BY <1>2, <1>3 DEF GoesBy

LEMMA AgreedKept ==
  ASSUME Typed, Connected, Steps, QuietBefore, Agreed, Next \/ Stabilize
  PROVE  Agreed'
<1>. SUFFICES ASSUME ~stray', pxn1' # 0  PROVE Agreed'
  BY DEF Agreed
<1>1. CASE UNCHANGED <<toMiner, xnonce1, pxn1>> /\ (stray => stray')
  BY <1>1 DEF Agreed, GoesBy, Setter
<1>2. CASE /\ toMiner # << >> /\ toMiner' = Tail(toMiner) /\ pxn1' = pxn1 /\ (stray => stray')
           /\ ~stray' => xnonce1' = IF Setter(Head(toMiner)) THEN Head(toMiner).x ELSE xnonce1
  <2>1. /\ Len(toMiner) \in Nat \ {0} /\ Len(toMiner') = Len(toMiner) - 1
        /\ DOMAIN toMiner = 1 .. Len(toMiner) /\ DOMAIN toMiner' = 1 .. Len(toMiner) - 1
        /\ \A i \in 1 .. Len(toMiner) - 1 : toMiner'[i] = toMiner[i + 1]
    BY <1>2, Shrunk DEF Typed
  <2>2. /\ GoesBy(pxn1, Len(toMiner))
        /\ \A i \in DOMAIN toMiner :
             toMiner[i].m = "mining.notify" => GoesBy(toMiner[i].x, i)
    BY <1>2 DEF Agreed
  <2>3. GoesBy(pxn1, Len(toMiner))'
    <3>1. PICK x, n : x = pxn1 /\ n = Len(toMiner)
      OBVIOUS
    <3>2. GoesBy(x, n - 1)'
      BY <1>2, <2>1, <2>2, <3>1, GoesByShrunk
    <3>3. x = pxn1' /\ n - 1 = Len(toMiner')
      BY <1>2, <2>1, <3>1
    <3>. QED  BY <3>2, <3>3 DEF GoesBy
  <2>4. ASSUME NEW i \in DOMAIN toMiner', toMiner'[i].m = "mining.notify"
        PROVE  GoesBy(toMiner[i].x, i)'
    <3>1. i + 1 \in 1 .. Len(toMiner) /\ toMiner[i + 1] = toMiner'[i] /\ (i + 1) - 1 = i
      BY <2>1
    <3>2. PICK x : x = toMiner[i + 1].x
      OBVIOUS
    <3>3. GoesBy(x, i + 1)
      BY <2>1, <2>2, <2>4, <3>1, <3>2
    <3>4. GoesBy(x, i)'
      BY <1>2, <3>1, <3>3, GoesByShrunk
    <3>. QED  BY <3>1, <3>2, <3>4 DEF GoesBy
  <2>. QED  BY <2>1, <2>3, <2>4 DEF Agreed
<1>3. ASSUME NEW l \in MinerLines, xnonce1' = xnonce1, stray => stray',
             toMiner' = Append(toMiner, l),
             IF Setter(l) THEN pxn1' = l.x ELSE pxn1' = pxn1,
             l.m = "mining.notify" => l.x = pxn1'
      PROVE  Agreed'
  <2>1. /\ Len(toMiner) \in Nat /\ Len(toMiner') = Len(toMiner) + 1
        /\ DOMAIN toMiner = 1 .. Len(toMiner) /\ DOMAIN toMiner' = 1 .. Len(toMiner) + 1
        /\ toMiner'[Len(toMiner) + 1] = l
        /\ \A i \in 1 .. Len(toMiner) : toMiner'[i] = toMiner[i]
    BY <1>3, Grown DEF Typed
  <2>2. GoesBy(pxn1, Len(toMiner))'
    <3>1. CASE Setter(l)
      <4>1. Setter(toMiner[Len(toMiner)])' /\ toMiner'[Len(toMiner')].x = pxn1'
        BY <1>3, <2>1, <3>1 DEF Setter
      <4>2. Len(toMiner') \in 1 .. Len(toMiner')
        BY <2>1
      <4>. QED  BY <2>1, <4>1, <4>2 DEF GoesBy
    <3>2. CASE ~Setter(l)
      <4>1. pxn1' = pxn1 /\ GoesBy(pxn1, Len(toMiner))
        BY <1>3, <3>2 DEF Agreed
      <4>. QED  BY <1>3, <2>1, <3>2, <4>1 DEF GoesBy, Setter
    <3>. QED  BY <3>1, <3>2
  <2>3. ASSUME NEW i \in DOMAIN toMiner', toMiner'[i].m = "mining.notify"
        PROVE  GoesBy(toMiner[i].x, i)'
    <3>1. CASE i = Len(toMiner) + 1
      <4>1. toMiner'[i].x = pxn1' /\ i = Len(toMiner')
        BY <1>3, <2>1, <2>3, <3>1
      <4>. QED  BY <2>2, <4>1
    <3>2. CASE i \in 1 .. Len(toMiner)
      <4>1. PICK x : x = toMiner[i].x
        OBVIOUS
      <4>2. toMiner[i].m = "mining.notify" /\ toMiner'[i] = toMiner[i]
        BY <2>1, <2>3, <3>2
      <4>3. GoesBy(x, i)
        BY <2>1, <3>2, <4>1, <4>2, <1>3 DEF Agreed, QuietBefore
      <4>4. GoesBy(x, i)'
        BY <1>3, <2>1, <3>2, <4>3, GoesByGrown
      <4>. QED  BY <4>1, <4>2, <4>4 DEF GoesBy
    <3>. QED  BY <2>1, <3>1, <3>2
  <2>. QED  BY <2>2, <2>3 DEF Agreed
<1>. QED  BY <1>1, <1>2, <1>3, Moves


-----------------------------------------------------------------------------
(* The handshake                                                           *)

(* What is not on its way does not come there by other lines.              *)
LEMMA NoRequestKept ==
  ASSUME Typed, NEW m, NoRequest(m),
         \/ UNCHANGED toPool
         \/ toPool # << >> /\ toPool' = Tail(toPool)
         \/ toPool' = << >>
         \/ \E l \in PoolLines : toPool' = Append(toPool, l) /\ l.m # m
  PROVE  NoRequest(m)'
<1>1. CASE UNCHANGED toPool
  BY <1>1 DEF NoRequest
<1>2. CASE toPool # << >> /\ toPool' = Tail(toPool)
  BY <1>2, Shrunk DEF NoRequest, Typed
<1>3. CASE toPool' = << >>
  BY <1>3 DEF NoRequest
<1>4. ASSUME NEW l \in PoolLines, toPool' = Append(toPool, l), l.m # m
      PROVE  NoRequest(m)'
  <2>1. \A i \in DOMAIN toPool' : toPool'[i] = l \/ (i \in DOMAIN toPool /\ toPool'[i] = toPool[i])
    BY <1>4, Grown DEF Typed
  <2>. QED  BY <1>4, <2>1 DEF NoRequest
<1>. QED  BY <1>1, <1>2, <1>3, <1>4

LEMMA NoAnswerKept ==
  ASSUME Typed, NEW ids, NoAnswer(ids),
         \/ UNCHANGED toMiner
         \/ toMiner # << >> /\ toMiner' = Tail(toMiner)
         \/ \E l \in MinerLines : toMiner' = Append(toMiner, l) /\ (l.m = "answer" => l.id \notin ids)
  PROVE  NoAnswer(ids)'
<1>1. CASE UNCHANGED toMiner
  BY <1>1 DEF NoAnswer
<1>2. CASE toMiner # << >> /\ toMiner' = Tail(toMiner)
  BY <1>2, AtHand DEF NoAnswer
<1>3. ASSUME NEW l \in MinerLines, toMiner' = Append(toMiner, l), l.m = "answer" => l.id \notin ids
      PROVE  NoAnswer(ids)'
  <2>1. \A i \in DOMAIN toMiner' : toMiner'[i] = l \/ (i \in DOMAIN toMiner /\ toMiner'[i] = toMiner[i])
    BY <1>3, Grown DEF Typed
  <2>. QED  BY <1>3, <2>1 DEF NoAnswer
<1>. QED  BY <1>1, <1>2, <1>3

(* Steps that leave the lines alone: the thread goes where what is on its  *)
(* way may be on its way.                                                  *)
LEMMA StepsStill ==
  ASSUME Steps, UNCHANGED <<toPool, toMiner, pxn1, pauth, curl>>, stray => stray',
         \/ spc' = spc
         \/ spc' = "failed"
         \/ spc \in {"xnsend", "xnwait"} \cup Session /\ spc' \in Session
  PROVE  Steps'
<1>. SUFFICES ASSUME curl', ~stray'  PROVE Steps'
  BY Zenon DEF Steps
<1>1. curl /\ ~stray
  OBVIOUS
<1>2. CASE spc' = spc
  BY <1>1, <1>2 DEF Steps, NoRequest, NoAnswer, IsAnswer
<1>3. CASE spc' = "failed"
  BY <1>3 DEF Steps, Session, Handshake
<1>4. CASE spc \in {"xnsend", "xnwait"} \cup Session /\ spc' \in Session
  <2>1. /\ pauth /\ NoRequest("mining.authorize") /\ NoAnswer({2})
        /\ pxn1 # 0 /\ NoRequest("mining.subscribe") /\ NoAnswer({1})
    BY <1>1, <1>4, Zenon DEF Steps
  <2>2. /\ pauth' /\ NoRequest("mining.authorize")' /\ NoAnswer({2})'
        /\ pxn1' # 0 /\ NoRequest("mining.subscribe")' /\ NoAnswer({1})'
    BY <2>1 DEF NoRequest, NoAnswer
  <2>. QED  BY <1>4, <2>2 DEF Steps, Session, Handshake
<1>. QED  BY <1>2, <1>3, <1>4


LEMMA StepsSent ==
  ASSUME Typed, Connected, Steps, HandshakeSend
  PROVE  Steps'
<1>1. UNCHANGED <<curl, toMiner, open, pxn1, pauth, stray>>
  BY DEF HandshakeSend, history
<1>2. CASE UNCHANGED toPool /\ spc' \in {"failed", "check"}
  <2>1. spc' = "check" => spc = "xnsend"
    BY <1>2 DEF HandshakeSend
  <2>. QED  BY <1>1, <1>2, <2>1, StepsStill DEF Session
<1>3. ASSUME NEW m \in {"mining.subscribe", "mining.authorize", "extranonce.subscribe"},
             Sent(Request(m)), <<spc, spc', m>> \in {<<"subscribe", "subwait", "mining.subscribe">>,
               <<"authorize", "authwait", "mining.authorize">>, <<"xnsend", "xnwait", "extranonce.subscribe">>}
      PROVE  Steps'
  <2>. SUFFICES ASSUME curl', ~stray'  PROVE Steps'
    BY Zenon DEF Steps
  <2>1. curl /\ ~stray
    BY <1>1
  <2>2. Request(m) \in PoolLines /\ Request(m).m = m
    BY PoolLine
  <2>3. toPool' = toPool \/ toPool' = Append(toPool, Request(m))
    BY <1>3, <2>2, Written
  <2>4. \A o : o # m /\ NoRequest(o) => NoRequest(o)'
    BY <2>2, <2>3, NoRequestKept
  <2>5. \A ids : NoAnswer(ids) => NoAnswer(ids)'
    BY <1>1 DEF NoAnswer
  <2>6. NoRequest("mining.submit")' /\ NoAnswer({4})' /\ \A i \in DOMAIN toMiner' : toMiner'[i].m # "unknown"
    <3>1. NoRequest("mining.submit") /\ NoAnswer({4}) /\ \A i \in DOMAIN toMiner : toMiner[i].m # "unknown"
      BY <1>3, <2>1, Zenon DEF Steps, Handshake
    <3>. QED  BY <1>1, <2>4, <2>5, <3>1
  <2>7. CASE spc = "subscribe"
    <3>1. toPool = << >> /\ toMiner = << >> /\ pxn1 = 0 /\ spc' = "subwait" /\ m = "mining.subscribe"
      BY <1>3, <2>1, <2>7 DEF Steps
    <3>2. Len(toPool) = 0
      BY <3>1
    <3>3. toPool' = << >> \/ (Len(toPool') = 1 /\ toPool'[1].m = "mining.subscribe")
      <4>1. CASE toPool' = Append(toPool, Request(m))
        <5>1. Len(toPool') = Len(toPool) + 1 /\ toPool'[Len(toPool) + 1] = Request(m)
          BY <2>2, <4>1, Grown DEF Typed
        <5>. QED  BY <2>2, <3>1, <3>2, <5>1
      <4>. QED  BY <2>3, <3>1, <4>1
    <3>4. toMiner' = << >> /\ pxn1' = 0 /\ Len(toPool') + Len(toMiner') <= 1
      BY <1>1, <3>1, <3>3
    <3>5. toPool' # << >> => toPool'[1].m = "mining.subscribe"
      BY <3>3
    <3>. QED  BY <2>6, <3>1, <3>4, <3>5 DEF Steps, Session, Handshake
  <2>8. CASE spc = "authorize"
    <3>1. /\ toPool = << >> /\ NoAnswer({2, 3, 4}) /\ pxn1 # 0
          /\ NoRequest("mining.subscribe") /\ NoAnswer({1})
          /\ spc' = "authwait" /\ m = "mining.authorize"
      BY <1>3, <2>1, <2>8 DEF Steps
    <3>2. pxn1' # 0 /\ NoRequest("mining.subscribe")' /\ NoAnswer({1})' /\ NoAnswer({3, 4})'
          /\ NoAnswer({2})' /\ NoRequest("extranonce.subscribe")'
      <4>1. NoAnswer({3, 4}) /\ NoAnswer({2}) /\ NoRequest("extranonce.subscribe")
        BY <3>1 DEF NoAnswer, NoRequest
      <4>. QED  BY <1>1, <2>4, <2>5, <3>1, <4>1
    <3>3. \A i, k \in DOMAIN toPool' :
              toPool'[i].m = "mining.authorize" /\ toPool'[k].m = "mining.authorize" => i = k
      <4>1. CASE toPool' = toPool
        BY <3>1, <4>1 DEF NoRequest
      <4>2. CASE toPool' = Append(toPool, Request(m))
        <5>1. \A i \in DOMAIN toPool' : i = Len(toPool) + 1 \/ (i \in DOMAIN toPool /\ toPool'[i] = toPool[i])
          BY <2>2, <4>2, Grown DEF Typed
        <5>. QED  BY <3>1, <5>1 DEF NoRequest
      <4>. QED  BY <2>3, <4>1, <4>2
    <3>4. \A i \in DOMAIN toMiner' : ~IsAnswer(toMiner'[i], 2)
      BY <3>2 DEF NoAnswer, IsAnswer
    <3>. QED  BY <2>6, <3>1, <3>2, <3>3, <3>4 DEF Steps, Session, Handshake, IsAnswer
  <2>9. CASE spc = "xnsend"
    <3>1. /\ pauth /\ NoRequest("mining.authorize") /\ NoAnswer({2}) /\ pxn1 # 0
          /\ NoRequest("mining.subscribe") /\ NoAnswer({1})
          /\ spc' = "xnwait" /\ m = "extranonce.subscribe"
      BY <1>3, <2>1, <2>9 DEF Steps
    <3>2. /\ pauth' /\ NoRequest("mining.authorize")' /\ NoAnswer({2})' /\ pxn1' # 0
          /\ NoRequest("mining.subscribe")' /\ NoAnswer({1})'
      BY <1>1, <2>4, <2>5, <3>1
    <3>. QED  BY <2>6, <3>1, <3>2 DEF Steps, Session, Handshake
  <2>. QED  BY <1>3, <2>7, <2>8, <2>9
<1>. QED  BY <1>2, <1>3 DEF HandshakeSend, NotSent

LEMMA StepsSubscribed ==
  ASSUME Typed, Connected, Steps, QuietBefore, SubscribeAnswer
  PROVE  Steps'
<1>. SUFFICES ASSUME curl', ~stray'  PROVE Steps'
  BY Zenon DEF Steps
<1>1. /\ UNCHANGED <<curl, toPool, open, pxn1, pauth, stray>> /\ spc = "subwait"
      /\ toMiner # << >> /\ toMiner' = Tail(toMiner)
  BY DEF SubscribeAnswer, history
<1>2. curl /\ ~stray
  BY <1>1
<1>3. /\ Head(toMiner) = toMiner[1] /\ 1 \in DOMAIN toMiner
      /\ Len(toMiner) \in Nat \ {0} /\ Len(toMiner') = Len(toMiner) - 1
      /\ DOMAIN toMiner = 1 .. Len(toMiner) /\ DOMAIN toMiner' = 1 .. Len(toMiner) - 1
      /\ \A i \in 1 .. Len(toMiner) - 1 : toMiner'[i] = toMiner[i + 1]
      /\ toMiner' \in Seq(MinerLines)
  BY <1>1, Shrunk DEF Typed
<1>4. Len(toPool) \in Nat /\ (toPool # << >> => Len(toPool) > 0)
  BY DEF Typed
<1>5. /\ Len(toPool) + Len(toMiner) > 1 => toPool = << >> /\ pxn1 # 0
      /\ IsAnswer(toMiner[1], 1) /\ (toMiner[1].ok <=> pxn1 # 0)
      /\ \A i \in DOMAIN toMiner : i > 1 => toMiner[i].m # "answer"
      /\ NoRequest("mining.submit") /\ NoAnswer({4})
      /\ \A i \in DOMAIN toMiner : toMiner[i].m # "unknown"
  BY <1>1, <1>2 DEF Steps, Handshake
<1>6. toPool = << >>
  BY <1>3, <1>4, <1>5
<1>7. \A i \in DOMAIN toMiner' : toMiner'[i].m \notin {"answer", "unknown"}
  BY <1>3, <1>5
<1>8. \A m, ids : NoRequest(m)' /\ NoAnswer(ids)'
  BY <1>1, <1>6, <1>7 DEF NoRequest, NoAnswer
<1>9. CASE toMiner[1].ok
  <2>1. spc' = "authorize" /\ pxn1' # 0
    BY <1>1, <1>3, <1>5, <1>9 DEF SubscribeAnswer, IsAnswer
  <2>2. toPool' = << >>
    BY <1>1, <1>6
  <2>. QED  BY <1>7, <1>8, <2>1, <2>2 DEF Steps, Session, Handshake
<1>10. CASE ~toMiner[1].ok
  <2>1. spc' \in {"failed", "subscribe"}
    BY <1>1, <1>3, <1>5, <1>10 DEF SubscribeAnswer, IsAnswer
  <2>2. pxn1 = 0 /\ Len(toMiner) = 1
    BY <1>3, <1>4, <1>5, <1>10
  <2>3. toMiner' = << >> /\ toPool' = << >> /\ pxn1' = 0
    BY <1>1, <1>3, <1>6, <2>2
  <2>. QED  BY <1>7, <1>8, <2>1, <2>3 DEF Steps, Session, Handshake
<1>. QED  BY <1>9, <1>10

LEMMA StepsShare ==
  ASSUME Typed, Connected, Steps, WorkioSent
  PROVE  Steps'
<1>. SUFFICES ASSUME curl', ~stray'  PROVE Steps'
  BY Zenon DEF Steps
<1>1. UNCHANGED <<curl, toMiner, open, pxn1, pauth, spc>> /\ Sent(ShareLine(cmd))
      /\ stray' = (stray \/ spc \in Handshake)
  BY DEF WorkioSent, stratum
<1>2. curl /\ ~stray /\ spc \notin Handshake
  BY <1>1
<1>3. CASE spc \in Session
  <2>1. /\ pauth /\ NoRequest("mining.authorize") /\ NoAnswer({2})
        /\ pxn1 # 0 /\ NoRequest("mining.subscribe") /\ NoAnswer({1})
    BY <1>2, <1>3 DEF Steps
  <2>2. ShareLine(cmd) \in PoolLines /\ ShareLine(cmd).m = "mining.submit"
    BY PoolLine DEF Typed, TypeOK
  <2>3. toPool' = toPool \/ toPool' = Append(toPool, ShareLine(cmd))
    BY <1>1, <2>2, Written
  <2>4. NoRequest("mining.authorize")' /\ NoRequest("mining.subscribe")'
    BY <2>1, <2>2, <2>3, NoRequestKept
  <2>5. pauth' /\ pxn1' # 0 /\ NoAnswer({2})' /\ NoAnswer({1})'
    BY <1>1, <2>1 DEF NoAnswer
  <2>. QED  BY <1>1, <1>3, <2>4, <2>5 DEF Steps, Session, Handshake
<1>4. CASE spc \notin Session
  BY <1>1, <1>2, <1>4 DEF Steps, Session, Handshake
<1>. QED  BY <1>3, <1>4


LEMMA StepsRead ==
  ASSUME Typed, Connected, Steps, AuthorizeLine \/ ExtranonceLine \/ MainLine
  PROVE  Steps'
<1>. SUFFICES ASSUME curl', ~stray'  PROVE Steps'
  BY Zenon DEF Steps
<1>1. toMiner # << >> /\ (Passed \/ Redirected)
  BY LinePassed
<1>2. Passed
  BY <1>1, Disconnected DEF Redirected
<1>3. /\ toMiner' = Tail(toMiner) /\ UNCHANGED <<curl, pxn1, pauth>>
      /\ toPool' = toPool \/ Sent(Request("pong"))
  BY <1>2 DEF Passed
<1>4. curl /\ ~stray /\ spc \in {"authwait", "xnwait", "recv"}
  <2>1. curl
    BY <1>1 DEF Connected
  <2>2. stray => stray'
    BY DEF AuthorizeLine, ExtranonceLine, MainLine
  <2>3. spc \in {"authwait", "xnwait", "recv"}
    BY DEF AuthorizeLine, ExtranonceLine, MainLine
  <2>. QED  BY <2>1, <2>2, <2>3, Zenon
<1>5. Head(toMiner) = toMiner[1] /\ 1 \in DOMAIN toMiner /\ Head(toMiner) \in MinerLines
      /\ \A i \in DOMAIN toMiner' : i + 1 \in DOMAIN toMiner /\ toMiner'[i] = toMiner[i + 1]
      /\ DOMAIN toMiner' \subseteq Nat \ {0}
  BY <1>1, <1>3, AtHand, Shrunk DEF Typed
<1>6. Request("pong") \in PoolLines /\ Request("pong").m = "pong"
  BY PoolLine
<1>7. toPool' = toPool \/ toPool' = Append(toPool, Request("pong"))
  BY <1>3, <1>6, Written
<1>8. \A m : m # "pong" /\ NoRequest(m) => NoRequest(m)'
  BY <1>6, <1>7, NoRequestKept
<1>9. \A ids : NoAnswer(ids) => NoAnswer(ids)'
  BY <1>1, <1>3, NoAnswerKept
<1>10. pxn1' # 0 /\ NoRequest("mining.subscribe")' /\ NoAnswer({1})'
  <2>1. pxn1 # 0 /\ NoRequest("mining.subscribe") /\ NoAnswer({1})
    BY <1>4, Zenon DEF Steps, Session
  <2>. QED  BY <1>3, <1>8, <1>9, <2>1
<1>11. CASE AuthorizeLine
  <2>1. /\ NoAnswer({3, 4}) /\ NoRequest("mining.submit") /\ NoAnswer({4}) /\ NoAnswer({1})
        /\ NoRequest("extranonce.subscribe")
        /\ \A i \in DOMAIN toMiner : toMiner[i].m # "unknown"
        /\ \A i \in DOMAIN toMiner : IsAnswer(toMiner[i], 2) =>
              /\ toMiner[i].ok = pauth /\ NoRequest("mining.authorize")
              /\ \A k \in DOMAIN toMiner : IsAnswer(toMiner[k], 2) => k = i
        /\ \A i, k \in DOMAIN toPool :
              toPool[i].m = "mining.authorize" /\ toPool[k].m = "mining.authorize" => i = k
    BY <1>4, <1>11 DEF Steps, Handshake, AuthorizeLine
  <2>2. NoAnswer({3, 4})' /\ NoRequest("mining.submit")' /\ NoAnswer({4})'
        /\ NoRequest("extranonce.subscribe")'
        /\ \A i \in DOMAIN toMiner' : toMiner'[i].m # "unknown"
    BY <1>5, <1>8, <1>9, <2>1
  <2>3. PICK handled \in BOOLEAN :
          /\ HandleMethod(Head(toMiner), handled)
          /\ spc' = IF handled THEN "authwait"
                    ELSE IF Head(toMiner).id = 2 /\ ~Head(toMiner).ok THEN "failed" ELSE "xnsend"
          /\ stray' = (stray \/ (~handled /\ Head(toMiner).m = "mining.ping"))
    BY <1>11 DEF AuthorizeLine
  <2>4. CASE handled
    <3>1. spc' = "authwait"
      BY <2>3, <2>4
    <3>2. \A i \in DOMAIN toMiner' : IsAnswer(toMiner'[i], 2) =>
              /\ toMiner'[i].ok = pauth' /\ NoRequest("mining.authorize")'
              /\ \A k \in DOMAIN toMiner' : IsAnswer(toMiner'[k], 2) => k = i
      BY <1>3, <1>5, <1>8, <2>1
    <3>3. \A i, k \in DOMAIN toPool' :
              toPool'[i].m = "mining.authorize" /\ toPool'[k].m = "mining.authorize" => i = k
      <4>1. CASE toPool' = toPool
        BY <2>1, <4>1
      <4>2. CASE toPool' = Append(toPool, Request("pong"))
        <5>1. \A i \in DOMAIN toPool' : toPool'[i] = Request("pong") \/ (i \in DOMAIN toPool /\ toPool'[i] = toPool[i])
          BY <1>6, <4>2, Grown DEF Typed
        <5>. QED  BY <1>6, <2>1, <5>1
      <4>. QED  BY <1>7, <4>1, <4>2
    <3>. QED  BY <1>10, <2>2, <3>1, <3>2, <3>3 DEF Steps, Session, Handshake, IsAnswer
  <2>5. CASE ~handled
    <3>1. IsAnswer(Head(toMiner), 2)
      <4>1. Head(toMiner).m \in {"answer", "unknown", "mining.ping"}
        BY <1>1, <2>3, <2>5, Handled
      <4>2. Head(toMiner).m # "mining.ping"
        BY <2>3, <2>5
      <4>3. Head(toMiner).m = "answer"
        BY <1>5, <2>1, <4>1, <4>2
      <4>4. Head(toMiner).id \in 1 .. 4 /\ Head(toMiner).id \notin {1, 3, 4}
        BY <1>5, <2>1, <4>3, MinerLine DEF NoAnswer
      <4>. QED  BY <4>3, <4>4 DEF IsAnswer
    <3>2. Head(toMiner).ok = pauth /\ NoRequest("mining.authorize") /\ NoAnswer({2})'
      <4>1. /\ Head(toMiner).ok = pauth /\ NoRequest("mining.authorize")
            /\ \A k \in DOMAIN toMiner : IsAnswer(toMiner[k], 2) => k = 1
        BY <1>5, <2>1, <3>1, Zenon
      <4>2. NoAnswer({2})'
        BY <1>5, <4>1 DEF IsAnswer, NoAnswer
      <4>. QED  BY <4>1, <4>2
    <3>3. spc' = IF pauth THEN "xnsend" ELSE "failed"
      BY <2>3, <2>5, <3>1, <3>2 DEF IsAnswer
    <3>4. NoRequest("mining.authorize")'
      BY <1>8, <3>2
    <3>5. CASE pauth
      BY <1>3, <1>10, <2>2, <3>2, <3>3, <3>4, <3>5 DEF Steps, Session, Handshake
    <3>6. CASE ~pauth
      BY <3>3, <3>6 DEF Steps, Session, Handshake
    <3>. QED  BY <3>5, <3>6
  <2>. QED  BY <2>4, <2>5
<1>12. CASE ExtranonceLine \/ MainLine
  <2>1. pauth /\ NoRequest("mining.authorize") /\ NoAnswer({2}) /\ spc \in {"xnwait", "recv"}
    BY <1>4, <1>12 DEF Steps, Session, ExtranonceLine, MainLine
  <2>2. pauth' /\ NoRequest("mining.authorize")' /\ NoAnswer({2})'
    BY <1>3, <1>8, <1>9, <2>1
  <2>3. spc' \in Session
    BY <1>12 DEF ExtranonceLine, MainLine, Session
  <2>. QED  BY <1>10, <2>2, <2>3 DEF Steps, Session, Handshake
<1>. QED  BY <1>11, <1>12

LEMMA StepsNotified ==
  ASSUME Typed, Connected, Steps, PoolMethod
  PROVE  Steps'
<1>. SUFFICES ASSUME curl', ~stray'  PROVE Steps'
  BY Zenon DEF Steps
<1>1. PICK m \in Methods : \E x :
         /\ Method(m, x) \in MinerLines /\ toMiner' = Append(toMiner, Method(m, x))
         /\ m = "unknown" /\ spc \in Handshake => stray'
  BY Notified
<1>2. PICK x : Method(m, x) \in MinerLines /\ toMiner' = Append(toMiner, Method(m, x))
  BY <1>1
<1>3. /\ UNCHANGED <<curl, toPool, open, pauth, spc>> /\ (stray => stray')
      /\ pxn1 # 0 /\ pxn1' # 0
  BY Notified, SessionAssumption DEF stratum
<1>4. curl /\ ~stray
  BY <1>3
<1>. DEFINE l == Method(m, x)
<1>5. l.m = m /\ l.m # "answer" /\ l \in MinerLines /\ toMiner' = Append(toMiner, l)
  BY <1>2, SessionAssumption DEF Method
<1>. HIDE DEF l
<1>6. /\ Len(toMiner) \in Nat /\ Len(toMiner') = Len(toMiner) + 1
      /\ DOMAIN toMiner = 1 .. Len(toMiner) /\ DOMAIN toMiner' = 1 .. Len(toMiner) + 1
      /\ toMiner'[Len(toMiner) + 1] = l
      /\ \A i \in 1 .. Len(toMiner) : toMiner'[i] = toMiner[i]
  BY <1>5, Grown DEF Typed
<1>7. \A i \in DOMAIN toMiner' : toMiner'[i] = l \/ (i \in DOMAIN toMiner /\ toMiner'[i] = toMiner[i])
  BY <1>6
<1>8. \A o : NoRequest(o) => NoRequest(o)'
  BY <1>3 DEF NoRequest
<1>9. \A ids : NoAnswer(ids) => NoAnswer(ids)'
  BY <1>5, <1>7 DEF NoAnswer
<1>10. spc # "subscribe"
  BY <1>3, <1>4 DEF Steps
<1>11. spc' = "subwait" =>
         /\ toMiner' # << >> /\ toPool' = << >>
         /\ IsAnswer(toMiner'[1], 1) /\ toMiner'[1].ok
         /\ \A i \in DOMAIN toMiner' : i > 1 => toMiner'[i].m # "answer"
  <2>. SUFFICES ASSUME spc = "subwait"
                PROVE  /\ toMiner' # << >> /\ toPool' = << >>
                       /\ IsAnswer(toMiner'[1], 1) /\ toMiner'[1].ok
                       /\ \A i \in DOMAIN toMiner' : i > 1 => toMiner'[i].m # "answer"
    BY <1>3
  <2>1. /\ toMiner # << >> /\ toPool = << >> /\ IsAnswer(toMiner[1], 1) /\ toMiner[1].ok
        /\ \A i \in DOMAIN toMiner : i > 1 => toMiner[i].m # "answer"
    BY <1>3, <1>4 DEF Steps
  <2>2. 1 \in 1 .. Len(toMiner)
    BY <1>6, <2>1 DEF Typed
  <2>3. toMiner'[1] = toMiner[1] /\ toMiner' # << >>
    BY <1>6, <2>2
  <2>. QED  BY <1>3, <1>5, <1>7, <2>1, <2>3
<1>12. spc' = "authorize" => toPool' = << >> /\ NoAnswer({2, 3, 4})'
  BY <1>3, <1>4, <1>8, <1>9 DEF Steps
<1>13. spc' = "authwait" =>
         /\ NoRequest("extranonce.subscribe")' /\ NoAnswer({3, 4})'
         /\ \A i \in DOMAIN toMiner' : IsAnswer(toMiner'[i], 2) =>
              /\ toMiner'[i].ok = pauth' /\ NoRequest("mining.authorize")'
              /\ \A k \in DOMAIN toMiner' : IsAnswer(toMiner'[k], 2) => k = i
         /\ \A i, k \in DOMAIN toPool' :
              toPool'[i].m = "mining.authorize" /\ toPool'[k].m = "mining.authorize" => i = k
  <2>. SUFFICES ASSUME spc = "authwait"
       PROVE  /\ NoRequest("extranonce.subscribe")' /\ NoAnswer({3, 4})'
              /\ \A i \in DOMAIN toMiner' : IsAnswer(toMiner'[i], 2) =>
                   /\ toMiner'[i].ok = pauth' /\ NoRequest("mining.authorize")'
                   /\ \A k \in DOMAIN toMiner' : IsAnswer(toMiner'[k], 2) => k = i
              /\ \A i, k \in DOMAIN toPool' :
                   toPool'[i].m = "mining.authorize" /\ toPool'[k].m = "mining.authorize" => i = k
    BY <1>3
  <2>1. /\ NoRequest("extranonce.subscribe") /\ NoAnswer({3, 4})
        /\ \A i \in DOMAIN toMiner : IsAnswer(toMiner[i], 2) =>
              /\ toMiner[i].ok = pauth /\ NoRequest("mining.authorize")
              /\ \A k \in DOMAIN toMiner : IsAnswer(toMiner[k], 2) => k = i
        /\ \A i, k \in DOMAIN toPool :
              toPool[i].m = "mining.authorize" /\ toPool[k].m = "mining.authorize" => i = k
    BY <1>4 DEF Steps
  <2>2. \A i \in DOMAIN toMiner' : IsAnswer(toMiner'[i], 2) =>
          i \in DOMAIN toMiner /\ toMiner'[i] = toMiner[i] /\ IsAnswer(toMiner[i], 2)
    BY <1>5, <1>7 DEF IsAnswer
  <2>. QED  BY <1>3, <1>8, <1>9, <2>1, <2>2
<1>14. spc' \in {"xnsend", "xnwait"} \cup Session => pauth' /\ NoRequest("mining.authorize")' /\ NoAnswer({2})'
  BY <1>3, <1>4, <1>8, <1>9 DEF Steps
<1>15. spc' \in {"authorize", "authwait", "xnsend", "xnwait"} \cup Session =>
         NoRequest("mining.subscribe")' /\ NoAnswer({1})'
  BY <1>3, <1>4, <1>8, <1>9 DEF Steps
<1>16. spc' \in Handshake => /\ NoRequest("mining.submit")' /\ NoAnswer({4})'
                             /\ \A i \in DOMAIN toMiner' : toMiner'[i].m # "unknown"
  <2>. SUFFICES ASSUME spc \in Handshake
                PROVE  /\ NoRequest("mining.submit")' /\ NoAnswer({4})'
                       /\ \A i \in DOMAIN toMiner' : toMiner'[i].m # "unknown"
    BY <1>3
  <2>1. l.m # "unknown"
    BY <1>1, <1>5
  <2>2. /\ NoRequest("mining.submit") /\ NoAnswer({4})
        /\ \A i \in DOMAIN toMiner : toMiner[i].m # "unknown"
    BY <1>4, Zenon DEF Steps
  <2>. QED  BY <1>7, <1>8, <1>9, <2>1, <2>2
<1>. QED  BY <1>3, <1>10, <1>11, <1>12, <1>13, <1>14, <1>15, <1>16 DEF Steps


(* Requests and answers: one of each, with the same number.                *)
LEMMA AnswerAdded ==
  ASSUME Typed, PoolTake, toMiner' # toMiner
  PROVE  \E l \in MinerLines :
           /\ toMiner' = Append(toMiner, l) /\ l.m = "answer"
           /\ l.id = 1 <=> Head(toPool).m = "mining.subscribe"
           /\ l.id = 2 <=> Head(toPool).m = "mining.authorize"
           /\ l.id = 3 <=> Head(toPool).m = "extranonce.subscribe"
           /\ l.id = 4 <=> Head(toPool).m = "mining.submit"
           /\ IF l.id = 1 /\ l.ok THEN pxn1' # 0 ELSE pxn1' = pxn1
           /\ IF l.id = 2 THEN pauth' = l.ok ELSE pauth' = pauth
<1>. DEFINE line == Head(toPool)
            Fit(l) == /\ toMiner' = Append(toMiner, l) /\ l.m = "answer"
                      /\ l.id = 1 <=> line.m = "mining.subscribe"
                      /\ l.id = 2 <=> line.m = "mining.authorize"
                      /\ l.id = 3 <=> line.m = "extranonce.subscribe"
                      /\ l.id = 4 <=> line.m = "mining.submit"
                      /\ IF l.id = 1 /\ l.ok THEN pxn1' # 0 ELSE pxn1' = pxn1
                      /\ IF l.id = 2 THEN pauth' = l.ok ELSE pauth' = pauth
<1>1. \/ \E x \in Xn1 : /\ line.m = "mining.subscribe" /\ toMiner' = Append(toMiner, Answer(1, TRUE, x))
                        /\ pxn1' = x /\ pauth' = pauth
      \/ /\ line.m = "mining.subscribe" /\ toMiner' = Append(toMiner, Answer(1, FALSE, 0))
         /\ UNCHANGED <<pxn1, pauth>>
      \/ \E ok \in BOOLEAN : /\ line.m = "mining.authorize" /\ toMiner' = Append(toMiner, Answer(2, ok, 0))
                             /\ pauth' = ok /\ pxn1' = pxn1
      \/ /\ line.m = "extranonce.subscribe" /\ toMiner' = Append(toMiner, Answer(3, TRUE, 0))
         /\ UNCHANGED <<pxn1, pauth>>
      \/ \E x \in {0, 1} : /\ line.m = "mining.submit" /\ toMiner' = Append(toMiner, Answer(4, FALSE, x))
                           /\ UNCHANGED <<pxn1, pauth>>
  BY Answered
<1>. HIDE DEF line
<1>2. ASSUME NEW x \in Xn1, line.m = "mining.subscribe", toMiner' = Append(toMiner, Answer(1, TRUE, x)),
             pxn1' = x, pauth' = pauth
      PROVE  \E l \in MinerLines : Fit(l)
  <2>1. Answer(1, TRUE, x) \in MinerLines /\ x # 0
    BY SessionAssumption DEF MinerLines, Answers, Answer
  <2>2. Fit(Answer(1, TRUE, x))
    BY <1>2, <2>1 DEF Answer
  <2>. QED  BY <2>1, <2>2
<1>3. ASSUME line.m = "mining.subscribe", toMiner' = Append(toMiner, Answer(1, FALSE, 0)),
             UNCHANGED <<pxn1, pauth>>
      PROVE  \E l \in MinerLines : Fit(l)
  <2>1. Answer(1, FALSE, 0) \in MinerLines
    BY DEF MinerLines, Answers, Answer
  <2>2. Fit(Answer(1, FALSE, 0))
    BY <1>3 DEF Answer
  <2>. QED  BY <2>1, <2>2
<1>4. ASSUME NEW ok \in BOOLEAN, line.m = "mining.authorize", toMiner' = Append(toMiner, Answer(2, ok, 0)),
             pauth' = ok, pxn1' = pxn1
      PROVE  \E l \in MinerLines : Fit(l)
  <2>1. Answer(2, ok, 0) \in MinerLines
    BY DEF MinerLines, Answers, Answer
  <2>2. Fit(Answer(2, ok, 0))
    BY <1>4 DEF Answer
  <2>. QED  BY <2>1, <2>2
<1>5. ASSUME line.m = "extranonce.subscribe", toMiner' = Append(toMiner, Answer(3, TRUE, 0)),
             UNCHANGED <<pxn1, pauth>>
      PROVE  \E l \in MinerLines : Fit(l)
  <2>1. Answer(3, TRUE, 0) \in MinerLines
    BY DEF MinerLines, Answers, Answer
  <2>2. Fit(Answer(3, TRUE, 0))
    BY <1>5 DEF Answer
  <2>. QED  BY <2>1, <2>2
<1>6. ASSUME NEW x \in {0, 1}, line.m = "mining.submit", toMiner' = Append(toMiner, Answer(4, FALSE, x)),
             UNCHANGED <<pxn1, pauth>>
      PROVE  \E l \in MinerLines : Fit(l)
  <2>1. Answer(4, FALSE, x) \in MinerLines
    BY DEF MinerLines, Answers, Answer
  <2>2. Fit(Answer(4, FALSE, x))
    BY <1>6 DEF Answer
  <2>. QED  BY <2>1, <2>2
<1>7. \E l \in MinerLines : Fit(l)
  <2>. HIDE DEF Fit
  <2>. QED  BY <1>1, <1>2, <1>3, <1>4, <1>5, <1>6
<1>8. PICK l \in MinerLines : Fit(l)
  BY <1>7
<1>9. /\ toMiner' = Append(toMiner, l) /\ l.m = "answer"
      /\ l.id = 1 <=> Head(toPool).m = "mining.subscribe"
      /\ l.id = 2 <=> Head(toPool).m = "mining.authorize"
      /\ l.id = 3 <=> Head(toPool).m = "extranonce.subscribe"
      /\ l.id = 4 <=> Head(toPool).m = "mining.submit"
      /\ IF l.id = 1 /\ l.ok THEN pxn1' # 0 ELSE pxn1' = pxn1
      /\ IF l.id = 2 THEN pauth' = l.ok ELSE pauth' = pauth
  BY <1>8, Zenon DEF line
<1>. HIDE DEF Fit
<1>. QED  BY <1>9, Zenon

LEMMA StepsTaken ==
  ASSUME Typed, Connected, QuietBefore, Steps, PoolTake
  PROVE  Steps'
<1>. SUFFICES ASSUME curl', ~stray'  PROVE Steps'
  BY Zenon DEF Steps
<1>. DEFINE line == Head(toPool)
<1>1. /\ UNCHANGED <<curl, open, options, stratum, workio, stable, redirected, stray, moved, overlap>>
      /\ toPool # << >> /\ line \in PoolLines /\ line = toPool[1]
      /\ toPool' = Tail(toPool) /\ toMiner' \in Seq(MinerLines)
  BY Answered
<1>2. UNCHANGED <<curl, stray, spc>> /\ curl /\ ~stray
  BY <1>1 DEF stratum
<1>3. /\ Len(toPool) \in Nat \ {0} /\ Len(toPool') = Len(toPool) - 1
      /\ DOMAIN toPool = 1 .. Len(toPool) /\ DOMAIN toPool' = 1 .. Len(toPool) - 1
      /\ \A i \in 1 .. Len(toPool) - 1 : toPool'[i] = toPool[i + 1]
      /\ toPool' \in Seq(PoolLines)
  BY <1>1, Shrunk DEF Typed
<1>. HIDE DEF line
<1>4. \A m : NoRequest(m) => NoRequest(m)' /\ line.m # m
  BY <1>1, <1>3 DEF NoRequest
<1>5. CASE toMiner' = toMiner
  <2>1. line.m = "pong" /\ UNCHANGED <<pxn1, pauth>>
    <3>1. toMiner \in Seq(MinerLines)
      BY DEF Typed
    <3>2. \A l : toMiner # Append(toMiner, l)
      BY <3>1
    <3>. QED  BY <1>5, <3>2, Answered DEF line
  <2>2. \A ids : NoAnswer(ids) => NoAnswer(ids)'
    BY <1>5 DEF NoAnswer
  <2>3. spc \notin {"subscribe", "subwait"}
    BY <1>1, <1>2, <2>1 DEF Steps
  <2>4. CASE spc = "authwait"
    <3>1. /\ NoRequest("extranonce.subscribe") /\ NoAnswer({3, 4})
          /\ \A i \in DOMAIN toMiner : IsAnswer(toMiner[i], 2) =>
               /\ toMiner[i].ok = pauth /\ NoRequest("mining.authorize")
               /\ \A k \in DOMAIN toMiner : IsAnswer(toMiner[k], 2) => k = i
          /\ \A i, k \in DOMAIN toPool :
               toPool[i].m = "mining.authorize" /\ toPool[k].m = "mining.authorize" => i = k
          /\ pxn1 # 0 /\ NoRequest("mining.subscribe") /\ NoAnswer({1})
          /\ NoRequest("mining.submit") /\ NoAnswer({4})
          /\ \A i \in DOMAIN toMiner : toMiner[i].m # "unknown"
      BY <1>2, <2>4 DEF Steps, Handshake
    <3>2. ASSUME NEW i \in DOMAIN toPool', NEW k \in DOMAIN toPool',
                 toPool'[i].m = "mining.authorize", toPool'[k].m = "mining.authorize"
          PROVE  i = k
      <4>1. /\ i + 1 \in DOMAIN toPool /\ k + 1 \in DOMAIN toPool /\ (i + 1 = k + 1 => i = k)
            /\ toPool'[i] = toPool[i + 1] /\ toPool'[k] = toPool[k + 1]
        BY <1>3
      <4>. QED  BY <3>1, <3>2, <4>1
    <3>3. /\ NoRequest("extranonce.subscribe")' /\ NoAnswer({3, 4})' /\ NoRequest("mining.subscribe")'
          /\ NoAnswer({1})' /\ NoRequest("mining.submit")' /\ NoAnswer({4})' /\ pxn1' # 0
          /\ \A i \in DOMAIN toMiner' : toMiner'[i].m # "unknown"
      BY <1>4, <1>5, <2>1, <2>2, <3>1
    <3>4. \A i \in DOMAIN toMiner' : IsAnswer(toMiner'[i], 2) =>
              /\ toMiner'[i].ok = pauth' /\ NoRequest("mining.authorize")'
              /\ \A k \in DOMAIN toMiner' : IsAnswer(toMiner'[k], 2) => k = i
      BY <1>4, <1>5, <2>1, <3>1
    <3>. QED  BY <1>2, <2>4, <3>2, <3>3, <3>4 DEF Steps, Session, Handshake, IsAnswer
  <2>5. CASE spc # "authwait"
    <3>1. spc # "authorize"
      BY <1>1, <1>2 DEF Steps
    <3>. QED  BY <1>2, <1>4, <1>5, <2>1, <2>2, <2>3, <2>5, <3>1 DEF Steps
  <2>. QED  BY <2>4, <2>5
<1>6. CASE toMiner' # toMiner
  <2>1. PICK l \in MinerLines :
           /\ toMiner' = Append(toMiner, l) /\ l.m = "answer"
           /\ l.id = 1 <=> line.m = "mining.subscribe"
           /\ l.id = 2 <=> line.m = "mining.authorize"
           /\ l.id = 3 <=> line.m = "extranonce.subscribe"
           /\ l.id = 4 <=> line.m = "mining.submit"
           /\ IF l.id = 1 /\ l.ok THEN pxn1' # 0 ELSE pxn1' = pxn1
           /\ IF l.id = 2 THEN pauth' = l.ok ELSE pauth' = pauth
    BY <1>6, AnswerAdded DEF line
  <2>2. /\ Len(toMiner) \in Nat /\ Len(toMiner') = Len(toMiner) + 1
        /\ DOMAIN toMiner = 1 .. Len(toMiner) /\ DOMAIN toMiner' = 1 .. Len(toMiner) + 1
        /\ toMiner'[Len(toMiner) + 1] = l
        /\ \A i \in 1 .. Len(toMiner) : toMiner'[i] = toMiner[i]
    BY <2>1, Grown DEF Typed
  <2>3. \A ids : NoAnswer(ids) /\ l.id \notin ids => NoAnswer(ids)'
    BY <2>1, <2>2 DEF NoAnswer
  <2>4. \A i \in DOMAIN toMiner' : toMiner'[i] = l \/ (i \in DOMAIN toMiner /\ toMiner'[i] = toMiner[i])
    BY <2>2
  <2>5. l.id \in 1 .. 4
    BY <2>1, MinerLine
  <2>6. spc # "subscribe"
    BY <1>1, <1>2 DEF Steps
  <2>7. CASE spc = "subwait"
    <3>1. /\ line.m = "mining.subscribe" /\ pxn1 = 0 /\ toMiner = << >> /\ Len(toPool) = 1
      <4>1. line.m = "mining.subscribe" /\ pxn1 = 0
        BY <1>1, <1>2, <2>7 DEF Steps
      <4>2. ~(Len(toPool) + Len(toMiner) > 1)
        BY <1>1, <1>2, <2>7 DEF Steps
      <4>3. Len(toMiner) = 0
        BY <1>3, <2>2, <4>2
      <4>. QED  BY <1>3, <2>2, <4>1, <4>2, <4>3 DEF Typed
    <3>2. toPool' = << >> /\ Len(toMiner') = 1 /\ toMiner'[1] = l /\ DOMAIN toMiner' = {1} /\ Len(toMiner) = 0
      BY <1>3, <2>2, <3>1
    <3>3. \A m : NoRequest(m)'
      BY <3>2 DEF NoRequest
    <3>4. IsAnswer(l, 1) /\ (l.ok <=> pxn1' # 0) /\ l.m # "unknown"
      BY <2>1, <3>1, MinerLine DEF IsAnswer
    <3>5. NoAnswer({4})'
      BY <2>1, <3>1, <3>2 DEF NoAnswer
    <3>6. toMiner' # << >> /\ Len(toPool') + Len(toMiner') = 1
      BY <3>2
    <3>. QED  BY <1>2, <2>7, <3>2, <3>3, <3>4, <3>5, <3>6 DEF Steps, Session, Handshake
  <2>8. CASE spc = "authwait"
    <3>1. /\ NoRequest("extranonce.subscribe") /\ NoAnswer({3, 4})
          /\ \A i \in DOMAIN toMiner : IsAnswer(toMiner[i], 2) => NoRequest("mining.authorize")
          /\ \A i, k \in DOMAIN toPool :
               toPool[i].m = "mining.authorize" /\ toPool[k].m = "mining.authorize" => i = k
          /\ pxn1 # 0 /\ NoRequest("mining.subscribe") /\ NoAnswer({1})
          /\ NoRequest("mining.submit") /\ NoAnswer({4})
          /\ \A i \in DOMAIN toMiner : toMiner[i].m # "unknown"
      BY <1>2, <2>8 DEF Steps, Handshake
    <3>2. line.m = "mining.authorize" /\ l.id = 2 /\ pxn1' = pxn1 /\ pauth' = l.ok
      BY <1>1, <1>4, <2>1, <2>5, <3>1
    <3>3. \A i \in DOMAIN toMiner : ~IsAnswer(toMiner[i], 2)
      BY <1>4, <3>1, <3>2
    <3>4. \A i \in DOMAIN toMiner' : IsAnswer(toMiner'[i], 2) => i = Len(toMiner) + 1 /\ toMiner'[i] = l
      BY <2>2, <3>3
    <3>5. NoRequest("mining.authorize")'
      <4>1. \A i \in DOMAIN toPool : toPool[i].m = "mining.authorize" => i = 1
        BY <1>1, <1>3, <3>1, <3>2
      <4>. QED  BY <1>3, <4>1 DEF NoRequest
    <3>6. /\ NoRequest("extranonce.subscribe")' /\ NoAnswer({3, 4})' /\ NoRequest("mining.subscribe")'
          /\ NoAnswer({1})' /\ NoRequest("mining.submit")' /\ NoAnswer({4})' /\ pxn1' # 0
          /\ \A i \in DOMAIN toMiner' : toMiner'[i].m # "unknown"
      BY <1>4, <2>1, <2>3, <2>4, <3>1, <3>2
    <3>7. \A i \in DOMAIN toMiner' : IsAnswer(toMiner'[i], 2) =>
              /\ toMiner'[i].ok = pauth' /\ NoRequest("mining.authorize")'
              /\ \A k \in DOMAIN toMiner' : IsAnswer(toMiner'[k], 2) => k = i
      BY <3>2, <3>4, <3>5
    <3>8. \A i, k \in DOMAIN toPool' :
               toPool'[i].m = "mining.authorize" /\ toPool'[k].m = "mining.authorize" => i = k
      BY <3>5 DEF NoRequest
    <3>. QED  BY <1>2, <2>8, <3>6, <3>7, <3>8 DEF Steps, Session, Handshake, IsAnswer
  <2>9. CASE spc \in {"xnsend", "xnwait"} \cup Session
    <3>1. /\ pauth /\ NoRequest("mining.authorize") /\ NoAnswer({2})
          /\ pxn1 # 0 /\ NoRequest("mining.subscribe") /\ NoAnswer({1})
      BY <1>2, <2>9, Zenon DEF Steps
    <3>2. line.m # "mining.subscribe" /\ line.m # "mining.authorize"
      BY <1>4, <3>1
    <3>3. pauth' = pauth /\ pxn1' = pxn1 /\ l.id \notin {1, 2}
      BY <2>1, <3>2
    <3>4. /\ pauth' /\ NoRequest("mining.authorize")' /\ NoAnswer({2})'
          /\ pxn1' # 0 /\ NoRequest("mining.subscribe")' /\ NoAnswer({1})'
      BY <1>4, <2>3, <3>1, <3>3
    <3>5. spc \in {"xnsend", "xnwait"} => /\ NoRequest("mining.submit")' /\ NoAnswer({4})'
                                         /\ \A i \in DOMAIN toMiner' : toMiner'[i].m # "unknown"
      <4>. SUFFICES ASSUME spc \in {"xnsend", "xnwait"}
                    PROVE  /\ NoRequest("mining.submit")' /\ NoAnswer({4})'
                           /\ \A i \in DOMAIN toMiner' : toMiner'[i].m # "unknown"
        OBVIOUS
      <4>1. /\ NoRequest("mining.submit") /\ NoAnswer({4})
            /\ \A i \in DOMAIN toMiner : toMiner[i].m # "unknown"
        BY <1>2 DEF Steps, Handshake
      <4>2. l.id # 4
        BY <1>4, <2>1, <4>1
      <4>. QED  BY <1>4, <2>1, <2>3, <2>4, <4>1, <4>2
    <3>. QED  BY <1>2, <2>9, <3>4, <3>5 DEF Steps, Session, Handshake
  <2>10. CASE spc \notin Handshake \cup Session
    BY <1>2, <2>10 DEF Steps, Session, Handshake
  <2>11. spc # "authorize"
    BY <1>1, <1>2 DEF Steps
  <2>. QED  BY <2>6, <2>7, <2>8, <2>9, <2>10, <2>11 DEF Handshake
<1>. QED  BY <1>5, <1>6

LEMMA StepsClosed ==
  ASSUME Steps, PoolClose
  PROVE  Steps'
<1>. SUFFICES ASSUME curl', ~stray'  PROVE Steps'
  BY Zenon DEF Steps
<1>1. UNCHANGED <<curl, toMiner, pxn1, pauth, spc, stray>> /\ toPool' = << >> /\ curl /\ ~stray
  BY DEF PoolClose, stratum, history
<1>2. (\A m : NoRequest(m)') /\ \A ids : NoAnswer(ids) => NoAnswer(ids)'
  BY <1>1 DEF NoRequest, NoAnswer
<1>. QED  BY <1>1, <1>2 DEF Steps


LEMMA StepsKept ==
  ASSUME Typed, Connected, QuietBefore, Steps, Next \/ Stabilize
  PROVE  Steps'
<1>1. CASE ThreadReset \/ Failed \/ MainTimeout
  BY <1>1, Disconnected DEF ThreadReset, Failed, MainTimeout, Steps
<1>2. CASE ThreadTop \/ HandshakeTimeout \/ Generate
  <2>1. /\ UNCHANGED <<toPool, toMiner, pxn1, pauth, curl, stray>>
        /\ \/ spc' = "failed"
           \/ spc \in {"xnsend", "xnwait"} \cup Session /\ spc' \in Session
           \/ ~curl'
    BY <1>2 DEF ThreadTop, HandshakeTimeout, Generate, connection, history, Session
  <2>2. CASE ~curl'
    BY <2>2 DEF Steps
  <2>3. CASE curl'
    BY <2>1, <2>3, StepsStill
  <2>. QED  BY <2>2, <2>3
<1>3. CASE ThreadUrl \/ ConnectFail
  BY <1>3 DEF ThreadUrl, ConnectFail, connection, Connected, Steps
<1>4. CASE Connect
  <2>1. toPool' = << >> /\ toMiner' = << >> /\ pxn1' = 0 /\ spc' = "subscribe"
    BY <1>4 DEF Connect, Connected
  <2>2. \A m, ids : NoRequest(m)' /\ NoAnswer(ids)'
    BY <2>1 DEF NoRequest, NoAnswer
  <2>. QED  BY <2>1, <2>2 DEF Steps, Session, Handshake
<1>5. CASE Regenerate \/ Find \/ WorkioTake \/ WorkioStale \/ WorkioNotSent \/ Api \/ Stabilize
  <2>1. UNCHANGED <<toPool, toMiner, pxn1, pauth, curl, stray, spc>>
    BY <1>5 DEF Regenerate, Find, WorkioTake, WorkioStale, WorkioNotSent, NotSent, Api, SetUrl, SetFlag,
                Stabilize, connection, stratum, history
  <2>. QED  BY <2>1, StepsStill
<1>. QED  BY <1>1, <1>2, <1>3, <1>4, <1>5, StepsSent, StepsSubscribed, StepsRead, StepsShare,
             StepsTaken, StepsNotified, StepsClosed
          DEF Next, Thread, Workio

-----------------------------------------------------------------------------
(* Shares                                                                  *)

(* What becomes of the lines to the pool: one may be added, the first is   *)
(* taken, or all are gone.                                                 *)
LEMMA PoolMoves ==
  ASSUME Typed, Connected, Next \/ Stabilize
  PROVE  \/ toPool' = toPool
         \/ toPool' = << >>
         \/ toPool # << >> /\ toPool' = Tail(toPool)
         \/ \E l \in PoolLines : toPool' = Append(toPool, l) /\ ~IsShare(l)
         \/ WorkioSent /\ toPool' = Append(toPool, ShareLine(cmd))
<1>1. CASE ThreadReset \/ Failed \/ MainTimeout \/ PoolClose
  BY <1>1, Disconnected DEF ThreadReset, Failed, MainTimeout, PoolClose
<1>2. CASE ThreadUrl \/ ThreadTop \/ ConnectFail \/ HandshakeTimeout \/ Generate \/ Connect \/ SubscribeAnswer
           \/ Regenerate \/ Find \/ WorkioTake \/ WorkioStale \/ WorkioNotSent \/ Api \/ Stabilize \/ PoolMethod
  BY <1>2 DEF ThreadUrl, ThreadTop, ConnectFail, HandshakeTimeout, Generate, Connect, SubscribeAnswer, Regenerate,
              Find, WorkioTake, WorkioStale, WorkioNotSent, NotSent, Api, SetUrl, SetFlag, Stabilize, PoolMethod,
              connection
<1>3. \A m \in {"mining.subscribe", "mining.authorize", "extranonce.subscribe", "pong"} :
        Request(m) \in PoolLines /\ ~IsShare(Request(m))
  BY PoolLine DEF IsShare
<1>4. CASE HandshakeSend
  BY <1>3, <1>4 DEF HandshakeSend, Sent, NotSent
<1>5. CASE AuthorizeLine \/ ExtranonceLine \/ MainLine
  BY <1>3, <1>5, LinePassed, Disconnected DEF Passed, Redirected, Sent
<1>6. CASE WorkioSent
  BY <1>6 DEF WorkioSent, Sent
<1>7. CASE PoolTake
  BY <1>7 DEF PoolTake
<1>. QED  BY <1>1, <1>2, <1>4, <1>5, <1>6, <1>7 DEF Next, Thread, Workio

LEMMA SharesFitKept ==
  ASSUME Typed, Connected, Fits, Next \/ Stabilize
  PROVE  SharesFit'
<1>. SUFFICES ASSUME NEW i \in DOMAIN toPool', IsShare(toPool'[i])
              PROVE  toPool'[i].share.fits
  BY DEF SharesFit, IsShare
<1>1. cmd.fits /\ \A k \in DOMAIN toPool : IsShare(toPool[k]) => toPool[k].share.fits
  BY DEF Fits, SharesFit
<1>2. CASE toPool' = toPool
  BY <1>1, <1>2
<1>3. CASE toPool' = << >>
  BY <1>3
<1>4. CASE toPool # << >> /\ toPool' = Tail(toPool)
  <2>1. i + 1 \in DOMAIN toPool /\ toPool'[i] = toPool[i + 1]
    BY <1>4, Shrunk DEF Typed
  <2>. QED  BY <1>1, <2>1
<1>5. ASSUME NEW l \in PoolLines, toPool' = Append(toPool, l), IsShare(l) => l.share.fits
      PROVE  toPool'[i].share.fits
  <2>1. toPool'[i] = l \/ (i \in DOMAIN toPool /\ toPool'[i] = toPool[i])
    BY <1>5, Grown DEF Typed
  <2>. QED  BY <1>1, <1>5, <2>1
<1>6. ShareLine(cmd) \in PoolLines /\ ShareLine(cmd).share = cmd
  BY PoolLine DEF Typed, TypeOK
<1>. QED  BY <1>1, <1>2, <1>3, <1>4, <1>5, <1>6, PoolMoves

(* A line that is no answer is taken for one until the next connection.    *)
LEMMA StrayStays ==
  ASSUME Next \/ Stabilize, ~Connect
  PROVE  stray => stray'
<1>1. CASE PoolMethod \/ AuthorizeLine \/ WorkioSent
  BY <1>1 DEF PoolMethod, AuthorizeLine, WorkioSent
<1>2. CASE \/ ThreadReset \/ ThreadUrl \/ ThreadTop \/ ConnectFail \/ Failed
           \/ HandshakeSend \/ HandshakeTimeout \/ SubscribeAnswer
           \/ ExtranonceLine \/ Generate \/ MainLine \/ MainTimeout
  BY <1>2 DEF ThreadReset, ThreadUrl, ThreadTop, ConnectFail, Failed, HandshakeSend, HandshakeTimeout, SubscribeAnswer,
              ExtranonceLine, Generate, MainLine, MainTimeout, history
<1>3. CASE Regenerate \/ Find \/ WorkioTake \/ WorkioStale \/ WorkioNotSent \/ Api \/ PoolTake \/ PoolClose \/ Stabilize
  BY <1>3 DEF Regenerate, Find, WorkioTake, WorkioStale, WorkioNotSent, Api, SetUrl, SetFlag, PoolTake, PoolClose,
              Stabilize, history
<1>. QED  BY <1>1, <1>2, <1>3 DEF Next, Thread, Workio

(* Nor is it forgotten that the pool changed extranonce1.                  *)
LEMMA MovedStays ==
  ASSUME Next \/ Stabilize, ~Connect
  PROVE  moved => moved'
<1>1. CASE PoolMethod
  BY <1>1 DEF PoolMethod
<1>2. CASE \/ ThreadReset \/ ThreadUrl \/ ThreadTop \/ ConnectFail \/ Failed
           \/ HandshakeSend \/ HandshakeTimeout \/ SubscribeAnswer \/ AuthorizeLine
           \/ ExtranonceLine \/ Generate \/ MainLine \/ MainTimeout
  BY <1>2 DEF ThreadReset, ThreadUrl, ThreadTop, ConnectFail, Failed, HandshakeSend, HandshakeTimeout, SubscribeAnswer,
              AuthorizeLine, ExtranonceLine, Generate, MainLine, MainTimeout, history
<1>3. CASE \/ Regenerate \/ Find \/ WorkioTake \/ WorkioStale \/ WorkioSent \/ WorkioNotSent \/ Api
           \/ PoolTake \/ PoolClose \/ Stabilize
  BY <1>3 DEF Regenerate, Find, WorkioTake, WorkioStale, WorkioSent, WorkioNotSent, Api, SetUrl, SetFlag, PoolTake,
              PoolClose, Stabilize, history
<1>. QED  BY <1>1, <1>2, <1>3 DEF Next, Thread, Workio

(* A job that the pool notifies is built with the extranonce1 it means.    *)
LEMMA NotifiedFits ==
  ASSUME Typed, QuietBefore, Agreed, ~stray, toMiner # << >>, Passed,
         Head(toMiner).m = "mining.notify"
  PROVE  job'.cx = job'.px /\ job'.cx = xnonce1
<1>. DEFINE line == Head(toMiner)
<1>1. line = toMiner[1] /\ 1 \in DOMAIN toMiner /\ line \in MinerLines
  BY AtHand
<1>2. pxn1 # 0
  BY <1>1 DEF QuietBefore
<1>3. GoesBy(line.x, 1)
  BY <1>1, <1>2 DEF Agreed
<1>4. ~Setter(toMiner[1])
  BY <1>1 DEF Setter
<1>5. line.x = xnonce1
  BY <1>3, <1>4 DEF GoesBy
<1>6. job' = NewJob(xnonce1, line.x) /\ line.x \in Xn1 /\ xnonce1 \in Xn1 \cup {0}
  BY <1>1, MinerLine DEF Passed, Typed, TypeOK
<1>. QED  BY <1>5, <1>6, JobTypes

(* No set_extranonce is on its way until the pool sends one, for V2.       *)
LEMMA Unmoved ==
  ASSUME Typed, Connected, Next \/ Stabilize, header = "V2", ~moved',
         \A i \in DOMAIN toMiner : toMiner[i].m # "mining.set_extranonce"
  PROVE  \A i \in DOMAIN toMiner' : toMiner'[i].m # "mining.set_extranonce"
<1>1. CASE toMiner' = toMiner
  BY <1>1
<1>2. CASE toMiner' = << >>
  BY <1>2
<1>3. CASE toMiner # << >> /\ toMiner' = Tail(toMiner)
  BY <1>3, AtHand
<1>4. ASSUME NEW l \in MinerLines, toMiner' = Append(toMiner, l), l.m # "mining.set_extranonce"
      PROVE  \A i \in DOMAIN toMiner' : toMiner'[i].m # "mining.set_extranonce"
  <2>1. \A i \in DOMAIN toMiner' : toMiner'[i] = l \/ (i \in DOMAIN toMiner /\ toMiner'[i] = toMiner[i])
    BY <1>4, Grown DEF Typed
  <2>. QED  BY <1>4, <2>1
<1>5. CASE PoolTake
  <2>1. CASE toMiner' # toMiner
    <3>1. PICK l \in MinerLines : toMiner' = Append(toMiner, l) /\ l.m = "answer"
      BY <1>5, <2>1, AnswerAdded
    <3>. QED  BY <1>4, <3>1
  <2>. QED  BY <1>1, <2>1
<1>6. CASE PoolMethod
  <2>1. PICK m \in Methods : \E x : /\ Method(m, x) \in MinerLines /\ toMiner' = Append(toMiner, Method(m, x))
                                    /\ header = "V2" /\ m = "mining.set_extranonce" => moved'
    BY <1>6, Notified
  <2>2. PICK x : /\ Method(m, x) \in MinerLines /\ toMiner' = Append(toMiner, Method(m, x))
                 /\ header = "V2" /\ m = "mining.set_extranonce" => moved'
    BY <2>1
  <2>3. Method(m, x).m = m /\ m # "mining.set_extranonce"
    BY <2>2 DEF Method
  <2>. QED  BY <1>4, <2>2, <2>3
<1>7. CASE ThreadReset \/ Failed \/ MainTimeout
  BY <1>2, <1>7, Disconnected DEF ThreadReset, Failed, MainTimeout
<1>8. CASE ThreadUrl \/ ThreadTop \/ Connect \/ ConnectFail \/ HandshakeTimeout \/ Generate \/ HandshakeSend
           \/ Regenerate \/ Find \/ Workio \/ Api \/ Stabilize \/ PoolClose
  BY <1>1, <1>8 DEF ThreadUrl, ThreadTop, Connect, ConnectFail, HandshakeTimeout, Generate, HandshakeSend, Regenerate,
              Find, Workio, WorkioTake, WorkioStale, WorkioSent, WorkioNotSent, Api, SetUrl, SetFlag, Stabilize,
              PoolClose, connection
<1>9. CASE SubscribeAnswer
  BY <1>3, <1>9 DEF SubscribeAnswer
<1>10. CASE AuthorizeLine \/ ExtranonceLine \/ MainLine
  BY <1>2, <1>3, <1>10, LinePassed, Disconnected DEF Passed, Redirected
<1>. QED  BY <1>5, <1>6, <1>7, <1>8, <1>9, <1>10 DEF Next, Thread

(* The job is kept, is that of the line at hand, or becomes a foreign one. *)
LEMMA JobFitsKept ==
  ASSUME Typed, Connected, QuietBefore, Agreed, Fits, Next \/ Stabilize
  PROVE  JobFits'
<1>1. CASE Connect
  <2>1. job' = Foreign(job) /\ toMiner' = toMiner /\ toMiner = << >>
    BY <1>1 DEF Connect, Connected
  <2>2. job'.cx = job'.px /\ job'.of # "here"
    BY <2>1, JobTypes
  <2>. QED  BY <2>1, <2>2 DEF JobFits
<1>2. CASE ~Connect
  <2>1. header' = header /\ (stray => stray') /\ (moved => moved')
    <3>1. UNCHANGED header
      BY DEF Next, Thread, Workio, Api, ThreadReset, ThreadUrl, ThreadTop, Connect, ConnectFail, Failed,
             HandshakeSend, HandshakeTimeout, SubscribeAnswer, AuthorizeLine, ExtranonceLine, Generate,
             MainLine, MainTimeout, Regenerate, Find, WorkioTake, WorkioStale, WorkioSent, WorkioNotSent,
             SetUrl, SetFlag, PoolTake, PoolMethod, PoolClose, Stabilize, options
    <3>. QED  BY <1>2, <3>1, StrayStays, MovedStays
  <2>2. JobFits
    BY DEF Fits
  <2>3. header' = "V2" /\ ~stray' /\ ~moved' =>
          \A i \in DOMAIN toMiner' : toMiner'[i].m # "mining.set_extranonce"
    BY <2>1, <2>2, Unmoved DEF JobFits
  <2>4. CASE UNCHANGED <<job, xnonce1>> /\ (spc' = spc \/ spc' \notin {"subscribe", "subwait"} \/ spc = "subscribe")
    BY <2>1, <2>2, <2>3, <2>4 DEF JobFits
  <2>5. CASE SubscribeAnswer
    <3>1. spc = "subwait" /\ job' = job
      BY <2>5 DEF SubscribeAnswer
    <3>. QED  BY <2>1, <2>2, <2>3, <3>1 DEF JobFits
  <2>6. CASE AuthorizeLine \/ ExtranonceLine \/ MainLine
    <3>1. toMiner # << >> /\ (Passed \/ Redirected)
      BY <2>6, LinePassed
    <3>2. spc' \notin {"subscribe", "subwait"}
      BY <2>6 DEF AuthorizeLine, ExtranonceLine, MainLine
    <3>3. CASE Redirected
      BY <2>4, <3>2, <3>3 DEF Redirected
    <3>4. CASE Passed /\ Head(toMiner).m = "mining.notify"
      <4>1. ~stray => job'.cx = job'.px /\ job'.cx = xnonce1
        BY <3>1, <3>4, NotifiedFits
      <4>2. xnonce1' = xnonce1
        BY <3>4 DEF Passed
      <4>. QED  BY <2>1, <2>3, <3>2, <4>1, <4>2 DEF JobFits
    <3>5. CASE Passed /\ Head(toMiner).m # "mining.notify"
      <4>1. job' = job /\ (Head(toMiner).m # "mining.set_extranonce" => xnonce1' = xnonce1)
        BY <3>5 DEF Passed
      <4>2. Head(toMiner) = toMiner[1] /\ 1 \in DOMAIN toMiner
        BY <3>1, AtHand
      <4>. QED  BY <2>1, <2>2, <2>3, <3>2, <4>1, <4>2 DEF JobFits
    <3>. QED  BY <3>1, <3>3, <3>4, <3>5
  <2>7. CASE \/ ThreadReset \/ ThreadUrl \/ ThreadTop \/ ConnectFail \/ Failed \/ HandshakeSend \/ HandshakeTimeout
             \/ Generate \/ MainTimeout
    <3>1. UNCHANGED <<job, xnonce1>> /\ (spc' \notin {"subscribe", "subwait"} \/ spc = "subscribe")
      BY <2>7 DEF ThreadReset, ThreadUrl, ThreadTop, ConnectFail, Failed, HandshakeSend, HandshakeTimeout,
                  Generate, MainTimeout
    <3>. QED  BY <2>4, <3>1
  <2>8. CASE Regenerate \/ Find \/ Workio \/ Api \/ PoolTake \/ PoolMethod \/ PoolClose \/ Stabilize
    <3>1. UNCHANGED <<job, xnonce1, spc>>
      BY <2>8 DEF Regenerate, Find, Workio, WorkioTake, WorkioStale, WorkioSent, WorkioNotSent, Api, SetUrl,
                  SetFlag, PoolTake, PoolMethod, PoolClose, Stabilize, stratum
    <3>. QED  BY <2>4, <3>1
  <2>. QED  BY <1>2, <2>5, <2>6, <2>7, <2>8 DEF Next, Thread
<1>. QED  BY <1>1, <1>2

(* A work made of the job fits.                                            *)
LEMMA WorkFits ==
  ASSUME JobFits
  PROVE  WorkOf(job).fits
<1>1. stray \/ moved \/ MadeWith(job) = job.px
  BY DEF JobFits, MadeWith
<1>. QED  BY <1>1, WorkTypes

LEMMA FitsKept ==
  ASSUME Typed, Connected, QuietBefore, Agreed, Fits, Next \/ Stabilize
  PROVE  Fits'
<1>1. /\ g_work.fits /\ cmd.fits /\ JobFits
      /\ \A i \in DOMAIN wq : wq[i] # Stop => wq[i].fits
  BY DEF Fits
<1>2. SharesFit' /\ JobFits'
  BY SharesFitKept, JobFitsKept
<1>3. CASE \/ ThreadReset \/ ThreadUrl \/ ThreadTop \/ Connect \/ ConnectFail \/ HandshakeSend \/ HandshakeTimeout
           \/ SubscribeAnswer \/ AuthorizeLine \/ ExtranonceLine \/ MainLine \/ MainTimeout \/ Api \/ PoolTake
           \/ PoolMethod \/ PoolClose \/ Stabilize
  <2>1. UNCHANGED <<g_work, cmd, wq>>
    BY <1>3 DEF ThreadReset, ThreadUrl, ThreadTop, Connect, ConnectFail, HandshakeSend, HandshakeTimeout,
                SubscribeAnswer, AuthorizeLine, ExtranonceLine, MainLine, MainTimeout, Api, SetUrl, SetFlag,
                PoolTake, PoolMethod, PoolClose, Stabilize, workio, stratum
  <2>. QED  BY <1>1, <1>2, <2>1 DEF Fits
<1>4. CASE Generate \/ Regenerate
  <2>1. UNCHANGED <<cmd, wq>> /\ g_work' \in {WorkOf(job), g_work}
    BY <1>4 DEF Generate, Regenerate, workio
  <2>2. WorkOf(job).fits
    BY <1>1, WorkFits
  <2>. QED  BY <1>1, <1>2, <2>1, <2>2 DEF Fits
<1>5. CASE Failed
  <2>1. UNCHANGED <<g_work, cmd>> /\ (wq' = wq \/ wq' = Append(wq, Stop))
    BY <1>5 DEF Failed, Ordered
  <2>2. \A i \in DOMAIN wq' : wq'[i] # Stop => wq'[i].fits
    <3>1. CASE wq' = Append(wq, Stop)
      <4>1. \A i \in DOMAIN wq' : wq'[i] = Stop \/ (i \in DOMAIN wq /\ wq'[i] = wq[i])
        BY <3>1, Grown DEF Typed
      <4>. QED  BY <1>1, <4>1
    <3>. QED  BY <1>1, <2>1, <3>1
  <2>. QED  BY <1>1, <1>2, <2>1, <2>2 DEF Fits
<1>6. CASE Find
  <2>1. PICK block \in Blocks : wq' = Append(wq, Share(g_work, block))
    BY <1>6 DEF Find
  <2>2. UNCHANGED <<g_work, cmd>>
    BY <1>6 DEF Find, stratum
  <2>3. block \in BOOLEAN
    BY SessionAssumption
  <2>4. Share(g_work, block) \in Shares \cup {Stop} /\ Share(g_work, block).fits
    BY <1>1, <2>3, ShareTypes DEF Typed, TypeOK
  <2>5. \A i \in DOMAIN wq' : wq'[i] = Share(g_work, block) \/ (i \in DOMAIN wq /\ wq'[i] = wq[i])
    BY <2>1, <2>4, Grown DEF Typed
  <2>. QED  BY <1>1, <1>2, <2>2, <2>4, <2>5 DEF Fits
<1>7. CASE WorkioTake
  <2>1. /\ UNCHANGED g_work /\ wq # << >> /\ wq' = Tail(wq)
        /\ cmd' = IF Head(wq) = Stop THEN NoShare ELSE Head(wq)
    BY <1>7 DEF WorkioTake, stratum
  <2>2. /\ Head(wq) = wq[1] /\ 1 \in DOMAIN wq
        /\ \A i \in DOMAIN wq' : i + 1 \in DOMAIN wq /\ wq'[i] = wq[i + 1]
    BY <2>1, Shrunk DEF Typed
  <2>3. cmd'.fits
    BY <1>1, <2>1, <2>2, ShareTypes
  <2>. QED  BY <1>1, <1>2, <2>1, <2>2, <2>3 DEF Fits
<1>8. CASE WorkioStale \/ WorkioSent \/ WorkioNotSent
  <2>1. UNCHANGED <<g_work, wq>> /\ cmd' \in {cmd, NoShare}
    BY <1>8 DEF WorkioStale, WorkioSent, WorkioNotSent, stratum
  <2>2. cmd'.fits
    BY <1>1, <2>1, ShareTypes
  <2>. QED  BY <1>1, <1>2, <2>1, <2>2 DEF Fits
<1>. QED  BY <1>3, <1>4, <1>5, <1>6, <1>7, <1>8 DEF Next, Thread, Workio


-----------------------------------------------------------------------------
(* Counts                                                                  *)

(* Until the next connection, an overlap is not forgotten, and a           *)
(* connection that there is was there before.                              *)
LEMMA OverlapStays ==
  ASSUME Next \/ Stabilize, ~Connect
  PROVE  overlap => overlap'
<1>1. CASE WorkioSent \/ WorkioNotSent
  BY <1>1 DEF WorkioSent, WorkioNotSent
<1>2. CASE \/ ThreadReset \/ ThreadUrl \/ ThreadTop \/ ConnectFail \/ Failed
           \/ HandshakeSend \/ HandshakeTimeout \/ SubscribeAnswer \/ AuthorizeLine
           \/ ExtranonceLine \/ Generate \/ MainLine \/ MainTimeout
  BY <1>2 DEF ThreadReset, ThreadUrl, ThreadTop, ConnectFail, Failed, HandshakeSend, HandshakeTimeout, SubscribeAnswer,
              AuthorizeLine, ExtranonceLine, Generate, MainLine, MainTimeout, history
<1>3. CASE Regenerate \/ Find \/ WorkioTake \/ WorkioStale \/ Api \/ PoolTake \/ PoolMethod \/ PoolClose \/ Stabilize
  BY <1>3 DEF Regenerate, Find, WorkioTake, WorkioStale, Api, SetUrl, SetFlag, PoolTake, PoolMethod, PoolClose,
              Stabilize, history
<1>. QED  BY <1>1, <1>2, <1>3 DEF Next, Thread, Workio

(* Counts and sharediff, as the lines of the pool are read and added.      *)
CountsStill ==
  /\ uncounted' = uncounted
  /\ ~overlap' => unsolved' = unsolved
CountsRead ==
  /\ uncounted' = IF IsShareAnswer(Head(toMiner)) THEN uncounted - 1 ELSE uncounted
  /\ ~overlap' => unsolved' = IF IsShareAnswer(Head(toMiner)) /\ sharediff THEN unsolved - 1 ELSE unsolved
CountsAdded(l) ==
  /\ uncounted' = IF IsShareAnswer(l) THEN uncounted + 1 ELSE uncounted
  /\ ~overlap' => unsolved' = IF IsShareAnswer(l) /\ l.x = 1 THEN unsolved + 1 ELSE unsolved

LEMMA CountMoves ==
  ASSUME Typed, Connected, Steps, Next \/ Stabilize, ~Connect, curl', ~stray'
  PROVE  /\ curl
         /\ \/ /\ toMiner' = toMiner /\ CountsStill
            \/ /\ toMiner # << >> /\ toMiner' = Tail(toMiner) /\ sharediff' = sharediff /\ CountsRead
            \/ /\ sharediff' = sharediff
               /\ \E l \in MinerLines :
                    /\ toMiner' = Append(toMiner, l) /\ CountsAdded(l)
                    /\ IsShareAnswer(l) => /\ toPool # << >> /\ IsShare(toPool[1])
                                           /\ l.x = 1 <=> toPool[1].share.block
<1>1. ~stray
  BY StrayStays
<1>2. ~ThreadReset /\ ~Failed /\ ~MainTimeout
  BY Disconnected DEF ThreadReset, Failed, MainTimeout
<1>3. CASE ThreadUrl \/ ThreadTop \/ ConnectFail \/ HandshakeTimeout \/ Generate \/ HandshakeSend
           \/ Regenerate \/ Find \/ WorkioTake \/ WorkioStale \/ Api \/ Stabilize \/ PoolClose
  <2>1. UNCHANGED <<curl, toMiner, uncounted, unsolved>>
    BY <1>3 DEF ThreadUrl, ThreadTop, ConnectFail, HandshakeTimeout, Generate, HandshakeSend, Regenerate,
              Find, WorkioTake, WorkioStale, Api, SetUrl, SetFlag, Stabilize, PoolClose, connection, history
  <2>. QED  BY <2>1 DEF CountsStill
<1>4. CASE WorkioSent \/ WorkioNotSent
  <2>1. UNCHANGED <<curl, toMiner>> /\ Judge
    BY <1>4 DEF WorkioSent, WorkioNotSent
  <2>2. uncounted' = uncounted /\ (~overlap' => unsolved' = unsolved)
    BY <2>1 DEF Judge
  <2>. QED  BY <2>1, <2>2 DEF CountsStill
<1>5. CASE SubscribeAnswer
  <2>1. /\ toMiner # << >> /\ toMiner' = Tail(toMiner) /\ UNCHANGED <<curl, sharediff, uncounted, unsolved>>
        /\ spc = "subwait"
    BY <1>5 DEF SubscribeAnswer, history, workio
  <2>2. Head(toMiner) = toMiner[1] /\ IsAnswer(toMiner[1], 1)
    BY <1>1, <2>1, AtHand DEF Steps
  <2>3. ~IsShareAnswer(Head(toMiner))
    BY <2>2 DEF IsShareAnswer, IsAnswer
  <2>. QED  BY <2>1, <2>3 DEF CountsRead
<1>6. CASE AuthorizeLine \/ ExtranonceLine \/ MainLine
  <2>1. toMiner # << >> /\ Passed
    BY <1>6, LinePassed, Disconnected DEF Redirected
  <2>2. toMiner' = Tail(toMiner) /\ curl /\ curl' = curl
    BY <2>1 DEF Passed, Connected
  <2>3. sharediff' = sharediff /\ overlap' = overlap
    BY <1>6 DEF AuthorizeLine, ExtranonceLine, MainLine, workio
  <2>4. Head(toMiner) = toMiner[1] /\ 1 \in DOMAIN toMiner /\ Head(toMiner) \in MinerLines
    BY <2>1, AtHand
  <2>5. CASE AuthorizeLine \/ ExtranonceLine
    <3>1. uncounted' = uncounted /\ (~overlap' => unsolved' = unsolved)
      BY <2>5 DEF AuthorizeLine, ExtranonceLine, Judge
    <3>2. NoAnswer({4})
      BY <1>1, <2>2, <2>5 DEF AuthorizeLine, ExtranonceLine, Steps, Handshake
    <3>3. ~IsShareAnswer(Head(toMiner))
      BY <2>4, <3>2 DEF IsShareAnswer, NoAnswer
    <3>. QED  BY <2>1, <2>2, <2>3, <3>1, <3>3 DEF CountsRead
  <2>6. CASE MainLine
    <3>1. Counts(Head(toMiner)) <=> IsShareAnswer(Head(toMiner))
      BY <2>4, MinerLine DEF Counts, IsShareAnswer
    <3>2. IF Counts(Head(toMiner))
          THEN /\ uncounted' = uncounted - 1
               /\ unsolved' = IF sharediff /\ ~overlap THEN unsolved - 1 ELSE unsolved
          ELSE UNCHANGED <<uncounted, unsolved>>
      BY <1>1, <2>6 DEF MainLine
    <3>3. CountsRead
      BY <2>3, <3>1, <3>2 DEF CountsRead
    <3>. QED  BY <2>1, <2>2, <2>3, <3>3
  <2>. QED  BY <1>6, <2>5, <2>6
<1>7. CASE PoolMethod
  <2>1. UNCHANGED <<curl, sharediff>> /\ Judge
    BY <1>7 DEF PoolMethod, workio
  <2>2. uncounted' = uncounted /\ (~overlap' => unsolved' = unsolved)
    BY <2>1 DEF Judge
  <2>3. PICK m \in Methods : \E x : Method(m, x) \in MinerLines /\ toMiner' = Append(toMiner, Method(m, x))
    BY <1>7, Notified
  <2>4. PICK x : Method(m, x) \in MinerLines /\ toMiner' = Append(toMiner, Method(m, x))
    BY <2>3
  <2>5. ~IsShareAnswer(Method(m, x))
    BY SessionAssumption DEF Method, IsShareAnswer
  <2>6. CountsAdded(Method(m, x))
    BY <2>2, <2>5 DEF CountsAdded
  <2>. QED  BY <2>1, <2>4, <2>5, <2>6
<1>8. CASE PoolTake
  <2>. DEFINE line == Head(toPool)
  <2>1. /\ UNCHANGED <<curl, sharediff, overlap, stray>> /\ toPool # << >> /\ line = toPool[1]
    BY <1>8, Answered DEF workio
  <2>2. \/ /\ line.m = "mining.submit" /\ line.share \in Shares
           /\ toMiner' = Append(toMiner, Answer(4, FALSE, IF line.share.block THEN 1 ELSE 0))
           /\ uncounted' = IF stray THEN uncounted ELSE uncounted + 1
           /\ unsolved' = IF stray \/ overlap \/ ~line.share.block THEN unsolved ELSE unsolved + 1
        \/ line.m # "mining.submit" /\ UNCHANGED <<uncounted, unsolved>>
    BY <1>8, Answered
  <2>3. CASE line.m = "mining.submit"
    <3>. DEFINE l == Answer(4, FALSE, IF line.share.block THEN 1 ELSE 0)
    <3>1. l \in MinerLines /\ IsShareAnswer(l) /\ l.x = IF line.share.block THEN 1 ELSE 0
      BY DEF MinerLines, Answers, Answer, IsShareAnswer
    <3>2. toMiner' = Append(toMiner, l)
      BY <2>2, <2>3
    <3>. HIDE DEF l
    <3>3. line.share.block <=> l.x = 1
      BY <3>1
    <3>4. uncounted' = uncounted + 1
      BY <1>1, <2>2, <2>3
    <3>5. ~overlap' => unsolved' = IF line.share.block THEN unsolved + 1 ELSE unsolved
      BY <1>1, <2>1, <2>2, <2>3
    <3>6. CountsAdded(l)
      BY <3>1, <3>3, <3>4, <3>5 DEF CountsAdded
    <3>. QED  BY <2>1, <2>3, <3>1, <3>2, <3>3, <3>6 DEF IsShare
  <2>4. CASE line.m # "mining.submit"
    <3>1. UNCHANGED <<uncounted, unsolved>>
      BY <2>2, <2>4
    <3>2. CASE toMiner' = toMiner
      BY <2>1, <3>1, <3>2 DEF CountsStill
    <3>3. CASE toMiner' # toMiner
      <4>1. PICK l \in MinerLines : /\ toMiner' = Append(toMiner, l) /\ l.m = "answer"
                                    /\ l.id = 4 <=> line.m = "mining.submit"
        BY <1>8, <3>3, AnswerAdded
      <4>2. ~IsShareAnswer(l)
        BY <2>4, <4>1 DEF IsShareAnswer
      <4>3. CountsAdded(l)
        BY <3>1, <4>2 DEF CountsAdded
      <4>. QED  BY <2>1, <4>1, <4>2, <4>3
    <3>. QED  BY <3>2, <3>3
  <2>. QED  BY <2>3, <2>4
<1>. QED  BY <1>2, <1>3, <1>4, <1>5, <1>6, <1>7, <1>8 DEF Next, Thread, Workio

(* The answers not yet read that count, and are of blocks.                 *)
Counted(block) == {l \in MinerLines : IsShareAnswer(l) /\ (block => l.x = 1)}

LEMMA PendingCount ==
  ASSUME NEW s \in Seq(MinerLines), NEW block
  PROVE  /\ Cardinality({i \in DOMAIN s : IsShareAnswer(s[i]) /\ (block => s[i].x = 1)})
              = Count(s, Counted(block))
         /\ Count(s, Counted(block)) \in Nat
<1>1. {i \in DOMAIN s : IsShareAnswer(s[i]) /\ (block => s[i].x = 1)} = Places(s, Counted(block))
  BY DEF Places, Counted
<1>. QED  BY <1>1, CountIsNat DEF Count

LEMMA CountedKept ==
  ASSUME Typed, Connected, Steps, OneDiff, AnswersCounted, SolvedCounted, Next \/ Stabilize
  PROVE  AnswersCounted' /\ SolvedCounted'
<1>. DEFINE All == Counted(FALSE)
            Blocked == Counted(TRUE)
<1>1. toMiner \in Seq(MinerLines) /\ uncounted \in Nat /\ unsolved \in Nat
  BY DEF Typed, TypeOK
<1>2. Pending(FALSE) = Count(toMiner, All) /\ Pending(TRUE) = Count(toMiner, Blocked)
  BY <1>1, PendingCount DEF Pending
<1>3. toMiner' \in Seq(MinerLines) => /\ Pending(FALSE)' = Count(toMiner', All)
                                     /\ Pending(TRUE)' = Count(toMiner', Blocked)
  BY PendingCount DEF Pending
<1>4. \A l \in MinerLines : /\ (l \in All <=> IsShareAnswer(l))
                            /\ (l \in Blocked <=> (IsShareAnswer(l) /\ l.x = 1))
  BY DEF Counted
<1>. HIDE DEF All, Blocked
<1>5. CASE Connect
  <2>1. toMiner' = << >> /\ uncounted' = 0 /\ unsolved' = 0
    BY <1>5 DEF Connect, Connected
  <2>2. toMiner' \in Seq(MinerLines)
    BY <2>1
  <2>3. Count(toMiner', All) = 0 /\ Count(toMiner', Blocked) = 0
    <3>1. << >> \in Seq(MinerLines) /\ DOMAIN << >> = {}
      OBVIOUS
    <3>2. Count(<< >>, All) = 0 /\ Count(<< >>, Blocked) = 0
      BY <3>1, CountIsNat
    <3>. QED  BY <2>1, <3>2
  <2>. QED  BY <1>3, <2>1, <2>2, <2>3 DEF AnswersCounted, SolvedCounted
<1>6. ASSUME ~Connect, curl', ~stray'
      PROVE  uncounted' = Pending(FALSE)' /\ (~overlap' => unsolved' = Pending(TRUE)')
  <2>1. curl /\ ~stray
    BY <1>6, StrayStays, CountMoves
  <2>2. ~overlap' => ~overlap
    BY <1>6, OverlapStays
  <2>3. uncounted = Count(toMiner, All) /\ (~overlap' => unsolved = Count(toMiner, Blocked))
    BY <1>2, <2>1, <2>2 DEF AnswersCounted, SolvedCounted
  <2>4. CASE toMiner' = toMiner /\ CountsStill
    BY <1>1, <1>3, <2>3, <2>4 DEF CountsStill
  <2>5. CASE toMiner # << >> /\ toMiner' = Tail(toMiner) /\ sharediff' = sharediff /\ CountsRead
    <3>. DEFINE l == Head(toMiner)
    <3>1. toMiner' \in Seq(MinerLines) /\ l \in MinerLines /\ l = toMiner[1] /\ 1 \in DOMAIN toMiner
      BY <2>5, AtHand
    <3>2. /\ Count(toMiner', All) = IF l \in All THEN Count(toMiner, All) - 1 ELSE Count(toMiner, All)
          /\ Count(toMiner', Blocked)
               = IF l \in Blocked THEN Count(toMiner, Blocked) - 1 ELSE Count(toMiner, Blocked)
      BY <1>1, <2>5, CountShrinks
    <3>3. ~overlap' /\ IsShareAnswer(l) => (l.x = 1 <=> sharediff)
      BY <2>1, <2>2, <3>1, Zenon DEF OneDiff
    <3>. HIDE DEF l
    <3>4. uncounted' = IF IsShareAnswer(l) THEN uncounted - 1 ELSE uncounted
      BY <2>5 DEF CountsRead, l
    <3>5. ~overlap' => unsolved' = IF IsShareAnswer(l) /\ sharediff THEN unsolved - 1 ELSE unsolved
      BY <2>5 DEF CountsRead, l
    <3>6. ~overlap' => (l \in Blocked <=> IsShareAnswer(l) /\ sharediff)
      BY <1>4, <3>1, <3>3, Zenon
    <3>7. uncounted' = Count(toMiner', All)
      BY <1>4, <2>3, <3>1, <3>2, <3>4
    <3>8. ~overlap' => unsolved' = Count(toMiner', Blocked)
      BY <2>3, <3>2, <3>5, <3>6
    <3>. QED  BY <1>3, <3>1, <3>7, <3>8
  <2>6. ASSUME NEW l \in MinerLines, toMiner' = Append(toMiner, l), CountsAdded(l)
        PROVE  uncounted' = Pending(FALSE)' /\ (~overlap' => unsolved' = Pending(TRUE)')
    <3>1. toMiner' \in Seq(MinerLines)
      BY <1>1, <2>6, Grown
    <3>2. /\ Count(toMiner', All) = IF l \in All THEN Count(toMiner, All) + 1 ELSE Count(toMiner, All)
          /\ Count(toMiner', Blocked)
               = IF l \in Blocked THEN Count(toMiner, Blocked) + 1 ELSE Count(toMiner, Blocked)
      BY <1>1, <2>6, CountGrows
    <3>3. uncounted' = Count(toMiner', All)
      BY <1>4, <2>3, <2>6, <3>2 DEF CountsAdded
    <3>4. ~overlap' => unsolved' = Count(toMiner', Blocked)
      BY <1>4, <2>3, <2>6, <3>2 DEF CountsAdded
    <3>. QED  BY <1>3, <3>1, <3>3, <3>4
  <2>. QED  BY <1>6, <2>4, <2>5, <2>6, CountMoves
<1>. QED  BY <1>5, <1>6, Zenon DEF AnswersCounted, SolvedCounted

LEMMA OneDiffKept ==
  ASSUME Typed, Connected, Steps, OneDiff, Next \/ Stabilize
  PROVE  OneDiff'
<1>. SUFFICES ASSUME ~stray', ~overlap'
              PROVE  /\ \A i \in DOMAIN toPool' : IsShare(toPool'[i]) => toPool'[i].share.block = sharediff'
                     /\ \A i \in DOMAIN toMiner' :
                          IsShareAnswer(toMiner'[i]) => (toMiner'[i].x = 1 <=> sharediff')
  BY Zenon DEF OneDiff, IsShare, IsShareAnswer
<1>1. CASE Connect
  BY <1>1 DEF Connect, Connected
<1>2. CASE WorkioSent \/ WorkioNotSent
  <2>1. ~Unanswered /\ sharediff' = cmd.block /\ toMiner' = toMiner
    BY <1>2 DEF WorkioSent, WorkioNotSent, StoreDiff
  <2>2. toPool' = toPool \/ toPool' = Append(toPool, ShareLine(cmd))
    BY <1>2 DEF WorkioSent, WorkioNotSent, Sent, NotSent
  <2>3. ShareLine(cmd) \in PoolLines /\ ShareLine(cmd).share = cmd
    BY PoolLine DEF Typed, TypeOK
  <2>4. \A i \in DOMAIN toPool' : toPool'[i] = ShareLine(cmd) \/ (i \in DOMAIN toPool /\ toPool'[i] = toPool[i])
    BY <2>2, <2>3, Grown DEF Typed
  <2>. QED  BY <2>1, <2>3, <2>4 DEF Unanswered
<1>3. CASE ~Connect /\ ~WorkioSent /\ ~WorkioNotSent
  <2>1. ~stray /\ ~overlap
    BY <1>3, StrayStays, OverlapStays
  <2>2. /\ \A i \in DOMAIN toPool : IsShare(toPool[i]) => toPool[i].share.block = sharediff
        /\ \A i \in DOMAIN toMiner : IsShareAnswer(toMiner[i]) => (toMiner[i].x = 1 <=> sharediff)
    BY <2>1 DEF OneDiff
  <2>3. sharediff' = sharediff
    BY <1>3 DEF Next, Thread, Workio, Api, ThreadReset, ThreadUrl, ThreadTop, Connect, ConnectFail, Failed,
                HandshakeSend, HandshakeTimeout, SubscribeAnswer, AuthorizeLine, ExtranonceLine, Generate,
                MainLine, MainTimeout, Regenerate, Find, WorkioTake, WorkioStale, SetUrl, SetFlag, PoolTake,
                PoolMethod, PoolClose, Stabilize, workio
  <2>4. \A i \in DOMAIN toPool' : IsShare(toPool'[i]) => toPool'[i].share.block = sharediff'
    <3>1. CASE toPool' = toPool
      BY <2>2, <2>3, <3>1, Zenon
    <3>2. CASE toPool' = << >>
      BY <3>2
    <3>3. CASE toPool # << >> /\ toPool' = Tail(toPool)
      <4>1. \A i \in DOMAIN toPool' : i + 1 \in DOMAIN toPool /\ toPool'[i] = toPool[i + 1]
        BY <3>3, Shrunk DEF Typed
      <4>. QED  BY <2>2, <2>3, <4>1, Zenon
    <3>4. ASSUME NEW l \in PoolLines, toPool' = Append(toPool, l), ~IsShare(l)
          PROVE  <2>4!:
      <4>1. \A i \in DOMAIN toPool' : toPool'[i] = l \/ (i \in DOMAIN toPool /\ toPool'[i] = toPool[i])
        BY <3>4, Grown DEF Typed
      <4>. QED  BY <2>2, <2>3, <3>4, <4>1, Zenon
    <3>. QED  BY <1>3, <3>1, <3>2, <3>3, <3>4, PoolMoves
  <2>5. \A i \in DOMAIN toMiner' : IsShareAnswer(toMiner'[i]) => (toMiner'[i].x = 1 <=> sharediff')
    <3>1. CASE ~curl'
      BY <3>1, ConnectedKept DEF Connected
    <3>2. CASE curl'
      <4>1. CASE toMiner' = toMiner
        BY <2>2, <2>3, <4>1, Zenon
      <4>2. CASE toMiner # << >> /\ toMiner' = Tail(toMiner)
        BY <2>2, <2>3, <4>2, AtHand, Zenon
      <4>3. ASSUME NEW l \in MinerLines, toMiner' = Append(toMiner, l),
                   IsShareAnswer(l) => /\ toPool # << >> /\ IsShare(toPool[1])
                                       /\ l.x = 1 <=> toPool[1].share.block
            PROVE  <2>5!:
        <5>1. \A i \in DOMAIN toMiner' : toMiner'[i] = l \/ (i \in DOMAIN toMiner /\ toMiner'[i] = toMiner[i])
          BY <4>3, Grown DEF Typed
        <5>2. toPool # << >> => 1 \in DOMAIN toPool
          BY Shrunk DEF Typed
        <5>3. toPool # << >> /\ IsShare(toPool[1]) => (toPool[1].share.block = sharediff)
          BY <2>2, <5>2
        <5>4. IsShareAnswer(l) => (l.x = 1 <=> sharediff)
          BY <4>3, <5>3, Zenon
        <5>5. ASSUME NEW i \in DOMAIN toMiner', IsShareAnswer(toMiner'[i])
              PROVE  toMiner'[i].x = 1 <=> sharediff
          <6>1. CASE toMiner'[i] = l
            BY <5>4, <5>5, <6>1
          <6>2. CASE i \in DOMAIN toMiner /\ toMiner'[i] = toMiner[i]
            BY <2>2, <5>5, <6>2
          <6>. QED  BY <5>1, <6>1, <6>2
        <5>. QED  BY <2>3, <5>5, Zenon
      <4>. QED  BY <1>3, <3>2, <4>1, <4>2, <4>3, CountMoves
    <3>. QED  BY <3>1, <3>2
  <2>. QED  BY <2>4, <2>5
<1>. QED  BY <1>1, <1>2, <1>3

-----------------------------------------------------------------------------
(* The invariant as a whole                                                *)

LEMMA InvInit == Init => IInv
<1>. SUFFICES ASSUME Init  PROVE IInv
  OBVIOUS
<1>1. Typed
  <2>1. /\ rpc_url \in Pools /\ url \in Pools /\ need_reset \in BOOLEAN /\ apc = "idle" /\ spc = "top"
        /\ {xnonce1, pxn1} \subseteq Xn1 \cup {0} /\ job \in Jobs
        /\ g_work \in [made : BOOLEAN, fits : BOOLEAN]
        /\ wpc = "idle" /\ cmd \in Shares /\ uncounted = 0 /\ unsolved = 0
    BY JobTypes, WorkTypes, ShareTypes DEF Init
  <2>2. {curl, open, pauth, retry, sharediff, stable} \subseteq BOOLEAN
        /\ {redirected, stray, moved, overlap} \subseteq BOOLEAN
    BY Zenon DEF Init
  <2>3. wq = << >> /\ toPool = << >> /\ toMiner = << >>
    BY DEF Init
  <2>4. opt_retries \in Int /\ failures = 0 /\ wfailures = 0
    BY SessionAssumption DEF Init
  <2>5. wq \in Seq(Shares \cup {Stop}) /\ Len(wq) = 0 /\ DOMAIN wq = {}
        /\ toPool \in Seq(PoolLines) /\ toMiner \in Seq(MinerLines)
    BY <2>3
  <2>. QED  BY <2>1, <2>2, <2>4, <2>5, SessionAssumption DEF Typed, TypeOK, Session
<1>2. curl = FALSE /\ open = FALSE /\ pxn1 = 0 /\ pauth = FALSE /\ toPool = << >> /\ toMiner = << >>
      /\ spc = "top" /\ wq = << >> /\ DOMAIN << >> = {}
  BY DEF Init
<1>3. Connected /\ QuietBefore /\ Agreed /\ Steps /\ OneDiff /\ AnswersCounted /\ SolvedCounted
  BY <1>2 DEF Connected, QuietBefore, Agreed, Steps, OneDiff, AnswersCounted, SolvedCounted, Handshake
<1>4. Fits
  <2>1. job = NoJob /\ g_work = NoWork /\ cmd = NoShare
    BY DEF Init
  <2>. QED  BY <1>2, <2>1, JobTypes, WorkTypes, ShareTypes DEF Fits, JobFits, SharesFit
<1>. QED  BY <1>1, <1>3, <1>4 DEF IInv

(* The counts stay natural numbers as a line is read: it is in its count.  *)
LEMMA StillNat ==
  ASSUME IInv, AuthorizeLine \/ ExtranonceLine \/ MainLine
  PROVE  uncounted' \in Nat /\ unsolved' \in Nat
<1>1. Typed /\ Connected /\ Steps /\ AnswersCounted /\ SolvedCounted /\ uncounted \in Nat /\ unsolved \in Nat
  BY DEF IInv, Typed, TypeOK
<1>2. CASE AuthorizeLine \/ ExtranonceLine
  BY <1>1, <1>2 DEF AuthorizeLine, ExtranonceLine, Judge
<1>3. CASE MainLine
  <2>. DEFINE line == Head(toMiner)
  <2>1. /\ IF Counts(line) /\ ~stray
           THEN /\ uncounted' = uncounted - 1
                /\ unsolved' = IF sharediff /\ ~overlap THEN unsolved - 1 ELSE unsolved
           ELSE UNCHANGED <<uncounted, unsolved>>
        /\ spc = "recv" /\ toMiner # << >>
    BY <1>3 DEF MainLine
  <2>2. toMiner \in Seq(MinerLines) /\ line = toMiner[1] /\ 1 \in DOMAIN toMiner /\ line \in MinerLines
    BY <1>1, <2>1, AtHand DEF Typed
  <2>3. curl
    BY <1>1, <2>1 DEF Connected
  <2>. HIDE DEF line
  <2>4. CASE ~(Counts(line) /\ ~stray)
    BY <1>1, <2>1, <2>4
  <2>5. CASE Counts(line) /\ ~stray
    <3>1. IsShareAnswer(line)
      BY <2>2, <2>5, MinerLine DEF Counts, IsShareAnswer
    <3>2. uncounted = Count(toMiner, Counted(FALSE))
      BY <1>1, <2>2, <2>3, <2>5, PendingCount DEF AnswersCounted, Pending
    <3>3. line \in Counted(FALSE)
      BY <2>2, <3>1 DEF Counted
    <3>4. uncounted # 0
      BY <2>2, <3>2, <3>3, CountIsNat
    <3>5. CASE ~(sharediff /\ ~overlap)
      BY <1>1, <2>1, <2>5, <3>4, <3>5
    <3>6. CASE sharediff /\ ~overlap
      <4>1. unsolved = Count(toMiner, Counted(TRUE))
        BY <1>1, <2>2, <2>3, <2>5, <3>6, PendingCount DEF SolvedCounted, Pending
      <4>2. line.x = 1
        BY <2>2, <2>5, <3>1, <3>6 DEF IInv, OneDiff
      <4>3. line \in Counted(TRUE)
        BY <2>2, <3>1, <4>2 DEF Counted
      <4>4. unsolved # 0
        BY <2>2, <4>1, <4>3, CountIsNat
      <4>. QED  BY <1>1, <2>1, <2>5, <3>4, <4>4
    <3>. QED  BY <3>5, <3>6
  <2>. QED  BY <2>4, <2>5
<1>. QED  BY <1>2, <1>3

LEMMA TypedKept ==
  ASSUME IInv, Next \/ Stabilize
  PROVE  Typed'
<1>1. Typed
  BY DEF IInv
<1>2. CASE AuthorizeLine \/ ExtranonceLine \/ MainLine
  BY <1>1, <1>2, StillNat, LineTyped
<1>3. CASE ~(AuthorizeLine \/ ExtranonceLine \/ MainLine)
  BY <1>1, <1>3, ThreadTyped, ConnectTyped, FailedTyped, SendTyped, SubscribeAnswerTyped, WorkTyped,
     SubmitTyped, ApiTyped, PoolTyped DEF Next, Thread, Workio
<1>. QED  BY <1>2, <1>3

LEMMA InvNext == IInv /\ [Next \/ Stabilize]_vars => IInv'
<1>1. ASSUME IInv, Next \/ Stabilize  PROVE IInv'
  <2>1. Typed'
    BY <1>1, TypedKept
  <2>2. Connected' /\ QuietBefore' /\ Agreed' /\ Steps' /\ Fits' /\ OneDiff'
    BY <1>1, ConnectedKept, QuietKept, AgreedKept, StepsKept, FitsKept, OneDiffKept DEF IInv
  <2>3. AnswersCounted' /\ SolvedCounted'
    BY <1>1, CountedKept DEF IInv
  <2>. QED  BY <2>1, <2>2, <2>3 DEF IInv
<1>2. ASSUME IInv, UNCHANGED vars  PROVE IInv'
  <2>1. UNCHANGED <<curl, toPool, toMiner, open, pxn1, pauth, opt_retries, header, rpc_url, need_reset, apc,
                    wq, wpc, cmd, wfailures, sharediff, url, xnonce1, job, g_work, spc, retry,
                    failures, stable, redirected, stray, moved, overlap, uncounted, unsolved>>
    BY <1>2 DEF vars, connection, options, workio, stratum, history
  <2>2. Typed' /\ Connected' /\ Steps'
    BY <1>2, <2>1 DEF IInv, Typed, TypeOK, Connected, Steps, NoRequest, NoAnswer, IsAnswer
  <2>3. QuietBefore' /\ Agreed' /\ Fits' /\ OneDiff'
    BY <1>2, <2>1 DEF IInv, QuietBefore, Agreed, GoesBy, Setter, Fits, JobFits, SharesFit, IsShare, OneDiff, IsShareAnswer
  <2>4. AnswersCounted' /\ SolvedCounted'
    BY <1>2, <2>1 DEF IInv, AnswersCounted, SolvedCounted, Pending, IsShareAnswer
  <2>. QED  BY <2>2, <2>3, <2>4 DEF IInv
<1>. QED  BY <1>1, <1>2

(* The inductive invariant holds whatever the pool, the network and the    *)
(* other threads do to the stratum thread at any point of its loop, and    *)
(* from the time on at which all of them work as well.                     *)
THEOREM Inductive == (Spec => []IInv) /\ (FairSpec => []IInv)
<1>1. IInv /\ [Next]_vars => IInv'
  BY InvNext
<1>2. Spec => []IInv
  BY <1>1, InvInit, PTL DEF Spec
<1>3. FairSpec => []IInv
  BY InvInit, InvNext, PTL DEF FairSpec
<1>. QED  BY <1>2, <1>3

(* The types of what is queued, sent and counted; no count of answers goes *)
(* below zero.                                                             *)
THEOREM Types == Spec => []TypeOK
<1>1. IInv => TypeOK
  BY DEF IInv, Typed
<1>. QED  BY <1>1, Inductive, PTL

(* stratum_thread behind stratum_subscribe and stratum_authorize: it has   *)
(* been authorized, and will go by the extranonce1 of the pool, however    *)
(* many set_extranonce, jobs and refusals came between the calls, and      *)
(* wherever the connection broke.                                          *)
THEOREM HandshakeIsSound == Spec => []HandshakeSound
<1>1. ASSUME IInv  PROVE HandshakeSound
  <2>. SUFFICES ASSUME spc \in Session, curl, open, ~stray  PROVE pauth /\ XnonceToCome = pxn1
    BY DEF HandshakeSound
  <2>1. pauth /\ pxn1 # 0 /\ NoAnswer({1})
    BY <1>1 DEF IInv, Steps
  <2>2. GoesBy(pxn1, Len(toMiner))
    BY <1>1, <2>1 DEF IInv, Agreed
  <2>3. toMiner \in Seq(MinerLines) /\ DOMAIN toMiner = 1 .. Len(toMiner) /\ Len(toMiner) \in Nat
    BY <1>1 DEF IInv, Typed
  <2>. DEFINE told == {i \in DOMAIN toMiner : toMiner[i].m = "mining.set_extranonce"}
  <2>4. \A i \in DOMAIN toMiner : Setter(toMiner[i]) <=> i \in told
    BY <2>1 DEF Setter, NoAnswer
  <2>5. CASE told = {}
    <3>1. pxn1 = xnonce1
      BY <2>2, <2>3, <2>4, <2>5 DEF GoesBy
    <3>. QED  BY <2>1, <2>5, <3>1 DEF XnonceToCome
  <2>6. CASE told # {}
    <3>1. PICK k \in told : toMiner[k].x = pxn1 /\ \A i \in told : i <= k
      BY <2>2, <2>3, <2>4, <2>6 DEF GoesBy
    <3>. DEFINE last == CHOOSE i \in told : \A n \in told : n <= i
    <3>2. last \in told /\ \A n \in told : n <= last
      BY <3>1, Zenon
    <3>3. last = k
      BY <2>3, <3>1, <3>2
    <3>4. XnonceToCome = toMiner[last].x
      BY <2>6 DEF XnonceToCome
    <3>. QED  BY <2>1, <3>1, <3>3, <3>4
  <2>. QED  BY <2>5, <2>6
<1>. QED  BY <1>1, Inductive, PTL

(* Every share written on a connection is of a work made with the          *)
(* extranonce1 the pool meant its job for, whatever changes of extranonce1 *)
(* and regenerations of g_work came in between. A V2 work takes the        *)
(* extranonce1 the session has when it is made (stratum_gen_work): the     *)
(* same, unless the pool has changed it in this session, after which, as   *)
(* after a stray line, or for a job of an earlier session, nothing is said *)
(* of the works made.                                                      *)
THEOREM SharesAlwaysFit == Spec => []SharesFit
<1>1. IInv => SharesFit
  BY DEF IInv, Fits
<1>. QED  BY <1>1, Inductive, PTL

(* Each answer to a share, and nothing else the pool sends, is counted as  *)
(* accepted or rejected (share_result).                                    *)
THEOREM AnswersAreCounted == Spec => []AnswersCounted
<1>1. IInv => AnswersCounted
  BY DEF IInv
<1>. QED  BY <1>1, Inductive, PTL

(* stratum.sharediff is that of the share answered while no two shares     *)
(* wait for answers, so that blocks are counted as solved and shares not.  *)
THEOREM BlocksAreCounted == Spec => []SolvedCounted
<1>1. IInv => SolvedCounted
  BY DEF IInv
<1>. QED  BY <1>1, Inductive, PTL

=============================================================================
