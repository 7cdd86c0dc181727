# Specifications of cpuminer

TLA+ models of the parts of this miner in which threads meet: the shared work
and the nonce ranges of the stratum mode, the session with the pool and the
shares that go over it, the socket below, the requests and solutions of the
getwork mode with long polling, and the queue the threads talk through. TLC
checks the models on small instances, TLAPS proves every invariant and every
action property the passing runs check for all values of the constants, some of
them under hypotheses named below.

Run from this directory, for example

    tlc -workers 2 -config MinerDefault.cfg MCStratumHashes.tla
    tlapm StratumMiner_proofs.tla

`PROJECT.json` lists the runs with their properties, for every property a
mutation of the model that breaks it, the lines of the source each definition
stands for, the hazards, the disagreements found and the theorems.

## The system

The program (`cpu-miner.c`, `util.c`, `api.c`) starts, after parsing its
options, these threads (`main`, cpu-miner.c:3708-3802) and ends when the
workio thread ends:

| thread | state it owns or shares | what it does |
|---|---|---|
| N miner threads, `miner_thread` | its own `work`, a nonce range; shared `g_work`, `g_work_time` under `g_work_lock`; `work_restart[t]` | takes work, scans nonces, hands in shares |
| stratum thread, `stratum_thread` | `stratum` (socket, session, job) under `work_lock`; `g_work` | keeps the connection, turns notifications into work |
| workio thread, `workio_thread` | its queue | fetches work (getwork, GBT), sends shares |
| long-polling thread | its queue, `g_work` | replaces work when the server answers a long poll |
| API thread, `api.c` | listening socket | reports statistics, changes the pool's URL, quits |

They interact by: the shared work and its lock; the unlocked flags
`work_restart[t].restart`, `g_work_time`, `have_stratum`; the queues (`tq_push`
and `tq_pop`, util.c:2167-2278) that carry commands to the workio thread, works
to a miner thread, URLs to the stratum and long-polling threads; and the pool.

What is hard in it: `stratum_gen_work` is called by two kinds of threads and
releases `work_lock` before it is done; the test for new work reads `g_work`
without its lock; a restart may be set between a thread's unlock and its reset
of the flag; the decision whether a work is new compares different bytes for
different algorithms; extranonce2 and nonces must not be used twice, over
repeated notifications, reconnections, and regenerations; a queue waits once and
takes an empty list for the order to stop; retries block everything behind them.

### Components and what makes them correct

* **Stratum mining** (`StratumMiner`). Shares are of one piece; no two
  threads hash the same nonce of a header and none compares a hash with the
  target twice; new jobs reach every thread; the work offered is of the last job and of a difficulty
  that job had.
* **Stratum session, shares over stratum, change of the pool by the API**
  (`StratumSession`). The handshake ends with both sides in agreement; a share
  is made with the extranonce1 the pool meant its job for;
  an answer is counted for the share it answers; a change of URL is not lost;
  giving up ends the program.
* **Socket of the session** (`LineSocket`). Lines come out whole, once and in order;
  the buffer is large enough; messages of two threads do not mix.
* **Thread queue** (`ThreadQueue`, `Fifo`). First in, first out, nothing
  lost; nobody sleeps beside a datum; no NULL without cause.
* **Workio thread, getwork mode, long-polling thread, switch to stratum**
  (`GetWork`). A thread that asked for work gets one answer, or the
  program ends; a solution the server can use is not dropped, and none is sent
  for a block already won; a solved block is not mined on; long polling is on
  exactly while somebody polls; nobody scans an empty work.
* **Conversions, options, system information, JSON, block templates, hash
  functions, vendored code** (not modelled, see the end).

## StratumMiner

One module for the stratum thread and the N miner threads, because they share
`g_work`, the job and the locks. It covers stratum without `jsonrpc_2`, with the
default endless retries, without `--randomize` or a time limit, for the two
kinds of headers the program scans: `Algo = "DEFAULT"`, the 80-byte header, with
the scan loop of `scanhash_sha256d`; and `"BLAKE2B"`, the V2 header.

`scanhash_sha256d` hashes `Lanes` nonces at once (sha2.c:466-585, 601-608): eight or
four in builds for x86, x86-64 and NEON, which is the default there, one in others.
The hashes of a batch are compared with the target in turn. A share in one lane ends
the scan with that lane's nonce, and the next scan starts at the nonce after it: the
lanes behind the share are hashed again, and compared for the first time. A scan
ends with a whole batch, so it may go beyond `max_nonce`, by less than the gap
(`LanesAssumption`). The V2 loop hashes one nonce at a time.

State and code:

| variable | code |
|---|---|
| `job`, `next_diff`, `xnonce1` | `stratum.job`, `.next_diff`, `.xnonce1`; job ids are the positions of the pool's jobs, 0 before the first |
| `g_work`, `g_work_lock` | the shared work, and which thread holds its mutex across steps |
| `g_work_time` | `zero`, `fresh`, or `old` (120 seconds or more) |
| `restart[t]` | `work_restart[t].restart` |
| `spc`, `ri` | where `stratum_thread` is, and its counter in `restart_threads` |
| `pc[t]`, `work[t]`, `max_nonce[t]` | where thread t is, its work, the end of its slice |
| `cursor[t]`, `lane[t]` | the nonce whose hash is compared next (`data[3]`, or n), and its place in the batch (i of the loop over lanes) |
| `announced` | history: which difficulty each job was notified with |

A work keeps: the job id, extranonce2, `h2` (bytes of the header that stand for
the previous block, or the V2 commitment), `root` (what the merkle root commits
to: coinbase, its extranonce1 and extranonce2), `ntime`, `hash1` (what the V2
hash commits to), the target as the difficulty it came from, `nonce`
(`data[19]`) and `vnonce` (`v2_hdr.nNonce`). Equality of these stands for
equality of the bytes compared.

Steps: what happens under `work_lock` is one step. What happens under
`g_work_lock` is one step too, except the regeneration by a miner thread, which
releases `work_lock` half way: `MinerGenBody`, then `MinerGenTarget`, with
`g_work_lock` held throughout. The stratum thread's own regeneration needs no
such split: between the release of `work_lock` and the reading of `job.diff` only
the stratum thread itself could write it, and readers of `g_work` need the lock.
Unlocked reads and writes are steps of their own: the wait on `g_work_time`, each
restart flag set, the flag's reset after the unlock, the test for a new job. That
test may read a job id string another thread is replacing: while it is
(`JobIdTorn`) the model lets the test come out either way.

The pool is open: at any time in the session it may notify the next job, or the
same again, set another difficulty, another extranonce1, answer, or close.

Properties:

* `OwnRange`: a thread hashes nonces of its own part of the nonce space only, also
  with a batch that goes beyond the end of its scan.
* `ScanAdvances`: a thread's own step takes it to a higher nonce of its header,
  or to a header made later.
* `TriedOnce`: no hash is compared with the target twice, by one thread or by two, so
  that no share is found or handed in twice. (Hashes are *taken* twice: those behind a
  share in its batch.) `StratumHashes` adds to `StratumMiner` one history variable,
  `noted`: a header and a nonce that some round of a scan loop compared. Any round may
  be the one noted, so that it is enough that no thread ever comes to compare what is
  noted.
* `ShareIntegrity`: a share handed in names the job, extranonce2, time and nonce
  its hash was taken with.
* `SettledWork`: while the stratum thread waits and nobody regenerates, `g_work` is
  of the last job and of a difficulty that job was announced with.
* `NewH2Adopted`: a thread that comes for work while another h2 is offered takes it.
* `JobReachesThreads`: a job notified comes to be mined by every thread, unless the
  connection is lost or the work grows old.

### Runs and bounds

Two jobs are enough for every "old against new" situation, and repeated
notifications of each are included. `MaxGen` bounds the number of regenerations
of a job by miner threads, `MaxDrop` lets the connection break while few works
were generated (the bound is on extranonce2, so that it needs no counter of its
own), `MaxXn1` bounds new extranonce1 values. `Span` is the length of a nonce
range and `Gap` what `end_nonce` leaves out (0x20 in the code).

| run | instance | shows |
|---|---|---|
| MinerDefault | DEFAULT, 2 threads, ranges of 3 with a gap of 2, batches of 2, jobs with own coinbases, none clean, a break | `ShareIntegrity`, `OwnRange`, `TriedOnce`, `ScanAdvances` |
| MinerLive | DEFAULT, 2 threads, second job not clean, difficulty 2 after the default of 1, no break | `SettledWork`, `JobReachesThreads` |
| MinerV2 | BLAKE2B, 2 threads, ranges of 2, 2 extranonce1, 1 break | `TypeOK`, `ShareIntegrity`, `NewH2Adopted` for jobs with own coinbases (not `OwnRange`, see below) |
| MinerV2NewH2 | BLAKE2B, a gateway with unused coinbase fields and two jobs in one second | `NewH2Adopted` violated, see below |

In MinerDefault a batch may begin at the last nonce of a range and go beyond it, may
end with a share in either lane, and is then followed by one that starts in its middle.
Each scan is one batch there: a scan of two needs ranges of four, which makes too many
states for two threads. Scans of several rounds are run with batches of one (MinerV2),
and the proofs cover every `Span`, `Gap` and `Lanes`.

Fairness (`FairSpec`): a miner thread that can step does (the scheduler runs
threads), and one that keeps being able to take `g_work_lock` gets it some day;
likewise the stratum thread's test, its generation of work and its restarts. The
strong fairness on the mutex is needed because another thread may hold it at
times; sections under it are short, so that a waiting thread is not starved for
ever. Nothing is assumed of the pool, of the clock, or of hashes being found.
With the connection broken at will nothing can be promised, hence the two
escapes in `JobReachesThreads`.

### What the runs found

* The new-job test of `miner_thread` (cpu-miner.c:2175-2177 and 2203-2204) reads
  `a || jsonrpc_2 ? b : 0`, which C groups as `(a || jsonrpc_2) ? b : 0`. For the
  80-byte headers b differs whenever a does but for the version and part of the
  previous hash, so little is lost. For V2 work a is the comparison of h2 and b
  the comparison of merkle root and time, which a gateway that leaves the unused
  coinbase fields alone makes equal for jobs of the same second. Then a new h2 is
  not taken: that is what MinerV2NewH2 shows.
* The same test decides at the end of a nonce range, and there V2 threads do leave
  their ranges, with coinbases of their own as well. A regenerated V2 work is of the
  same job and so has the same h2: `blake2b_job_changed` says nothing has changed, the
  thread keeps its old work, extranonce2 included, and steps its nonce on into the next
  thread's range (2175-2180, 2216). TLC finds `OwnRange` violated in the instance of
  MinerV2, which is why that property, `ScanAdvances` and `TriedOnce` are stated for
  the 80-byte headers only.
* An extranonce2 that comes round makes threads hash again what they have hashed:
  `stratum_gen_work` counts it on over its bytes (1791-1793) with no test for the
  carry out of the last. MinerDefault has the least `Xn2Mod` for its bounds, 4; with 2
  or 3 TLC finds `TriedOnce` violated. That takes 256 works of a job for an
  extranonce2 of one byte, and more than a job lasts for the usual four.

Read in the code only: the comment in `stratum_gen_work` (1875-1880) that the
nonce survives a new V2 job is not what the code does (`NextWork`; 2209-2214).

## ThreadQueue and Fifo

`ThreadQueue` has each section under the queue's mutex as a step; `tq_pop` is two,
since it gives the mutex up while it waits. `Signal` is `pthread_cond_signal`
(any waiting thread, if there is one). `pthread_cond_wait` may return
unsignalled (`Spurious`). Any number of threads pop, push, freeze and thaw.
`Fifo` is the abstract channel: data accepted, data delivered in that order.
`pushed`, `popped`, `empty` and `silent` are history variables for the properties.

Run `Queue` has three poppers, two data and three pushes, one popper more than any
queue of the program needs: the type invariant (with it, that `tq_pop` hands out data
and never the head of an empty list), `NoLostWakeup`, that the queue
implements `Fifo`, and `NullIsAnEnd` (NULL comes back only after a freeze, a
thaw, a refused push, a spurious wakeup, or when another popper was quicker; so
POSIX's spurious wakeups do end the program). `Drained`, everything pushed is
handed out, holds under weak fairness of a popper that may take what is there.

## StratumSession

The stratum thread from connect to disconnect, the workio thread as far as
shares are concerned, the API's change of URL, and the pool; a line is a message
here. What a job is, and its scanning, is the matter of `StratumMiner`, which has
only the outcome of a handshake.

| variable | code |
|---|---|
| `rpc_url`, `need_reset`, `apc` | the URL of the options or the API, `stratum_need_reset`, where `remote_seturl` is |
| `url`, `curl`, `xnonce1`, `job`, `sharediff` | the fields of `stratum` of these names |
| `header` | which kind of jobs the pool has: `V2` (`opt_algo` BLAKE2B and the job's `blake2b` flag) or `legacy` |
| `g_work` | the shared work: whether there is one, and whether it was made with the extranonce1 the pool meant its job for |
| `spc`, `retry`, `failures` | where `stratum_thread` and the functions it calls are, `stratum_subscribe`'s retry, the thread's count |
| `wq`, `wpc`, `cmd`, `wfailures` | the workio thread, its queue, the share it hands in, its count |
| `toPool`, `toMiner`, `open` | the connection: lossless and in order until the pool or the network ends it |
| `pxn1`, `pauth` | what the pool goes by |
| `stable` | from now on the network and the pool work (only in `FairSpec`) |
| `redirected`, `stray`, `moved`, `overlap`, `uncounted`, `unsolved` | history for the properties |

Of a job the model keeps which extranonce1 its coinbase was built with and which
the pool meant, and of jobs of an earlier connection only that they are; of a work
and a share whether the extranonce1 it was made with is the one meant, and of a share
whether it is a block's. `stratum_gen_work` makes a legacy work with the extranonce1 of
the job's coinbase, and a V2 work with the one the session has at that moment
(1864): `MadeWith`. A reconnection thus
leaves a finite model with any number of connections. The four requests a
pool may make (ping, algorithm, statistics, version) are answered in the same
way and are one, `mining.ping`; `"unknown"` stands for a notification that is
not known or is refused.

The thread that handshakes takes the next line for the answer it waits for
(`stratum_subscribe`), or handles methods until a line is none
(`stratum_authorize`); only an answer with id 2 can refuse the authorization.
The workio thread writes to the socket as soon as there is one, also during the
handshake. So a share's answer may be taken for the handshake's: `stray` says that
such a line got in, and the properties leave that case out and name it.

* `HandshakeSound`: a thread in the main loop has been authorized, and goes by the
  extranonce1 of the pool once it has read what is on its way.
* `SharesFit`: a share is of a work made with the extranonce1 the pool meant its job
  for. For legacy jobs this holds over any changes of extranonce1, since the coinbase
  keeps the one the job came with. For V2 jobs it holds from the subscription to the
  first `mining.set_extranonce` of the session, and says that the extranonce1 of an
  earlier subscription never gets into a work. Three kinds of works are left out, in
  `WorkOf`: those of a job of an earlier connection, of which nobody says what they
  should contain; those made after a stray line was taken for an answer; and V2 works
  made after a change of extranonce1 (`moved`), because the code then gives works of
  the older job the new one: shares of that job made after the change do not fit.
* `AnswersCounted`, `SolvedCounted`: every answer to a share is counted, no other
  line is, and a block as solved if one share at a time is unanswered (`overlap`
  says it was not: `sharediff` is then that of a later share). Whether a share is a
  block's is settled when it is found; the code compares `sharediff` with `net_diff`
  when the answer comes (1079), so `SolvedCounted` assumes that `net_diff` is known
  and has not changed in between.
* `UrlFollows`, `UrlTaken`: no change of URL is lost, and it is acted on when the
  network works, after the handshake under way has come to its end.
* `ShareLeaves`: a share that is tried again and again is got rid of.
* `GivesUp`: the order to stop reaches the workio thread behind the shares.

| run | instance | shows |
|---|---|---|
| Session | 1 pool of legacy or of V2 jobs, 2 extranonce1, all methods but the unknown one, no retries, blocks or not | the safety properties |
| SessionLive | 2 pools of legacy jobs, notifications only, no retries or endless ones | `UrlFollows` and the liveness properties |

Left out of the API's change of URL (`SetUrl`, 3239-3291): an invalid URL, which ends
the program in `parse_arg`; the name and password it may carry; and a URL that is not a
stratum pool's, which clears `have_stratum`. Every answer of the pool has a result: one
without is passed over by `stratum_handle_response` (2845) and would be another line
that changes nothing.

An unknown method adds only another line that is passed over. `MaxOut` = 1 makes
the socket's buffer full whenever a line is in it, so that writes
fail; `MaxIn` = 2 lets a line wait before another; `MaxQueue` = 1 keeps a share in
the queue while another is tried, and the order to stop behind it. The program
ends in both runs, so neither checks for deadlock.

Fairness: the threads run (weak fairness of `Thread` and of the workio thread's
steps); the pool reads what it is sent; and among submissions repeated for ever
one falls in a time when the pool is connected, if such times come again and
again. `stable`, which need not ever come, is what the properties assume of
the network: no refusals, no timeouts before an answer, no redirection.

## LineSocket

`stratum_recv_line` and `stratum_send_line` character by character. A character is a
pair that tells where it is from, so that a property can say what became of it.
`sockbuf` is the string up to its NUL, with `sockbuf_size` as allocated. `recv`
returns any number of characters up to RECVSIZE, `send` takes any number or fails.
A connection that ends is replaced by a new one at once; the buffer keeps its size.

* `BufferFits`: the string, its NUL and the byte behind it that the `memmove` of
  `stratum_recv_line` touches are inside the buffer.
* `NothingLost`: what was written is what was returned, and what lies in `sockbuf`
  and on the way, whole and in order, if no line is blank or takes 60 seconds.
  The condition is needed: `strtok` skips newlines at the head of `sockbuf`, but the
  `memmove` (1099-1100) goes by the length of the token alone and leaves a rest
  that ends at the NUL `strtok` wrote; lines behind a blank one are lost. Pools
  do not send blank lines, so this is a remark, not a finding.
* `MessagesApart`: the messages of the two threads do not mix, unless one was given
  up half way (`send_line` returns false after a part, 987-993): the next is then
  glued to its head.
* `LineReturned`: a line that was written comes to be returned: `stratum_socket_full`
  looks into `sockbuf` before it waits for the socket.

Run `Socket`: a unit of 4 and reads of 3 characters, lines of 0 to 2, three lines,
two messages of 2: a read may hold a line, a part of it, or a line and a part
of the next, and the buffer grows. The strong fairness of `RecvLine` says that
the stratum thread comes back to reading between messages it sends. The module
is small enough to be run without an MC module.

## GetWork

The miner threads, the workio thread, the long-polling thread and the server in
getwork mode, for an algorithm with an 80-byte header on a little-endian
machine. The queues are sequences (what `ThreadQueue` shows of them; `Spurious`
stands for its NULL from an empty queue).

| variable | code |
|---|---|
| `tip` | the length of the server's chain; a work with `tip` k has block k as previous hash, one with -1 is a pool's |
| `g_work`, `g_work_lock`, `due` | the shared work, the thread that holds its mutex while it waits for work, and whether `g_work_time` is `min_scantime` or more ago |
| `pc[t]`, `work[t]`, `reply[t]` | where thread t is, its work, the queue `thr->q` |
| `wq`, `wpc`, `cmd`, `ret`, `failures` | the workio thread: its queue, where it is, its command, `ret_work`, its count of failures |
| `have_gbt`, `allow_mininginfo`, `net_blocks`, `have_longpoll`, `have_stratum`, `submit_old` | the globals of these names |
| `paths`, `lpc`, `lwork` | the long-polling thread: its queue, where it is, the answer it has |
| `delivered`, `accepted` | history: solutions the server got, blocks it took from us |

A work keeps its previous hash (`tip`), its `height` (0 while unknown), whether it
has `txs` (`gbt`), and whether its data are in the order they were last encoded
in (`swapped`). The nonce is left out: a thread may find its range used up at
any time, and may meet the same header again when the block is the same. The
restart flags only end a scan, which may end at any time here.

Steps: a thread holds `g_work_lock` from `MinerRequest` over `MinerGot`, when the
answer becomes `g_work`, to `MinerGoesOn`. `have_stratum` is read in each of the two
(2196 for `g_work_time`, 2198 for the way on), and may be turned on between them.
`PollLate` makes `g_work_time` older, and `PollStop`, a step of its own, turns long
polling off. Between `MinerRequest` and `MinerGot` lies
the whole of the workio thread's work. Every call to the server is a
step, since the chain may grow before each, and so is each test, since `g_work`
is read there without its lock. A failed `submitblock` or `getwork` may have
reached the server or not. The copy of the answer into `g_work` is one step:
whatever a concurrent comparison of previous hashes sees of it, it comes out as
before the copy or as after it, because no thread has the new work yet. The
getmininginfo call of `submit_upstream_work` completes a local that is
uninitialised, which can only restart threads.

Any answer, of any thread's call, may carry X-Stratum or X-Long-Polling (`Offered`);
a template's longpollid turns long polling on too. From a switch on, the
stratum thread writes jobs into `g_work` at any time its lock is free
(`StratumJob`; how is in `StratumMiner`), and solutions go out as shares, one after
the other, or fail.

Properties:

* `OneAnswer`: a thread holds the lock exactly while it waits for work or has just got
  it; for the one that waits exactly one request or answer is under way until the workio thread ends; for
  others none, so that no late answer is taken for a later request.
* `FreshAfterBlock`: a thread never mines on a block it delivered a solution for.
  The time is set to 0 only after `submit_work`, and another thread may have a
  request in the queue before it; that the thread waits for that request's
  lock, and its own comes after the solution, makes it hold. (Without long
  polling; with it threads do not ask anew.)
* `OncePerBlock`: no solution is sent for a block one of ours was accepted for,
  by another thread or by a call whose answer was lost.
* `StaleIsOld`, `SolvedIsSolved`: what is dropped, the server no longer needs.
* `MinesAgain`: a thread that wants work or has found a solution mines again.
* `CatchesUp`: the last block of the chain comes to be mined on.
* `PollsOnce`: long polling is on exactly while the thread polls or a path waits for
  it. Two threads turn it on and one off; what makes it hold is that the tests
  of `have_longpoll` (util.c:532, cpu-miner.c:1043) are made by the workio thread
  while it is off.
* `EmptyNotScanned`: the work without content that answers a request after a switch
  is not scanned.

| run | instance | shows |
|---|---|---|
| SoloGetwork | 2 threads, getwork only, chain of 3, endless retries, getmininginfo always answered, no long polling or switch | `OncePerBlock`, `StaleIsOld`, `SolvedIsSolved`, `FreshAfterBlock`, `OneAnswer`, `MinesAgain`, `CatchesUp` |
| SoloTemplate | 1 thread, templates and fallback, long polling, switch to stratum, chain of 2, no retries, spurious wakeups, undecodable works, failing getmininginfo | `TypeOK`, `OneAnswer`, `PollsOnce`, `EmptyNotScanned` |
| SoloResend | 1 thread, templates only | `StaleIsOld` violated |
| SoloPoll | 1 thread, getwork with long polling, chain of 3 | `StaleIsOld` violated |

`MaxTip` bounds the chain, which starts with 1 block: with 3 a work may be behind
`g_work`, and `g_work` behind the chain, at once; 2 are enough for a thread to
solve a block and be offered it again. `MaxQueue` bounds the solutions that wait:
under long polling and after a switch a thread does not wait after a solution.
In SoloGetwork it cannot bind with 2 threads. `OncePerBlock` needs getmininginfo:
without it two threads that solve the same block both send it, and the server
refuses one. SoloTemplate leaves the two histories,
which no step reads, out of what tells states apart (`VIEW NoHistory`). It does not
check for deadlock, because the program ends
when the workio thread does; with no retries every failure ends it, and the
fallback and the switch are no failures.

Fairness in SoloGetwork: threads run; a thread that keeps being able to take the lock
gets it some day; of the calls repeated for ever some fetch and some
submission succeed, which is what endless retries count on; a scan ends (its
slice is finite) and time passes. That a thread finds anything is not assumed.

What the runs found:

* A block whose `submitblock` call failed once is lost (SoloResend).
  `submit_upstream_work` puts `work->data` into big-endian order in place
  (1241-1242); `workio_submit_work` tries again with the same work, whose
  previous hash now differs from that of `g_work` (1137), and it is dropped as
  stale. A getwork is not affected on a little-endian machine (`le32enc`), as
  SoloGetwork shows.
* The long-polling thread has its answer before it waits for `g_work_lock`, which a
  miner thread holds while its request is served (SoloPoll). When a block arrives
  between the two answers the older one is written over the newer, and a
  solution of the newer block on its way is dropped as stale.

Seen in the same model, without a run of its own: `SolvedIsSolved` does not hold
with templates or long polling. A template refused after its height was read (for
its version, or for want of an address to pay to) leaves the height in the struct
the getwork is then put in, and so does the work before under long polling; if
a block arrives in between, the height is one too low, and a solution is dropped
as "already solved" (748, 1146-1148).

## Proofs

The modules `*_proofs`, one for each component, three for `GetWork`; all by SMT, Zenon
and the PTL decision procedure, for any values of the constants that satisfy the
named assumptions (`RangeAssumption`: N ranges of Span nonces fit the nonce space
and the gap is not empty and smaller than a range; `LanesAssumption`: a batch is not
longer than the gap, and of one nonce for V2; `PoolAssumption`: a notified h2
is not zero; `SizeAssumption`: a read is smaller than the unit of the buffer; the
others are types).

* `Typing` for `StratumMiner`, `ThreadQueue` and `GetWork`, `Types` for
  `StratumSession`: `[]TypeOK`.
* `SharesAreSound`, `WorkSettles`: `[]ShareIntegrity` and `[]SettledWork`. Neither
  is inductive. The strengthening `IInv` adds: the lock is held exactly by the
  thread that regenerates (`LockOwner`); the job is one of the pool's, with the
  difficulty it was announced with (`JobOfPool`); every work is zeroed, or made
  from one job with one extranonce2 (`SoundWorks`: a thread that holds a zeroed
  work always sees a difference to a sound `g_work`, so it never scans a zeroed
  one); `g_work` is not ahead of the job, is of the job wherever the stratum
  thread has no reason left to replace it, unless a thread is about to
  (`FreshWork`).
* `RangesAreOwn`: `[]OwnRange` for the 80-byte headers, when extranonce2 has at
  least two values and no two jobs share coinbase and time (`DistinctNotes`). The
  invariant `Ranges` says that `g_work` has the extranonce2 before the job's; so a
  regenerated work differs from the one it replaces, and a thread at the end of
  its range starts it over. A batch begun at the last nonce of a scan goes at most
  `Lanes - 1` beyond it, which the gap leaves room for. For V2 it is false.
* `NewH2Taken`: `NewH2Adopted`, an action property, under `DistinctNotes` for every
  algorithm. Headers with equal tails are then of one job (`TailTellsJobs`), hence
  of one h2: the test that reads only the tail does not miss another h2.
  MinerV2NewH2 shows that the hypothesis is needed.
* `NothingTwice`: `ScanAdvances` for the 80-byte headers, under `DistinctNotes` and
  `NoWrap`: extranonce2 has two values more than it is counted on within `MaxGen`
  regenerations of a job and `MaxDrop` connections, so it does not come round (a pool
  that gives it one byte wraps it after 256 regenerations of a job).
  The invariant adds that extranonce2 leaves a value more wherever the stratum
  thread, or a thread at the end of its range, is bound to count it on (`Bounded`);
  and that the job is above `g_work` and `g_work` not below any thread's work, in the
  order of jobs and, within a job, of extranonce2 (`Ascending`). MinerDefault has
  the least `Xn2Mod` that `NoWrap` allows.
* `NeverTriedTwice`: `[]TriedOnce` of `StratumHashes`, under the same hypotheses: what the
  nonce ranges and the order of works are for. The invariant (`NotedBehind`): what is
  noted is of a work `v` of one piece, and the thread in whose range its nonce lies has
  either gone on to a work later than `v`, or has a header with `v`'s tail and is
  through with that nonce (`Through`: below `cursor` in the scan, at most `nonce` after
  it). Steps keep this by `AdoptAdvances` and `ScanStep`, the lemmas of `NothingTwice`;
  two threads do not meet because their ranges have no nonce in common
  (`RangesApart`), and a later header is another because equal tails are of one job
  and one extranonce2 (`TailTellsWorks`).
* `WakeupsAreNotLost`, `QueueIsFifo`, `NullHasACause`: `[]NoLostWakeup`; that every
  step of the queue is a step of `Fifo` or none, from `Conserved`; `[]NullIsAnEnd`.
* `BufferAlwaysFits`: `[]BufferFits`, for every RBUFSIZE, RECVSIZE and length of
  line. The invariant is that room for the byte behind the NUL is there
  after each step that shortens or lengthens the string (`ReceivingOK`); that
  `strtok`'s token is inside the string is a lemma that rests on the well-ordering
  of the naturals (`WFMin`).
* `MessagesAlwaysApart`: `[]MessagesApart`, for every length. The invariant
  (`SendingOK`) says that what is on the socket ends with what the holder of
  `sock_lock` has sent so far, and with a whole message when nobody holds it.
* `NoLineIsLost`: `[]NothingLost`, for any number and length of lines and any cuts of
  `recv`. What the pool has sent and nobody has returned is the rest of the string in
  `sockbuf`, then what lies in the socket; `NothingLost` puts the lines not yet
  returned together by a recursive function and says they are that. Its recursion
  is reached by a lemma of its own (`UpTo`: a set that has 0, and with each number below
  a bound the next, has all; by the least counterexample, from `WFMin`), with which
  `Pending...` say how the function changes when a line is written, is returned or
  is the first. Then `recv` and `send` move bytes between its two ends
  (`ReceiveDelivers`, `WriteDelivers`), and where the first pending line lies whole
  in the string `strtok` finds exactly it (`TokenIsLine`, `TokenDelivers`).
* `PollsOnceAlways`, `EmptyNeverScanned`: `[]PollsOnce` and `[]EmptyNotScanned` of
  `GetWork`, for any number of threads, any options and chains. `PollsOnce` is
  inductive given the types. `EmptyNotScanned` needs three more: every command
  is a thread's (`Queued`); before the switch to stratum no work anywhere is of a
  pool (`NodeWorks`), and until then every work on its way to a thread, and `g_work` unless it
  is due or as soon as a thread has got it, is of a block (`NoEmpty`). The workio thread's steps are proved through
  one lemma on what a call may change (`CallStep`), the long-polling thread's
  through another (`PollStep`).
* `OneAnswerAlways`: `[]OneAnswer`, for any options. A thread owns `g_work_lock`
  exactly while it waits for an answer or has just taken one (`Owns`), only an owner's request is in the queue
  or served (`Gets`), and what the workio thread holds is one request or none
  (`HeldOnce`).
* `NeverTheBlockItSolved`: `[]FreshAfterBlock`, under `NodeOnly`: no long polling and no
  X-Stratum, as in the run that checks it. Two threads and a queue lie between a
  solution and the next work: the invariant `Behind` says that from the solution
  until the thread takes work again `g_work` is newer than the solved block, or it is
  due and nobody's request for the next is ahead of the solution in the queue. Without
  `NodeOnly` the long-polling thread writes `g_work` past the queue.
* `SolvedOnce`: `[]OncePerBlock`, under `NodeOnly` and where getmininginfo is always
  answered (`InfoReliable`): `net_blocks` is then read before each work is handed on
  (`Fetched`, `Scanned`, `Won`), so a second solution of a block finds its height.
* `StaleWorkIsOld`, `SolvedWorkIsSolved`: the action properties `StaleIsOld`, under
  `NodeOnly` and getwork alone, and `SolvedIsSolved`, under `NodeOnly` and `Decodable`: no
  work is left half decoded, by an answer out of form or a template refused before a
  getwork. SoloPoll and SoloResend show that `StaleIsOld` fails with long polling and
  with templates. `StaleOrSwapped` is what holds with templates: a solution passed
  over as stale is of an old block, or its bytes were swapped when a call failed.
* `UrlAlwaysFollows`: `[]UrlFollows` of `StratumSession`, which is inductive by itself:
  the two writes of `remote_seturl` and the two reads of the stratum thread, in any
  order and with whatever the pool does.
* `HandshakeIsSound`, `SharesAlwaysFit`, `AnswersAreCounted`, `BlocksAreCounted`:
  `[]HandshakeSound`, `[]SharesFit`, `[]AnswersCounted`, `[]SolvedCounted`, for queues of
  any length, any number of lines and changes of extranonce1. `IInv` is their
  common strengthening: nothing is on its way without a connection (`Connected`) or
  before it is asked for (`QuietBefore`); after the lines on their way the client goes
  by the extranonce1 the pool goes by, and at each job among them by the one
  the job was built for (`Agreed`); which
  answers may be on their way at each point of the handshake (`Steps`);
  the job the client has, the shared work, and every share on its way to the pool fit
  (`Fits`), for V2 because until the first change the session's extranonce1 is the one
  each job was built for (`JobFits`); its difficulty is the last one
  announced (`OneDiff`). The counts are numbers of places in a
  sequence (`Counting`), whose change under Append and Tail are lemmas.

Only model-checked is liveness (`JobReachesThreads`, `Drained`, `MinesAgain`,
`CatchesUp`, `ShareLeaves`, `GivesUp`, `UrlTaken`, `LineReturned`): it rests on
fairness, and TLAPS does not handle ENABLED.

## Not modelled

The greater part of the repository by lines is hash functions (`src/sha3`,
`src/crypto`, `src/lyra2`, `src/yescrypt`, `src/scryptjane`, `src/algo`, assembly)
and vendored headers and libraries (`src/compat`). A model checker has nothing to
say of them: they are pure functions on long words, right or wrong by test
vectors. Models exist for `cpu-miner.c` and `util.c`, where the threads are; of
these files the following is left out:

* the bodies of the switches over algorithms (which bytes of a header are which,
  for some sixty algorithms), the scan functions beyond `scanhash_sha256d` and
  `scanhash_blake2b_v2`, and the benchmark;
* `jsonrpc_2` (CryptoNight): a protocol of its own, with its login and job format;
* the building of a block from a template (coinbase, merkle tree): data, not
  control; what a failure half way leaves behind is in `GetWork` (`Halves`);
* conversions (hex, base58, varint, targets, difficulties in floating point);
* options and the configuration file, before the threads start; logging, time
  and temperature; the API's statistics;
* memory management: a pointer freed while another thread reads it
  (`rpc_url`, job ids) shows as the two outcomes of the read at most.

## Plan

1. The size of extranonce2 in `StratumSession`, with the layout of the coinbase.
