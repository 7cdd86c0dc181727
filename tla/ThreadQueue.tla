----------------------------- MODULE ThreadQueue ----------------------------
(***************************************************************************)
(* The thread queue of util.c (struct thread_q, tq_push, tq_pop,           *)
(* tq_freeze, tq_thaw): a list, a frozen flag, a mutex and a condition     *)
(* variable. Each section under the mutex is one step; tq_pop gives the    *)
(* mutex up while it waits, so it is two.                                  *)
(*                                                                         *)
(* tq_pop waits at most once, does not look at the frozen flag, and        *)
(* returns NULL when the list is empty after the wait. No caller sets a    *)
(* time limit. Any thread may push, freeze or thaw; allocation succeeds.   *)
(***************************************************************************)
EXTENDS Naturals, Sequences, FiniteSets

CONSTANTS
  Poppers,     \* threads that call tq_pop
  Data,        \* what is pushed
  Spurious,    \* whether pthread_cond_wait may return unsignalled
  MaxPushed    \* bound: pushes accepted

ASSUME QueueAssumption ==
  Spurious \in BOOLEAN /\ IsFiniteSet(Poppers)
ASSUME PushedAssumption == MaxPushed \in Nat

VARIABLES
  q,           \* the list, oldest first
  frozen,      \* the flag
  waiting,     \* poppers blocked in pthread_cond_wait
  woken,       \* poppers whose wait ended, that have yet to look at the list
  empty,       \* history: poppers whose last tq_pop found no datum
  pushed,      \* history: the data accepted, in order
  popped,      \* history: the data handed out, in order
  silent       \* history: no freeze, thaw, refused push or spurious wakeup yet,
               \* and no datum taken by a popper while another was woken for it

vars == <<q, frozen, waiting, woken, empty, pushed, popped, silent>>

Idle == Poppers \ (waiting \cup woken)

-----------------------------------------------------------------------------
(* Mutant: nobody is woken. *)
SignalNone == UNCHANGED <<waiting, woken>>

(* pthread_cond_signal wakes one of the threads that wait, if any does. *)
Signal ==
  IF waiting = {} THEN UNCHANGED <<waiting, woken>>
  ELSE \E p \in waiting : /\ waiting' = waiting \ {p}
                          /\ woken' = woken \cup {p}

(* Mutant: the datum is put at the head of the list. *)
PushHead(d) ==
  /\ ~frozen /\ Len(pushed) < MaxPushed
  /\ q' = <<d>> \o q
  /\ pushed' = Append(pushed, d)
  /\ Signal
  /\ UNCHANGED <<frozen, empty, popped, silent>>

(* tq_push on a queue that is not frozen. *)
Push(d) ==
  /\ ~frozen /\ Len(pushed) < MaxPushed
  /\ q' = Append(q, d)
  /\ pushed' = Append(pushed, d)
  /\ Signal
  /\ UNCHANGED <<frozen, empty, popped, silent>>

(* tq_push on a frozen queue refuses the datum, and signals all the same. *)
PushRefused ==
  /\ frozen
  /\ Signal
  /\ silent' = FALSE
  /\ UNCHANGED <<q, frozen, empty, pushed, popped>>

(* tq_freeze and tq_thaw. *)
FreezeThaw(f) ==
  /\ frozen' = f
  /\ Signal
  /\ silent' = FALSE
  /\ UNCHANGED <<q, empty, pushed, popped>>

Take(p) ==
  /\ empty' = empty \ {p}
  /\ q' = Tail(q)
  /\ popped' = Append(popped, Head(q))

(* tq_pop finds a datum at once, ... *)
PopNow(p) ==
  /\ p \in Idle /\ q # << >>
  /\ Take(p)
  /\ silent' = (silent /\ woken = {})
  /\ UNCHANGED <<frozen, waiting, woken, pushed>>

(* Mutants: NULL is returned at once; the list is not looked at first. *)
PopNever(p) ==
  /\ p \in Idle /\ q = << >>
  /\ empty' = empty \cup {p}
  /\ UNCHANGED <<q, frozen, waiting, woken, pushed, popped, silent>>
PopWaitBlind(p) ==
  /\ p \in Idle
  /\ waiting' = waiting \cup {p}
  /\ UNCHANGED <<q, frozen, woken, empty, pushed, popped, silent>>

(* ... or waits, whether the queue is frozen or not, ... *)
PopWait(p) ==
  /\ p \in Idle /\ q = << >>
  /\ waiting' = waiting \cup {p}
  /\ UNCHANGED <<q, frozen, woken, empty, pushed, popped, silent>>

WakeSpuriously(p) ==
  /\ Spurious /\ p \in waiting
  /\ waiting' = waiting \ {p} /\ woken' = woken \cup {p}
  /\ silent' = FALSE
  /\ UNCHANGED <<q, frozen, empty, pushed, popped>>

(* Mutant: the list is not looked at again after the wait, and what an     *)
(* empty one has for its first entry, the list head itself, is handed out. *)
PopWokenUnchecked(p) ==
  /\ p \in woken
  /\ woken' = woken \ {p}
  /\ IF q # << >> THEN Take(p)
     ELSE popped' = Append(popped, "list head") /\ UNCHANGED <<q, empty>>
  /\ UNCHANGED <<frozen, waiting, pushed, silent>>

(* ... and after one wait returns what is there, or NULL. *)
PopWoken(p) ==
  /\ p \in woken
  /\ woken' = woken \ {p}
  /\ IF q # << >> THEN Take(p)
     ELSE empty' = empty \cup {p} /\ UNCHANGED <<q, popped>>
  /\ UNCHANGED <<frozen, waiting, pushed, silent>>

Init ==
  /\ q = << >> /\ frozen = FALSE
  /\ waiting = {} /\ woken = {} /\ empty = {}
  /\ pushed = << >> /\ popped = << >> /\ silent = TRUE

Pop(p) == PopNow(p) \/ PopWait(p) \/ PopWoken(p)

Next ==
  \/ \E d \in Data : Push(d)
  \/ PushRefused
  \/ \E f \in BOOLEAN : FreezeThaw(f)
  \/ \E p \in Poppers : Pop(p) \/ WakeSpuriously(p)

Spec == Init /\ [][Next]_vars

-----------------------------------------------------------------------------
(* Properties                                                              *)

(* Every variable has its type: what tq_pop hands out are data, never what *)
(* lies where a datum would be; no popper both waits and has been woken.   *)
TypeOK ==
  /\ q \in Seq(Data) /\ pushed \in Seq(Data) /\ popped \in Seq(Data)
  /\ frozen \in BOOLEAN /\ silent \in BOOLEAN
  /\ waiting \subseteq Poppers /\ woken \subseteq Poppers /\ empty \subseteq Poppers
  /\ waiting \cap woken = {}

(* No wakeup is lost: while more data lie in the queue than poppers are on *)
(* their way to fetch them, no popper sleeps.                              *)
NoLostWakeup == Len(q) > Cardinality(woken) => waiting = {}

(* What was accepted has been handed out, in order, or is still queued. *)
Conserved ==
  /\ Len(pushed) = Len(popped) + Len(q)
  /\ \A i \in 1 .. Len(popped) : pushed[i] = popped[i]
  /\ \A i \in 1 .. Len(q) : pushed[Len(popped) + i] = q[i]

(* tq_pop returns NULL only after a freeze, a thaw, a push refused by a    *)
(* frozen queue, a spurious wakeup, or, with several poppers, when another *)
(* one came first. Callers (workio_thread, get_work of a miner) take NULL  *)
(* for the order to stop; each is the only popper of its queue.            *)
NullIsAnEnd == silent => empty = {}

(* The queue implements a FIFO channel. *)
Channel == INSTANCE Fifo WITH accepted <- pushed, delivered <- popped
ImplementsFifo == Channel!FifoSpec

(* A popper that was woken goes on, and one that is not waiting calls      *)
(* tq_pop again, as the loop of workio_thread does.                        *)
Fairness == \A p \in Poppers : WF_vars(PopNow(p) \/ PopWoken(p))
FairSpec == Spec /\ Fairness

(* Every datum accepted is handed out, as long as some popper keeps asking *)
(* for data: a popper that waits is woken for it.                          *)
Drained ==
  \A n \in 1 .. MaxPushed : Len(pushed) >= n ~> Len(popped) >= n

=============================================================================
